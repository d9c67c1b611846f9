----------------------- MODULE EquipmentSweep_proofs -----------------------
(***************************************************************************)
(* Proofs about EquipmentSweep, for any number of reservations, slots,     *)
(* quantities and windows: the SQL sweep never counts fewer units than are *)
(* in use at some instant of the window, and counts exactly where no       *)
(* reservation ends when another begins.                                   *)
(***************************************************************************)
EXTENDS EquipmentSweep, FiniteSetTheorems, TLAPS

(* Induction over the subsets of a finite set, in a form the provers can   *)
(* instantiate: a nonempty collection of them has a least member.          *)
LEMMA SmallestSubset ==
  ASSUME NEW S, IsFiniteSet(S), NEW Bad \in SUBSET (SUBSET S), Bad # {}
  PROVE  \E T \in Bad : \A U \in Bad : U \subseteq T => U = T
<1>1. FiniteSubsetsOf(S) = SUBSET S BY FS_FiniteSubsetsOfFinite
<1>2. IsWellFoundedOn(StrictSubsetOrdering(S), SUBSET S)
  BY <1>1, FS_StrictSubsetOrderingWellFounded
<1>3. \E T \in Bad : \A U \in Bad : ~ (<<U, T>> \in StrictSubsetOrdering(S))
  BY <1>2, WFMin
<1>4. QED BY <1>3 DEF StrictSubsetOrdering

-----------------------------------------------------------------------------
(* Sums over finite sets.                                                  *)

First(s) == CHOOSE x \in s : TRUE

(* The recursive equation of the fold over the subsets of S.               *)
Folds(g, f, S) ==
  g = [s \in SUBSET S |-> IF s = {} THEN 0 ELSE f[First(s)] + g[s \ {First(s)}]]

LEMMA FoldApplied ==
  ASSUME NEW S, NEW f, NEW g, Folds(g, f, S), NEW s \in SUBSET S
  PROVE  g[s] = IF s = {} THEN 0 ELSE f[First(s)] + g[s \ {First(s)}]
<1> DEFINE h == [u \in SUBSET S |-> IF u = {} THEN 0 ELSE f[First(u)] + g[u \ {First(u)}]]
<1>1. g = h BY DEF Folds
<1>2. h[s] = IF s = {} THEN 0 ELSE f[First(s)] + g[s \ {First(s)}] OBVIOUS
<1>3. QED BY <1>1, <1>2

LEMMA FirstChosen == \A s : s # {} => First(s) \in s /\ s \ {First(s)} # s
BY DEF First

(* At most one function solves the equation.                               *)
LEMMA FoldUnique ==
  ASSUME NEW S, IsFiniteSet(S), NEW f, NEW g, NEW h, Folds(g, f, S), Folds(h, f, S)
  PROVE  g = h
<1> DEFINE Bad == {s \in SUBSET S : g[s] # h[s]}
<1>1. Bad = {}
  <2> SUFFICES ASSUME Bad # {} PROVE FALSE OBVIOUS
  <2>1. Bad \in SUBSET (SUBSET S) OBVIOUS
  <2>2. PICK s \in Bad : \A u \in Bad : u \subseteq s => u = s
    <3> HIDE DEF Bad
    <3>1. QED BY <2>1, SmallestSubset
  <2>3. s \in SUBSET S /\ g[s] # h[s] OBVIOUS
  <2>4. s # {} BY <2>3, FoldApplied
  <2>5. s \ {First(s)} # s /\ s \ {First(s)} \in SUBSET S BY <2>3, <2>4, FirstChosen
  <2>6. g[s \ {First(s)}] = h[s \ {First(s)}] BY <2>2, <2>5
  <2>7. QED BY <2>3, <2>4, <2>6, FoldApplied
<1>2. \A s \in SUBSET S : g[s] = h[s] BY <1>1
<1>3. /\ g = [s \in SUBSET S |-> g[s]] /\ h = [s \in SUBSET S |-> h[s]] BY DEF Folds
<1>4. QED BY <1>2, <1>3

LEMMA FoldRestricted ==
  ASSUME NEW S, NEW f, NEW g, Folds(g, f, S), NEW T \in SUBSET S
  PROVE  Folds([s \in SUBSET T |-> g[s]], f, T)
<1> DEFINE h == [s \in SUBSET T |-> g[s]]
<1>1. ASSUME NEW s \in SUBSET T
      PROVE  h[s] = IF s = {} THEN 0 ELSE f[First(s)] + h[s \ {First(s)}]
  <2>1. h[s] = g[s] /\ h[s \ {First(s)}] = g[s \ {First(s)}] OBVIOUS
  <2>2. s \in SUBSET S OBVIOUS
  <2>3. QED BY <2>1, <2>2, FoldApplied
<1>2. h = [s \in SUBSET T |-> IF s = {} THEN 0 ELSE f[First(s)] + h[s \ {First(s)}]]
  BY <1>1
<1>3. QED BY <1>2 DEF Folds

(* The solution the fold denotes, and that there is one.                   *)
Solution(f, S) == CHOOSE g : Folds(g, f, S)

LEMMA FoldExists ==
  ASSUME NEW S, IsFiniteSet(S), NEW f
  PROVE  Folds(Solution(f, S), f, S)
<1> DEFINE Bad == {T \in SUBSET S : ~ \E g : Folds(g, f, T)}
<1>1. Bad = {}
  <2> SUFFICES ASSUME Bad # {} PROVE FALSE OBVIOUS
  <2>1. Bad \in SUBSET (SUBSET S) OBVIOUS
  <2>2. PICK T \in Bad : \A U \in Bad : U \subseteq T => U = T
    <3> HIDE DEF Bad
    <3>1. QED BY <2>1, SmallestSubset
  <2>3. ASSUME NEW U \in SUBSET T, U # T PROVE Folds(Solution(f, U), f, U)
    <3>1. \E g : Folds(g, f, U) BY <2>2, <2>3
    <3>2. QED BY <3>1 DEF Solution
  <2> DEFINE Rest(s) == s \ {First(s)}
             g == [s \in SUBSET T |->
                     IF s = {} THEN 0 ELSE f[First(s)] + Solution(f, Rest(s))[Rest(s)]]
  <2>4. ASSUME NEW U \in SUBSET T, U # T PROVE g[U] = Solution(f, U)[U]
    <3>1. CASE U = {} BY <2>3, <2>4, <3>1, FoldApplied
    <3>2. CASE U # {}
      <4>1. Rest(U) \in SUBSET U BY <3>2, FirstChosen
      <4>2. Folds(Solution(f, U), f, U) BY <2>3, <2>4
      <4>3. Folds([s \in SUBSET Rest(U) |-> Solution(f, U)[s]], f, Rest(U))
        <5> HIDE DEF Rest
        <5>1. QED BY <4>1, <4>2, FoldRestricted
      <4>4. Rest(U) \in SUBSET T /\ Rest(U) # T BY <2>4
      <4>5. Folds(Solution(f, Rest(U)), f, Rest(U)) BY <4>4, <2>3
      <4>6. IsFiniteSet(Rest(U)) BY <4>4, FS_Subset
      <4>7. Solution(f, Rest(U)) = [s \in SUBSET Rest(U) |-> Solution(f, U)[s]]
        <5> HIDE DEF Rest
        <5>1. QED BY <4>3, <4>5, <4>6, FoldUnique
      <4>8. Solution(f, Rest(U))[Rest(U)] = Solution(f, U)[Rest(U)]
        <5> HIDE DEF Rest
        <5>1. QED BY <4>7
      <4>9. Solution(f, U)[U] = f[First(U)] + Solution(f, U)[Rest(U)]
        BY <3>2, <4>2, FoldApplied
      <4>10. QED BY <2>4, <3>2, <4>8, <4>9
    <3>3. QED BY <3>1, <3>2
  <2>5. ASSUME NEW s \in SUBSET T
        PROVE  g[s] = IF s = {} THEN 0 ELSE f[First(s)] + g[Rest(s)]
    <3>1. CASE s = {} BY <3>1
    <3>2. CASE s # {}
      <4>1. Rest(s) \in SUBSET T /\ Rest(s) # T BY <3>2, FirstChosen
      <4>2. g[Rest(s)] = Solution(f, Rest(s))[Rest(s)]
        <5> HIDE DEF Rest, g
        <5>1. QED BY <2>4, <4>1
      <4>3. QED BY <3>2, <4>2
    <3>3. QED BY <3>1, <3>2
  <2>6. Folds(g, f, T)
    <3>1. g = [s \in SUBSET T |-> IF s = {} THEN 0 ELSE f[First(s)] + g[Rest(s)]]
      BY <2>5
    <3>2. QED BY <3>1 DEF Folds
  <2>7. QED BY <2>2, <2>6
<1>2. \E g : Folds(g, f, S) BY <1>1
<1>3. QED BY <1>2 DEF Solution

LEMMA SumIsFold ==
  ASSUME NEW S, NEW f PROVE SumFunctionOnSet(f, S) = Solution(f, S)[S]
BY DEF SumFunctionOnSet, FoldFunctionOnSet, MapThenFoldSet, Solution, Folds, First

LEMMA SumEmpty == \A f : SumFunctionOnSet(f, {}) = 0
<1> SUFFICES ASSUME NEW f PROVE SumFunctionOnSet(f, {}) = 0 OBVIOUS
<1>1. Folds(Solution(f, {}), f, {}) BY FS_EmptySet, FoldExists
<1>2. QED BY <1>1, SumIsFold, FoldApplied

(* The sum is unfolded at the element the fold chooses.                    *)
LEMMA SumUnfolded ==
  ASSUME NEW S, IsFiniteSet(S), S # {}, NEW f
  PROVE  SumFunctionOnSet(f, S) = f[First(S)] + SumFunctionOnSet(f, S \ {First(S)})
<1> DEFINE T == S \ {First(S)}
           g == Solution(f, S)
<1>1. T \in SUBSET S /\ IsFiniteSet(T) BY FS_Subset
<1>2. Folds(g, f, S) /\ Folds(Solution(f, T), f, T) BY <1>1, FoldExists
<1>3. Folds([s \in SUBSET T |-> g[s]], f, T)
  <2> HIDE DEF T, g
  <2>1. QED BY <1>1, <1>2, FoldRestricted
<1>4. Solution(f, T) = [s \in SUBSET T |-> g[s]]
  <2> HIDE DEF T, g
  <2>1. QED BY <1>1, <1>2, <1>3, FoldUnique
<1>5. Solution(f, T)[T] = g[T]
  <2> HIDE DEF T, g
  <2>1. QED BY <1>4
<1>6. g[S] = f[First(S)] + g[T] BY <1>2, FoldApplied
<1>7. QED BY <1>5, <1>6, SumIsFold

(* With summands in Int the order does not matter: any element may be      *)
(* taken out.                                                              *)
LEMMA SumRemove ==
  ASSUME NEW S, IsFiniteSet(S), NEW f, \A x \in S : f[x] \in Int
  PROVE  /\ SumFunctionOnSet(f, S) \in Int
         /\ \A x \in S : SumFunctionOnSet(f, S) = f[x] + SumFunctionOnSet(f, S \ {x})
<1> DEFINE Sum(T) == SumFunctionOnSet(f, T)
           Good(T) == /\ Sum(T) \in Int
                      /\ \A x \in T : Sum(T) = f[x] + Sum(T \ {x})
           Bad == {T \in SUBSET S : ~Good(T)}
<1>1. Bad = {}
  <2> SUFFICES ASSUME Bad # {} PROVE FALSE OBVIOUS
  <2>1. Bad \in SUBSET (SUBSET S) OBVIOUS
  <2>2. PICK T \in Bad : \A U \in Bad : U \subseteq T => U = T
    <3> HIDE DEF Bad
    <3>1. QED BY <2>1, SmallestSubset
  <2>3. T \in SUBSET S /\ ~Good(T) /\ IsFiniteSet(T) BY FS_Subset
  <2>4. \A U \in SUBSET T : U # T => Good(U) BY <2>2, <2>3
  <2>5. T # {} BY <2>3, SumEmpty
  <2> DEFINE y == First(T)
  <2>6. y \in T /\ f[y] \in Int /\ Good(T \ {y}) BY <2>3, <2>4, <2>5, FirstChosen
  <2>7. Sum(T) = f[y] + Sum(T \ {y}) BY <2>3, <2>5, SumUnfolded
  <2>8. ASSUME NEW x \in T PROVE Sum(T) = f[x] + Sum(T \ {x})
    <3>1. CASE x = y BY <2>7, <3>1
    <3>2. CASE x # y
      <4>1. x \in T \ {y} /\ y \in T \ {x} /\ f[x] \in Int BY <2>3, <2>6, <3>2
      <4>2. Good(T \ {x}) /\ Good((T \ {y}) \ {x}) BY <2>4, <4>1
      <4>3. (T \ {y}) \ {x} = (T \ {x}) \ {y} OBVIOUS
      <4>4. Sum(T \ {y}) = f[x] + Sum((T \ {y}) \ {x}) BY <2>6, <4>1
      <4>5. Sum(T \ {x}) = f[y] + Sum((T \ {y}) \ {x}) BY <4>1, <4>2, <4>3
      <4>6. Sum((T \ {y}) \ {x}) \in Int BY <4>2
      <4> HIDE DEF Sum, y
      <4>7. QED BY <2>6, <2>7, <4>1, <4>4, <4>5, <4>6
    <3>3. QED BY <3>1, <3>2
  <2>9. Sum(T) \in Int BY <2>6, <2>7
  <2>10. QED BY <2>3, <2>8, <2>9
<1>2. Good(S) BY <1>1
<1>3. QED BY <1>2

LEMMA SumAdd ==
  ASSUME NEW S, IsFiniteSet(S), NEW f, NEW y, y \notin S,
         \A x \in S \cup {y} : f[x] \in Int
  PROVE  SumFunctionOnSet(f, S \cup {y}) = f[y] + SumFunctionOnSet(f, S)
<1>1. IsFiniteSet(S \cup {y}) BY FS_AddElement
<1>2. SumFunctionOnSet(f, S \cup {y}) = f[y] + SumFunctionOnSet(f, (S \cup {y}) \ {y})
  BY <1>1, SumRemove
<1>3. (S \cup {y}) \ {y} = S OBVIOUS
<1>4. QED BY <1>2, <1>3

LEMMA SumMonotone ==
  ASSUME NEW S, IsFiniteSet(S), NEW f, NEW g,
         \A x \in S : f[x] \in Int /\ g[x] \in Int /\ f[x] =< g[x]
  PROVE  SumFunctionOnSet(f, S) =< SumFunctionOnSet(g, S)
<1> DEFINE F(T) == SumFunctionOnSet(f, T)
           G(T) == SumFunctionOnSet(g, T)
           Bad == {T \in SUBSET S : ~ (F(T) =< G(T))}
<1>1. Bad = {}
  <2> SUFFICES ASSUME Bad # {} PROVE FALSE OBVIOUS
  <2>1. Bad \in SUBSET (SUBSET S) OBVIOUS
  <2>2. PICK T \in Bad : \A U \in Bad : U \subseteq T => U = T
    <3> HIDE DEF Bad
    <3>1. QED BY <2>1, SmallestSubset
  <2>3. T \in SUBSET S /\ ~ (F(T) =< G(T)) /\ IsFiniteSet(T) BY FS_Subset
  <2>4. T # {} BY <2>3, SumEmpty
  <2>5. PICK y \in T : TRUE BY <2>4
  <2>6. F(T \ {y}) =< G(T \ {y}) BY <2>2, <2>3, <2>5
  <2>7. /\ F(T) = f[y] + F(T \ {y}) /\ G(T) = g[y] + G(T \ {y})
    BY <2>3, <2>5, SumRemove
  <2>8. F(T \ {y}) \in Int /\ G(T \ {y}) \in Int
    <3>1. IsFiniteSet(T \ {y}) /\ T \ {y} \subseteq S BY <2>3, FS_Subset
    <3>2. QED BY <3>1, SumRemove
  <2>9. f[y] \in Int /\ g[y] \in Int /\ f[y] =< g[y] BY <2>3, <2>5
  <2> HIDE DEF F, G
  <2>10. QED BY <2>3, <2>6, <2>7, <2>8, <2>9
<1>2. S \in SUBSET S OBVIOUS
<1>3. QED BY <1>1, <1>2

LEMMA SumSame ==
  ASSUME NEW S, IsFiniteSet(S), NEW f, NEW g,
         \A x \in S : f[x] \in Int /\ f[x] = g[x]
  PROVE  SumFunctionOnSet(f, S) = SumFunctionOnSet(g, S)
<1>1. /\ SumFunctionOnSet(f, S) =< SumFunctionOnSet(g, S)
      /\ SumFunctionOnSet(g, S) =< SumFunctionOnSet(f, S)
  BY SumMonotone
<1>2. SumFunctionOnSet(f, S) \in Int /\ SumFunctionOnSet(g, S) \in Int BY SumRemove
<1>3. QED BY <1>1, <1>2

(* Elements that count for nothing may be left out.                        *)
LEMMA SumSupport ==
  ASSUME NEW S, IsFiniteSet(S), NEW T \in SUBSET S, NEW f,
         \A x \in S : f[x] \in Int, \A x \in S \ T : f[x] = 0
  PROVE  SumFunctionOnSet(f, S) = SumFunctionOnSet(f, T)
<1> DEFINE Sum(U) == SumFunctionOnSet(f, U)
           Bad == {U \in SUBSET (S \ T) : Sum(T \cup U) # Sum(T)}
<1>1. IsFiniteSet(S \ T) /\ IsFiniteSet(T) BY FS_Subset
<1>2. Bad = {}
  <2> SUFFICES ASSUME Bad # {} PROVE FALSE OBVIOUS
  <2>1. Bad \in SUBSET (SUBSET (S \ T)) OBVIOUS
  <2>2. PICK U \in Bad : \A V \in Bad : V \subseteq U => V = U
    <3> HIDE DEF Bad
    <3>1. QED BY <1>1, <2>1, SmallestSubset
  <2>3. U \in SUBSET (S \ T) /\ Sum(T \cup U) # Sum(T) OBVIOUS
  <2>4. U # {} BY <2>3
  <2>5. PICK y \in U : TRUE BY <2>4
  <2>6. Sum(T \cup (U \ {y})) = Sum(T)
    <3>1. U \ {y} \in SUBSET (S \ T) /\ U \ {y} # U BY <2>3, <2>5
    <3>2. U \ {y} \notin Bad
      <4> HIDE DEF Bad
      <4>1. QED BY <2>2, <3>1
    <3>3. QED BY <3>1, <3>2
  <2>7. T \cup U \in SUBSET S /\ y \in T \cup U /\ f[y] = 0 BY <2>3, <2>5
  <2>8. (T \cup U) \ {y} = T \cup (U \ {y}) BY <2>3, <2>5
  <2>9. IsFiniteSet(T \cup U) BY <2>7, FS_Subset
  <2>10. Sum(T \cup U) = 0 + Sum(T \cup (U \ {y})) BY <2>7, <2>8, <2>9, SumRemove
  <2>11. Sum(T) \in Int BY <1>1, SumRemove
  <2>12. QED BY <2>3, <2>6, <2>10, <2>11
<1>3. \A U \in SUBSET (S \ T) : Sum(T \cup U) = Sum(T) BY <1>2
<1>4. S \ T \in SUBSET (S \ T) /\ T \cup (S \ T) = S OBVIOUS
<1>5. Sum(T \cup (S \ T)) = Sum(T)
  <2> HIDE DEF Sum
  <2>1. QED BY <1>3, <1>4
<1>6. QED BY <1>4, <1>5

(* A nonempty finite set of integers has a greatest member.                *)
LEMMA MaxOfFinite ==
  ASSUME NEW S, IsFiniteSet(S), S # {}, \A x \in S : x \in Int
  PROVE  Max(S) \in S /\ \A x \in S : x =< Max(S)
<1> DEFINE Top(T) == \E x \in T : \A y \in T : x >= y
           Bad == {T \in SUBSET S : T # {} /\ ~Top(T)}
<1>1. Bad = {}
  <2> SUFFICES ASSUME Bad # {} PROVE FALSE OBVIOUS
  <2>1. Bad \in SUBSET (SUBSET S) OBVIOUS
  <2>2. PICK T \in Bad : \A U \in Bad : U \subseteq T => U = T
    <3> HIDE DEF Bad, Top
    <3>1. QED BY <2>1, SmallestSubset
  <2>3. T \in SUBSET S /\ T # {} /\ ~Top(T) OBVIOUS
  <2>4. PICK y \in T : TRUE BY <2>3
  <2>5. T \ {y} = {} \/ Top(T \ {y})
    <3>1. T \ {y} \in SUBSET S /\ T \ {y} # T BY <2>3, <2>4
    <3>2. T \ {y} \notin Bad BY <2>2, <3>1
    <3>3. QED BY <3>1, <3>2
  <2>6. \A x \in T : x \in Int BY <2>3
  <2>7. CASE T \ {y} = {} BY <2>3, <2>4, <2>6, <2>7
  <2>8. CASE Top(T \ {y})
    <3>1. PICK x \in T \ {y} : \A z \in T \ {y} : x >= z BY <2>8
    <3>2. CASE x >= y BY <2>3, <3>1, <3>2
    <3>3. CASE ~ (x >= y) BY <2>3, <2>4, <2>6, <3>1, <3>3
    <3>4. QED BY <3>2, <3>3
  <2>9. QED BY <2>5, <2>7, <2>8
<1>2. Top(S) BY <1>1
<1>3. Max(S) \in S /\ \A y \in S : Max(S) >= y BY <1>2 DEF Max
<1>4. QED BY <1>3
-----------------------------------------------------------------------------
(* The sweep                                                               *)

LEMMA CountedReservations ==
  ASSUME NEW R, Reservations(R), NEW T \in SUBSET R
  PROVE  Reservations(T)
<1>1. IsFiniteSet(T) BY FS_Subset DEF Reservations
<1>2. QED BY <1>1 DEF Reservations

LEMMA ImageFinite ==
  ASSUME NEW S, IsFiniteSet(S), NEW f
  PROVE  IsFiniteSet({f[x] : x \in S})
<1> DEFINE T == {f[x] : x \in S}
           g == [x \in S |-> f[x]]
<1>1. g \in Surjection(S, T) BY DEF Surjection
<1>2. QED BY <1>1, FS_Surjection

Changes(C) == {Opening(r) : r \in C} \cup {Closing(r) : r \in C}

LEMMA ChangesFinite ==
  ASSUME NEW C, IsFiniteSet(C)
  PROVE  IsFiniteSet(Changes(C))
<1> DEFINE open == [r \in C |-> Opening(r)]
           close == [r \in C |-> Closing(r)]
<1>1. IsFiniteSet({open[r] : r \in C}) /\ IsFiniteSet({close[r] : r \in C})
  BY ImageFinite
<1>2. Changes(C) = {open[r] : r \in C} \cup {close[r] : r \in C} BY DEF Changes
<1>3. QED BY <1>1, <1>2, FS_Union

LEMMA SumAddIf ==
  ASSUME NEW S, IsFiniteSet(S), NEW f, NEW y, y \notin S, NEW X,
         \A x \in S \cup {y} : f[x] \in Int
  PROVE  SumFunctionOnSet(f, S \cup ({y} \cap X))
           = (IF y \in X THEN f[y] ELSE 0) + SumFunctionOnSet(f, S)
<1>1. SumFunctionOnSet(f, S) \in Int BY SumRemove
<1>2. CASE y \in X
  <2>1. S \cup ({y} \cap X) = S \cup {y} BY <1>2
  <2>2. QED BY <1>2, <2>1, SumAdd
<1>3. CASE y \notin X
  <2>1. S \cup ({y} \cap X) = S BY <1>3
  <2>2. SumFunctionOnSet(f, S \cup ({y} \cap X)) = SumFunctionOnSet(f, S) BY <2>1
  <2>3. QED BY <1>1, <1>3, <2>2
<1>4. QED BY <1>2, <1>3

(* Summing the changes in X is summing, over the reservations, what each   *)
(* adds and takes back in X.                                               *)
Net(C, X) ==
  [r \in C |-> (IF Opening(r) \in X THEN r.quantity ELSE 0)
             - (IF Closing(r) \in X THEN r.quantity ELSE 0)]

Deltas(E) == [e \in E |-> e.delta]

LEMMA ChangesSummed ==
  ASSUME NEW C, Reservations(C), NEW X
  PROVE  SumFunctionOnSet(Deltas(Changes(C)), Changes(C) \cap X)
           = SumFunctionOnSet(Net(C, X), C)
<1> DEFINE d == Deltas(Changes(C))
           n == Net(C, X)
           Bad == {U \in SUBSET C :
                     SumFunctionOnSet(d, Changes(U) \cap X) # SumFunctionOnSet(n, U)}
<1>1. IsFiniteSet(C) /\ IsFiniteSet(Changes(C)) BY ChangesFinite DEF Reservations
<1>2. ASSUME NEW r \in C
      PROVE  /\ d[Opening(r)] = r.quantity /\ d[Closing(r)] = - r.quantity
             /\ r.quantity \in Nat \ {0}
    <2>1. Opening(r) \in Changes(C) /\ Closing(r) \in Changes(C) BY DEF Changes
    <2>2. QED BY <2>1 DEF Deltas, Opening, Closing, Reservations
<1>3. \A e \in Changes(C) : d[e] \in Int BY <1>2 DEF Changes
<1>4. \A r \in C : n[r] \in Int BY <1>2 DEF Net
<1>5. Bad = {}
  <2> SUFFICES ASSUME Bad # {} PROVE FALSE OBVIOUS
  <2>1. Bad \in SUBSET (SUBSET C) OBVIOUS
  <2>2. PICK U \in Bad : \A V \in Bad : V \subseteq U => V = U
    <3> HIDE DEF Bad
    <3>1. QED BY <1>1, <2>1, SmallestSubset
  <2>3. /\ U \in SUBSET C /\ IsFiniteSet(U)
        /\ SumFunctionOnSet(d, Changes(U) \cap X) # SumFunctionOnSet(n, U)
    BY <1>1, FS_Subset
  <2>4. U # {}
    <3>1. Changes({}) \cap X = {} BY DEF Changes
    <3>2. QED BY <2>3, <3>1, SumEmpty
  <2>5. PICK y \in U : TRUE BY <2>4
  <2> DEFINE V == U \ {y}
             A == Changes(V) \cap X
             B == A \cup ({Opening(y)} \cap X)
  <2>6. V \in SUBSET C /\ V # U /\ y \in C BY <2>3, <2>5
  <2>7. SumFunctionOnSet(d, A) = SumFunctionOnSet(n, V) BY <2>2, <2>6
  <2>8. /\ IsFiniteSet(V) /\ A \in SUBSET Changes(C) /\ B \in SUBSET Changes(C)
        /\ Opening(y) \in Changes(C) /\ Closing(y) \in Changes(C)
    BY <2>3, <2>6, FS_Subset DEF Changes
  <2>9. IsFiniteSet(A) /\ IsFiniteSet(B) BY <1>1, <2>8, FS_Subset
  <2>10. Opening(y) # Closing(y) BY <1>2, <2>6 DEF Opening, Closing
  <2>11. ASSUME NEW r \in V
         PROVE  /\ Opening(r) # Opening(y) /\ Closing(r) # Opening(y)
                /\ Opening(r) # Closing(y) /\ Closing(r) # Closing(y)
    <3>1. r \in C /\ r # y BY <2>6
    <3>2. r.of # y.of BY <2>6, <3>1 DEF Reservations
    <3>3. QED BY <3>2 DEF Opening, Closing
  <2>12. Opening(y) \notin A /\ Closing(y) \notin B BY <2>10, <2>11 DEF Changes
  <2>13. Changes(U) \cap X = B \cup ({Closing(y)} \cap X)
    <3>1. U = V \cup {y} BY <2>5
    <3>2. Changes(V \cup {y}) = Changes(V) \cup {Opening(y), Closing(y)} BY DEF Changes
    <3>3. QED BY <3>1, <3>2
  <2>14. SumFunctionOnSet(d, B)
           = (IF Opening(y) \in X THEN d[Opening(y)] ELSE 0) + SumFunctionOnSet(d, A)
    <3>1. \A x \in A \cup {Opening(y)} : d[x] \in Int BY <1>3, <2>8
    <3> HIDE DEF A, d
    <3>2. QED BY <2>9, <2>12, <3>1, SumAddIf
  <2>15. SumFunctionOnSet(d, B \cup ({Closing(y)} \cap X))
           = (IF Closing(y) \in X THEN d[Closing(y)] ELSE 0) + SumFunctionOnSet(d, B)
    <3>1. \A x \in B \cup {Closing(y)} : d[x] \in Int BY <1>3, <2>8
    <3> HIDE DEF B, d
    <3>2. QED BY <2>9, <2>12, <3>1, SumAddIf
  <2>16. SumFunctionOnSet(n, U) = n[y] + SumFunctionOnSet(n, V)
    <3>1. \A x \in U : n[x] \in Int BY <1>4, <2>3
    <3> HIDE DEF n
    <3>2. QED BY <2>3, <2>5, <3>1, SumRemove
  <2>17. n[y] = (IF Opening(y) \in X THEN y.quantity ELSE 0)
                - (IF Closing(y) \in X THEN y.quantity ELSE 0)
    BY <2>6 DEF Net
  <2>18. SumFunctionOnSet(n, V) \in Int
    <3>1. \A x \in V : n[x] \in Int BY <1>4, <2>6
    <3> HIDE DEF n, V
    <3>2. QED BY <2>8, <3>1, SumRemove
  <2>19. /\ d[Opening(y)] = y.quantity /\ d[Closing(y)] = - y.quantity
         /\ y.quantity \in Nat
    BY <1>2, <2>6
  <2> DEFINE opened == IF Opening(y) \in X THEN y.quantity ELSE 0
             closed == IF Closing(y) \in X THEN y.quantity ELSE 0
  <2>20. SumFunctionOnSet(d, Changes(U) \cap X) = SumFunctionOnSet(n, U)
    <3>1. opened \in Int /\ closed \in Int BY <2>19
    <3>2. SumFunctionOnSet(d, B) = opened + SumFunctionOnSet(d, A) BY <2>14, <2>19
    <3>3. SumFunctionOnSet(d, Changes(U) \cap X) = (0 - closed) + SumFunctionOnSet(d, B)
      <4> HIDE DEF d, A, B
      <4>1. CASE Closing(y) \in X
        <5>1. d[Closing(y)] = 0 - closed BY <4>1, <2>19
        <5> HIDE DEF closed
        <5>2. QED BY <4>1, <5>1, <2>13, <2>15
      <4>2. CASE Closing(y) \notin X BY <4>2, <2>13, <2>15
      <4>3. QED BY <4>1, <4>2
    <3>4. SumFunctionOnSet(n, U) = (opened - closed) + SumFunctionOnSet(n, V)
      BY <2>16, <2>17
    <3> HIDE DEF d, n, A, B, V, opened, closed
    <3>5. QED BY <2>7, <2>18, <3>1, <3>2, <3>3, <3>4
  <2>21. QED BY <2>3, <2>20
<1>6. C \in SUBSET C OBVIOUS
<1>7. QED BY <1>5, <1>6

LEMMA RunningNet ==
  ASSUME NEW C, Reservations(C), NEW f
  PROVE  Running(Changes(C), f)
           = SumFunctionOnSet(Net(C, {e \in Changes(C) : NotAfter(e, f)}), C)
<1> DEFINE X == {e \in Changes(C) : NotAfter(e, f)}
<1>1. Running(Changes(C), f) = SumFunctionOnSet(Deltas(Changes(C)), X)
  BY DEF Running, Deltas
<1>2. X = Changes(C) \cap X OBVIOUS
<1> HIDE DEF X
<1>3. SumFunctionOnSet(Deltas(Changes(C)), Changes(C) \cap X) = SumFunctionOnSet(Net(C, X), C)
  BY ChangesSummed
<1>4. Running(Changes(C), f) = SumFunctionOnSet(Net(C, X), C) BY <1>1, <1>2, <1>3
<1>5. QED BY <1>4 DEF X

(* What the reservations in C take at an instant.                          *)
Taken(C, t) ==
  [r \in C |-> IF r.slot.start <= t /\ t < r.slot.end THEN r.quantity ELSE 0]

LEMMA LoadNet ==
  ASSUME NEW R, Reservations(R), NEW C \in SUBSET R, NEW t,
         \A r \in R : r.slot.start <= t /\ t < r.slot.end => r \in C
  PROVE  /\ LoadAt(R, t) = SumFunctionOnSet(Taken(C, t), C)
         /\ LoadAt(R, t) \in Nat
<1> DEFINE A == {r \in R : r.slot.start <= t /\ t < r.slot.end}
           q == [r \in R |-> r.quantity]
<1>1. IsFiniteSet(C) /\ IsFiniteSet(A) BY FS_Subset DEF Reservations
<1>2. A \in SUBSET C OBVIOUS
<1>3. \A r \in R : r.quantity \in Nat BY DEF Reservations
<1>4. \A r \in A : q[r] \in Int /\ q[r] = Taken(C, t)[r] BY <1>2, <1>3 DEF Taken
<1>5. \A r \in C : Taken(C, t)[r] \in Int BY <1>3 DEF Taken
<1>6. \A r \in C \ A : Taken(C, t)[r] = 0 BY DEF Taken
<1>7. LoadAt(R, t) = SumFunctionOnSet(q, A) BY DEF LoadAt
<1>8. SumFunctionOnSet(q, A) \in Nat
  <2> DEFINE zero == [r \in A |-> 0]
             none == [r \in {} |-> 0]
  <2>1. \A r \in A : zero[r] \in Int /\ q[r] \in Int /\ zero[r] =< q[r] BY <1>3
  <2>2. SumFunctionOnSet(zero, A) =< SumFunctionOnSet(q, A)
    <3> HIDE DEF zero, q, A
    <3>1. QED BY <1>1, <2>1, SumMonotone
  <2>3. SumFunctionOnSet(zero, A) = SumFunctionOnSet(zero, {})
    <3>1. \A r \in A : zero[r] \in Int BY <2>1
    <3>2. \A r \in A \ {} : zero[r] = 0 OBVIOUS
    <3>3. {} \in SUBSET A OBVIOUS
    <3> HIDE DEF zero, A
    <3>4. QED BY <1>1, <3>1, <3>2, <3>3, SumSupport
  <2>4. SumFunctionOnSet(q, A) \in Int
    <3> HIDE DEF q, A
    <3>1. QED BY <1>1, <1>4, SumRemove
  <2>5. SumFunctionOnSet(zero, {}) = 0 BY SumEmpty
  <2> HIDE DEF q, A, zero
  <2>6. QED BY <2>2, <2>3, <2>4, <2>5
<1>9. SumFunctionOnSet(q, A) = SumFunctionOnSet(Taken(C, t), A)
  <2> HIDE DEF q, A
  <2>1. QED BY <1>1, <1>4, SumSame
<1>10. SumFunctionOnSet(Taken(C, t), C) = SumFunctionOnSet(Taken(C, t), A)
  <2> HIDE DEF A
  <2>1. QED BY <1>1, <1>2, <1>5, <1>6, SumSupport
<1> HIDE DEF q, A
<1>11. QED BY <1>7, <1>8, <1>9, <1>10

(* The order of the window function has a last row.                        *)
LEMMA LastChange ==
  ASSUME NEW E, IsFiniteSet(E), E # {}, \A e \in E : e.point \in Int /\ e.delta \in Int
  PROVE  \E f \in E : \A e \in E : NotAfter(e, f)
<1> DEFINE HasLast(D) == \E f \in D : \A e \in D : NotAfter(e, f)
           Bad == {D \in SUBSET E : D # {} /\ ~HasLast(D)}
<1>1. Bad = {}
  <2> SUFFICES ASSUME Bad # {} PROVE FALSE OBVIOUS
  <2>1. Bad \in SUBSET (SUBSET E) OBVIOUS
  <2>2. PICK D \in Bad : \A U \in Bad : U \subseteq D => U = D
    <3> HIDE DEF Bad, HasLast
    <3>1. QED BY <2>1, SmallestSubset
  <2>3. D \in SUBSET E /\ D # {} /\ ~HasLast(D) OBVIOUS
  <2>4. PICK y \in D : TRUE BY <2>3
  <2>5. D \ {y} = {} \/ HasLast(D \ {y})
    <3>1. D \ {y} \in SUBSET E /\ D \ {y} # D BY <2>3, <2>4
    <3>2. D \ {y} \notin Bad BY <2>2, <3>1
    <3>3. QED BY <3>1, <3>2
  <2>6. \A e \in D : e.point \in Int /\ e.delta \in Int BY <2>3
  <2>7. NotAfter(y, y) BY <2>4, <2>6 DEF NotAfter
  <2>8. CASE D \ {y} = {} BY <2>3, <2>4, <2>7, <2>8
  <2>9. CASE HasLast(D \ {y})
    <3>1. PICK x \in D \ {y} : \A e \in D \ {y} : NotAfter(e, x) BY <2>9
    <3>2. CASE NotAfter(y, x) BY <2>3, <3>1, <3>2
    <3>3. CASE ~NotAfter(y, x)
      <4>1. \A e \in D \ {y} : NotAfter(e, y) BY <2>4, <2>6, <3>1, <3>3 DEF NotAfter
      <4>2. QED BY <2>3, <2>4, <2>7, <4>1
    <3>4. QED BY <3>2, <3>3
  <2>10. QED BY <2>5, <2>8, <2>9
<1>2. HasLast(E) BY <1>1
<1>3. QED BY <1>2

(* Rows in use at an instant of the window are counted.                    *)
LEMMA InUseIsCounted ==
  ASSUME NEW R, Reservations(R), NEW w, w.start \in Int, w.end \in Int,
         NEW t \in w.start .. (w.end - 1),
         NEW r \in R, r.slot.start <= t, t < r.slot.end
  PROVE  r \in Counted(R, w)
BY DEF Reservations, Counted, Overlaps

LEMMA CountedChanges ==
  ASSUME NEW R, Reservations(R), NEW w
  PROVE  /\ Counted(R, w) \in SUBSET R
         /\ Reservations(Counted(R, w)) /\ IsFiniteSet(Events(R, w))
         /\ Events(R, w) = Changes(Counted(R, w))
         /\ \A e \in Events(R, w) : e.point \in Int /\ e.delta \in Int
         /\ \A f : Running(Events(R, w), f) \in Int
<1> DEFINE C == Counted(R, w)
<1>1. C \in SUBSET R BY DEF Counted
<1>2. Reservations(C) /\ IsFiniteSet(C) BY <1>1, CountedReservations DEF Reservations
<1>3. Events(R, w) = Changes(C) BY DEF Events, Changes
<1>4. IsFiniteSet(Changes(C)) BY <1>2, ChangesFinite
<1>5. \A e \in Changes(C) : e.point \in Int /\ e.delta \in Int
  BY <1>2 DEF Changes, Reservations, Opening, Closing
<1>6. ASSUME NEW f PROVE Running(Changes(C), f) \in Int
  <2> DEFINE X == {e \in Changes(C) : NotAfter(e, f)}
  <2>1. \A r \in C : Net(C, X)[r] \in Int BY <1>2 DEF Net, Reservations
  <2>2. SumFunctionOnSet(Net(C, X), C) \in Int
    <3> HIDE DEF C, X
    <3>1. QED BY <1>2, <2>1, SumRemove
  <2>3. QED BY <1>2, <2>2, RunningNet
<1>7. QED BY <1>1, <1>2, <1>3, <1>4, <1>5, <1>6

(* What the SELECT returns: nothing taken, or the greatest running sum.    *)
LEMMA PeakBounds ==
  ASSUME NEW R, Reservations(R), NEW w
  PROVE  /\ SweepPeak(R, w) \in Nat
         /\ \A f \in Events(R, w) : Running(Events(R, w), f) =< SweepPeak(R, w)
         /\ \/ SweepPeak(R, w) = 0
            \/ \E f \in Events(R, w) : SweepPeak(R, w) = Running(Events(R, w), f)
<1> DEFINE E == Events(R, w)
           run == [f \in E |-> Running(E, f)]
           M == {run[f] : f \in E}
           S == {0} \cup M
<1>1. IsFiniteSet(E) /\ \A f : Running(E, f) \in Int BY CountedChanges
<1>2. IsFiniteSet(M)
  <2> HIDE DEF E, run
  <2>1. QED BY <1>1, ImageFinite
<1>3. IsFiniteSet({0}) BY FS_Singleton
<1>4. IsFiniteSet(S)
  <2> HIDE DEF M
  <2>1. QED BY <1>2, <1>3, FS_Union
<1>5. S # {} /\ \A x \in S : x \in Int BY <1>1
<1>6. Max(S) \in S /\ \A x \in S : x =< Max(S)
  <2> HIDE DEF S
  <2>1. QED BY <1>4, <1>5, MaxOfFinite
<1>7. M = {Running(E, f) : f \in E} OBVIOUS
<1>8. SweepPeak(R, w) = Max(S) BY <1>7 DEF SweepPeak
<1>9. 0 =< Max(S) /\ Max(S) \in Int BY <1>5, <1>6
<1>10. \A f \in E : Running(E, f) =< Max(S) BY <1>6, <1>7
<1>11. Max(S) = 0 \/ \E f \in E : Max(S) = Running(E, f) BY <1>6, <1>7
<1> HIDE DEF S
<1>12. QED BY <1>8, <1>9, <1>10, <1>11

LEMMA LoadInteger ==
  ASSUME NEW R, Reservations(R), NEW t
  PROVE  LoadAt(R, t) \in Nat
<1>1. R \in SUBSET R OBVIOUS
<1>2. QED BY <1>1, LoadNet

LEMMA LoadBounds ==
  ASSUME NEW R, Reservations(R), NEW w, w.start \in Int, w.end \in Int, w.start < w.end
  PROVE  /\ MaxLoad(R, w) \in Nat
         /\ \A t \in w.start .. (w.end - 1) : LoadAt(R, t) =< MaxLoad(R, w)
         /\ \E t \in w.start .. (w.end - 1) : MaxLoad(R, w) = LoadAt(R, t)
<1> DEFINE T == w.start .. (w.end - 1)
           load == [t \in T |-> LoadAt(R, t)]
           S == {load[t] : t \in T}
<1>1. IsFiniteSet(T) /\ w.start \in T BY FS_Interval
<1>2. IsFiniteSet(S)
  <2> HIDE DEF T, load
  <2>1. QED BY <1>1, ImageFinite
<1>3. \A t \in T : LoadAt(R, t) \in Nat BY LoadInteger
<1>4. S # {} /\ \A x \in S : x \in Int
  <2>1. load[w.start] \in S BY <1>1
  <2>2. \A t \in T : load[t] \in Int BY <1>3
  <2> HIDE DEF T, load
  <2>3. QED BY <2>1, <2>2
<1>5. Max(S) \in S /\ \A x \in S : x =< Max(S)
  <2> HIDE DEF S
  <2>1. QED BY <1>2, <1>4, MaxOfFinite
<1>6. S = {LoadAt(R, t) : t \in T} OBVIOUS
<1>7. MaxLoad(R, w) = Max(S) BY <1>6 DEF MaxLoad
<1>8. QED BY <1>3, <1>5, <1>6, <1>7

(* lockEquipment never counts fewer units than are in use at some instant  *)
(* of the requested window: the running sum at the last change up to that  *)
(* instant is what is in use.                                              *)
THEOREM SweepCountsAll ==
  ASSUME NEW R, Reservations(R), NEW w, w.start \in Int, w.end \in Int,
         NEW t \in w.start .. (w.end - 1)
  PROVE  LoadAt(R, t) =< SweepPeak(R, w)
<1> DEFINE C == Counted(R, w)
           E == Events(R, w)
           Past == {e \in E : e.point =< t}
<1>1. /\ C \in SUBSET R /\ Reservations(C) /\ E = Changes(C) /\ IsFiniteSet(E)
      /\ \A e \in E : e.point \in Int /\ e.delta \in Int
  BY CountedChanges
<1>2. t \in Int OBVIOUS
<1>3. LoadAt(R, t) = SumFunctionOnSet(Taken(C, t), C)
  <2>1. \A r \in R : r.slot.start <= t /\ t < r.slot.end => r \in C BY InUseIsCounted
  <2> HIDE DEF C
  <2>2. QED BY <1>1, <2>1, LoadNet
<1>4. \A r \in C : /\ r.slot.start \in Int /\ r.slot.end \in Int
                    /\ r.slot.start < r.slot.end /\ r.quantity \in Nat
  BY <1>1 DEF Reservations
<1>5. IsFiniteSet(C) BY <1>1 DEF Reservations
<1>6. \A r \in C : Opening(r) \in E /\ Closing(r) \in E BY <1>1 DEF Changes
<1>7. CASE Past = {}
  <2>1. ASSUME NEW r \in C PROVE ~ (r.slot.start <= t)
    <3>1. Opening(r) \notin Past /\ Opening(r) \in E BY <1>6, <1>7
    <3>2. ~ (Opening(r).point =< t) BY <3>1
    <3>3. QED BY <3>2 DEF Opening
  <2>2. \A r \in C : Taken(C, t)[r] \in Int /\ Taken(C, t)[r] = 0 BY <2>1 DEF Taken
  <2>3. SumFunctionOnSet(Taken(C, t), C) = SumFunctionOnSet(Taken(C, t), {})
    <3>1. {} \in SUBSET C /\ \A r \in C \ {} : Taken(C, t)[r] = 0 BY <2>2
    <3> HIDE DEF C
    <3>2. QED BY <1>5, <2>2, <3>1, SumSupport
  <2>4. LoadAt(R, t) = 0 BY <1>3, <2>3, SumEmpty
  <2>5. QED BY <2>4, PeakBounds
<1>8. CASE Past # {}
  <2>1. IsFiniteSet(Past) BY <1>1, FS_Subset
  <2>2. PICK f \in Past : \A e \in Past : NotAfter(e, f)
    <3>1. \A e \in Past : e.point \in Int /\ e.delta \in Int BY <1>1
    <3> HIDE DEF Past
    <3>2. QED BY <1>8, <2>1, <3>1, LastChange
  <2>3. f \in E /\ f.point =< t /\ f.point \in Int BY <1>1, <2>2
  <2> DEFINE X == {e \in Changes(C) : NotAfter(e, f)}
  <2>4. \A e \in E : e \in X <=> e.point =< t
    <3>1. \A e \in E : NotAfter(e, f) => e.point =< t BY <1>1, <1>2, <2>3 DEF NotAfter
    <3>2. \A e \in E : e.point =< t => NotAfter(e, f) BY <2>2
    <3>3. QED BY <1>1, <3>1, <3>2
  <2>5. ASSUME NEW r \in C
        PROVE  Taken(C, t)[r] \in Int /\ Taken(C, t)[r] = Net(C, X)[r]
    <3>1. (Opening(r) \in X <=> r.slot.start =< t) /\ (Closing(r) \in X <=> r.slot.end =< t)
      BY <1>6, <2>4 DEF Opening, Closing
    <3>2. Net(C, X)[r] = (IF r.slot.start =< t THEN r.quantity ELSE 0)
                         - (IF r.slot.end =< t THEN r.quantity ELSE 0)
      BY <3>1 DEF Net
    <3>3. QED BY <1>2, <1>4, <3>2 DEF Taken
  <2>6. SumFunctionOnSet(Taken(C, t), C) = SumFunctionOnSet(Net(C, X), C)
    <3> HIDE DEF C, X
    <3>1. QED BY <1>5, <2>5, SumSame
  <2>7. Running(E, f) = SumFunctionOnSet(Net(C, X), C) BY <1>1, RunningNet
  <2>8. Running(E, f) =< SweepPeak(R, w) BY <2>3, PeakBounds
  <2>9. QED BY <1>3, <2>6, <2>7, <2>8
<1>9. QED BY <1>7, <1>8

(* Where no reservation ends when another begins, it never counts more     *)
(* units than are in use at some instant of the window, although the rows  *)
(* are not clipped to it: the sums before and after the window, and those  *)
(* at a closing, are no greater than the load next to them.                *)
LEMMA SweepCountsNoMore ==
  ASSUME NEW R, Reservations(R), NoneTouch(R), NEW w,
         w.start \in Int, w.end \in Int, w.start < w.end,
         NEW f \in Events(R, w)
  PROVE  \E t \in w.start .. (w.end - 1) : Running(Events(R, w), f) =< LoadAt(R, t)
<1> DEFINE C == Counted(R, w)
           E == Events(R, w)
           X == {e \in Changes(C) : NotAfter(e, f)}
<1>1. C \in SUBSET R /\ Reservations(C) /\ E = Changes(C) BY CountedChanges
<1>2. \A r \in C : /\ r.slot.start \in Int /\ r.slot.end \in Int
                    /\ r.slot.start < r.slot.end /\ r.quantity \in Nat \ {0}
                    /\ r.slot.start < w.end /\ w.start < r.slot.end
  BY <1>1 DEF Reservations, Counted, Overlaps
<1>3. \A r, x \in C : r.slot.end # x.slot.start BY <1>1 DEF NoneTouch
<1>4. \A r \in C : Opening(r) \in Changes(C) /\ Closing(r) \in Changes(C) BY DEF Changes
<1>5. Running(E, f) = SumFunctionOnSet(Net(C, X), C) BY <1>1, RunningNet
<1>6. IsFiniteSet(C) BY <1>1 DEF Reservations
<1>7. ASSUME NEW t \in w.start .. (w.end - 1),
             \A r \in C : Opening(r) \in X => r.slot.start =< t,
             \A r \in C : Opening(r) \in X /\ r.slot.end =< t => Closing(r) \in X
      PROVE  Running(E, f) =< LoadAt(R, t)
  <2>1. LoadAt(R, t) = SumFunctionOnSet(Taken(C, t), C)
    <3>1. \A r \in R : r.slot.start <= t /\ t < r.slot.end => r \in C BY InUseIsCounted
    <3> HIDE DEF C
    <3>2. QED BY <1>1, <3>1, LoadNet
  <2>2. ASSUME NEW r \in C
        PROVE  /\ Net(C, X)[r] \in Int /\ Taken(C, t)[r] \in Int
               /\ Net(C, X)[r] =< Taken(C, t)[r]
    <3>1. /\ Net(C, X)[r] = (IF Opening(r) \in X THEN r.quantity ELSE 0)
                             - (IF Closing(r) \in X THEN r.quantity ELSE 0)
          /\ Taken(C, t)[r] =
               IF r.slot.start <= t /\ t < r.slot.end THEN r.quantity ELSE 0
      BY DEF Net, Taken
    <3>2. /\ Opening(r) \in X => r.slot.start =< t
          /\ Opening(r) \in X /\ r.slot.end =< t => Closing(r) \in X
      BY <1>7
    <3>3. /\ r.slot.start \in Int /\ r.slot.end \in Int /\ r.quantity \in Nat /\ t \in Int
      BY <1>2
    <3> HIDE DEF X, C
    <3>4. QED BY <3>1, <3>2, <3>3
  <2>3. SumFunctionOnSet(Net(C, X), C) =< SumFunctionOnSet(Taken(C, t), C)
    <3> HIDE DEF C, X
    <3>1. QED BY <1>6, <2>2, SumMonotone
  <2>4. QED BY <1>5, <2>1, <2>3
<1>8. CASE \E x \in C : f = Opening(x)
  <2>1. PICK x \in C : f = Opening(x) BY <1>8
  <2> DEFINE p == x.slot.start
             t == IF p < w.start THEN w.start ELSE p
  <2>2. t \in w.start .. (w.end - 1) /\ p \in Int BY <1>2
  <2>3. ASSUME NEW r \in C, Opening(r) \in X PROVE r.slot.start =< t
    <3>1. NotAfter(Opening(r), Opening(x)) BY <2>1, <2>3
    <3>2. r.slot.start =< p BY <1>2, <3>1 DEF NotAfter, Opening
    <3>3. QED BY <1>2, <2>2, <3>2
  <2>4. ASSUME NEW r \in C, r.slot.end =< t PROVE Closing(r) \in X
    <3>1. r.slot.end < p BY <1>2, <1>3, <2>2, <2>4
    <3>2. NotAfter(Closing(r), Opening(x)) BY <3>1 DEF NotAfter, Opening, Closing
    <3>3. QED BY <1>4, <2>1, <3>2
  <2> HIDE DEF t, X
  <2>5. QED BY <1>7, <2>2, <2>3, <2>4
<1>9. CASE \E x \in C : f = Closing(x)
  <2>1. PICK x \in C : f = Closing(x) BY <1>9
  <2> DEFINE p == x.slot.end
             t == IF w.end < p THEN w.end - 1 ELSE p - 1
  <2>2. t \in w.start .. (w.end - 1) /\ p \in Int BY <1>2
  <2>3. ASSUME NEW r \in C, Opening(r) \in X PROVE r.slot.start =< t
    <3>1. NotAfter(Opening(r), Closing(x)) BY <2>1, <2>3
    <3>2. r.slot.start =< p BY <1>2, <3>1 DEF NotAfter, Opening, Closing
    <3>3. r.slot.start # p BY <1>3
    <3>4. QED BY <1>2, <2>2, <3>2, <3>3
  <2>4. ASSUME NEW r \in C, r.slot.end =< t PROVE Closing(r) \in X
    <3>1. r.slot.end < p BY <1>2, <2>2, <2>4
    <3>2. NotAfter(Closing(r), Closing(x)) BY <3>1 DEF NotAfter, Closing
    <3>3. QED BY <1>4, <2>1, <3>2
  <2> HIDE DEF t, X
  <2>5. QED BY <1>7, <2>2, <2>3, <2>4
<1>10. QED BY <1>1, <1>8, <1>9 DEF Changes

(* Where none touch, the count is exact.                                   *)
THEOREM SweepCountsExactly ==
  ASSUME NEW R, Reservations(R), NEW w, w.start \in Int, w.end \in Int, w.start < w.end
  PROVE  /\ MaxLoad(R, w) =< SweepPeak(R, w)
         /\ NoneTouch(R) => SweepPeak(R, w) = MaxLoad(R, w)
<1>1. MaxLoad(R, w) =< SweepPeak(R, w) BY LoadBounds, SweepCountsAll
<1>2. ASSUME NoneTouch(R) PROVE SweepPeak(R, w) =< MaxLoad(R, w)
  <2>1. CASE SweepPeak(R, w) = 0 BY <2>1, LoadBounds
  <2>2. CASE \E f \in Events(R, w) : SweepPeak(R, w) = Running(Events(R, w), f)
    <3>1. PICK f \in Events(R, w) : SweepPeak(R, w) = Running(Events(R, w), f) BY <2>2
    <3>2. PICK t \in w.start .. (w.end - 1) : Running(Events(R, w), f) =< LoadAt(R, t)
      BY <1>2, SweepCountsNoMore
    <3>3. LoadAt(R, t) =< MaxLoad(R, w) BY LoadBounds
    <3>4. /\ LoadAt(R, t) \in Nat /\ MaxLoad(R, w) \in Nat /\ SweepPeak(R, w) \in Nat
      BY LoadInteger, LoadBounds, PeakBounds
    <3>5. QED BY <3>1, <3>2, <3>3, <3>4
  <2>3. QED BY <2>1, <2>2, PeakBounds
<1>3. MaxLoad(R, w) \in Nat /\ SweepPeak(R, w) \in Nat BY LoadBounds, PeakBounds
<1>4. QED BY <1>1, <1>2, <1>3

-----------------------------------------------------------------------------
(* Adding a reservation to those the sweep has counted                     *)

(* Rows in use at an instant that are all among others take no more.       *)
LEMMA LoadSubset ==
  ASSUME NEW R, Reservations(R), NEW Q, Reservations(Q), NEW t,
         \A r \in R : r.slot.start <= t /\ t < r.slot.end => r \in Q
  PROVE  LoadAt(R, t) =< LoadAt(Q, t)
<1> DEFINE U == {r \in R : r.slot.start <= t /\ t < r.slot.end}
<1>1. U \in SUBSET R /\ U \in SUBSET Q /\ Q \in SUBSET Q OBVIOUS
<1>2. IsFiniteSet(Q) /\ \A r \in Q : r.quantity \in Nat BY DEF Reservations
<1>3. LoadAt(R, t) = SumFunctionOnSet(Taken(U, t), U)
  <2>1. \A r \in R : r.slot.start <= t /\ t < r.slot.end => r \in U OBVIOUS
  <2> HIDE DEF U
  <2>2. QED BY <1>1, <2>1, LoadNet
<1>4. LoadAt(Q, t) = SumFunctionOnSet(Taken(Q, t), Q) BY LoadNet
<1> DEFINE f == [r \in Q |-> IF r \in U THEN r.quantity ELSE 0]
<1>5. ASSUME NEW r \in Q
      PROVE  /\ f[r] \in Int /\ Taken(Q, t)[r] \in Int /\ f[r] =< Taken(Q, t)[r]
  BY <1>2 DEF Taken
<1>6. SumFunctionOnSet(f, Q) =< SumFunctionOnSet(Taken(Q, t), Q)
  <2> HIDE DEF f
  <2>1. QED BY <1>2, <1>5, SumMonotone
<1>7. SumFunctionOnSet(f, Q) = SumFunctionOnSet(f, U)
  <2>1. \A r \in Q \ U : f[r] = 0 OBVIOUS
  <2> HIDE DEF f, U
  <2>2. QED BY <1>1, <1>2, <1>5, <2>1, SumSupport
<1>8. SumFunctionOnSet(f, U) = SumFunctionOnSet(Taken(U, t), U)
  <2>1. IsFiniteSet(U) BY <1>1, <1>2, FS_Subset
  <2>2. \A r \in U : f[r] \in Int /\ f[r] = Taken(U, t)[r] BY <1>1, <1>2 DEF Taken
  <2> HIDE DEF f, U
  <2>3. QED BY <2>1, <2>2, SumSame
<1>9. QED BY <1>3, <1>4, <1>6, <1>7, <1>8

LEMMA LoadAdded ==
  ASSUME NEW Q, NEW a, a \notin Q, Reservations(Q \cup {a}), NEW t
  PROVE  LoadAt(Q \cup {a}, t) =< a.quantity + LoadAt(Q, t)
<1> DEFINE P == Q \cup {a}
           f == Taken(P, t)
<1>1. Reservations(Q)
  <2>1. Q \in SUBSET P OBVIOUS
  <2>2. QED BY <2>1, CountedReservations
<1>2. IsFiniteSet(Q) /\ a.quantity \in Nat BY <1>1 DEF Reservations
<1>3. \A r \in P : f[r] \in Int BY DEF Taken, Reservations
<1>4. LoadAt(P, t) = SumFunctionOnSet(f, P)
  <2>1. P \in SUBSET P OBVIOUS
  <2>2. QED BY <2>1, LoadNet
<1>5. SumFunctionOnSet(f, P) = f[a] + SumFunctionOnSet(f, Q)
  <2> HIDE DEF f
  <2>1. QED BY <1>2, <1>3, SumAdd
<1>6. SumFunctionOnSet(f, Q) = SumFunctionOnSet(Taken(Q, t), Q)
  <2>1. \A r \in Q : f[r] \in Int /\ f[r] = Taken(Q, t)[r] BY <1>3 DEF Taken
  <2> HIDE DEF f
  <2>2. QED BY <1>2, <2>1, SumSame
<1>7. LoadAt(Q, t) = SumFunctionOnSet(Taken(Q, t), Q) /\ LoadAt(Q, t) \in Nat
  <2>1. Q \in SUBSET Q OBVIOUS
  <2>2. QED BY <1>1, <2>1, LoadNet
<1>8. f[a] \in Int /\ f[a] =< a.quantity BY <1>2 DEF Taken
<1>9. QED BY <1>2, <1>4, <1>5, <1>6, <1>7, <1>8

(* A reservation that fits next to what the sweep counted over its slot    *)
(* fits next to whatever is in use, if the sweep counted all of that.      *)
LEMMA AdmittedFits ==
  ASSUME NEW R, Reservations(R), NEW Q, NEW a, a \notin Q, Reservations(Q \cup {a}),
         NEW t \in a.slot.start .. (a.slot.end - 1),
         \A r \in R : r.slot.start <= t /\ t < r.slot.end => r \in Q \cup {a}
  PROVE  LoadAt(R, t) =< SweepPeak(Q, a.slot) + a.quantity
<1>1. Reservations(Q)
  <2>1. Q \in SUBSET (Q \cup {a}) OBVIOUS
  <2>2. QED BY <2>1, CountedReservations
<1>2. LoadAt(R, t) =< LoadAt(Q \cup {a}, t) BY LoadSubset
<1>3. LoadAt(Q \cup {a}, t) =< a.quantity + LoadAt(Q, t) BY LoadAdded
<1>4. a.slot.start \in Int /\ a.slot.end \in Int /\ a.quantity \in Nat BY DEF Reservations
<1>5. LoadAt(Q, t) =< SweepPeak(Q, a.slot) BY <1>1, <1>4, SweepCountsAll
<1>6. /\ LoadAt(R, t) \in Nat /\ LoadAt(Q \cup {a}, t) \in Nat /\ LoadAt(Q, t) \in Nat
      /\ SweepPeak(Q, a.slot) \in Nat
  BY <1>1, LoadInteger, PeakBounds
<1>7. QED BY <1>2, <1>3, <1>4, <1>5, <1>6
=============================================================================
