---------------------------- MODULE DataProofs ----------------------------
(***************************************************************************)
(* Facts about numbers, finite sets, sums, folds, recursions, the rows of  *)
(* a queue and the paths of a graph that the other proofs share.           *)
(* Induction is stated here in a first-order form, about a set of numbers  *)
(* or of sets instead of a predicate; it follows from the well-foundedness *)
(* of strict inclusion between finite sets.                                *)
(***************************************************************************)
EXTENDS Rows, WaitGraph, FiniteSetsExt, TLAPS, SequenceTheorems, WellFoundedInduction, FiniteSetTheorems

(* A set of naturals that holds 0 and the successor of each of its members *)
(* holds every natural.  Used for the positions of a wait queue.           *)
LEMMA NatSetInduction ==
  ASSUME NEW S \in SUBSET Nat, 0 \in S, \A n \in S : n + 1 \in S
  PROVE  S = Nat
<1>1. SUFFICES ASSUME Nat \ S # {} PROVE FALSE
  OBVIOUS
<1> DEFINE R == StrictSubsetOrdering(Nat)
           T == {0..n : n \in Nat \ S}
<1>2. IsWellFoundedOn(R, FiniteSubsetsOf(Nat))
  BY FS_StrictSubsetOrderingWellFounded
<1>3. T \subseteq FiniteSubsetsOf(Nat) /\ T # {}
  <2>1. ASSUME NEW n \in Nat PROVE 0..n \in FiniteSubsetsOf(Nat)
    <3>1. IsFiniteSet(0..n)
      BY FS_Interval
    <3>2. 0..n \in SUBSET Nat
      OBVIOUS
    <3> QED BY <3>1, <3>2 DEF FiniteSubsetsOf
  <2> QED BY <1>1, <2>1
<1>4. PICK x \in T : \A y \in T : ~ (<<y, x>> \in R)
  <2> HIDE DEF R, T
  <2> QED BY <1>2, <1>3, WFMin
<1>5. PICK n \in Nat \ S : x = 0..n
  BY <1>4
<1>6. n # 0 /\ n - 1 \in Nat \ S
  BY <1>5
<1>7. 0..(n-1) \in T /\ <<0..(n-1), x>> \in R
  <2>1. 0..(n-1) \subseteq 0..n /\ n \in 0..n /\ n \notin 0..(n-1)
    BY <1>6
  <2> QED BY <2>1, <1>5, <1>6 DEF StrictSubsetOrdering
<1> QED BY <1>4, <1>7

(* A family of sets that holds the empty set, and with a set the set with    *)
(* one more member of S, holds every finite subset of S.                     *)
LEMMA FiniteSetInduction ==
  ASSUME NEW S, NEW G, {} \in G,
         \A X \in G : \A e \in S : X \subseteq S => X \cup {e} \in G,
         NEW Y \in SUBSET S, IsFiniteSet(Y)
  PROVE  Y \in G
<1>1. SUFFICES ASSUME Y \notin G PROVE FALSE
  OBVIOUS
<1> DEFINE R == StrictSubsetOrdering(S)
           T == {X \in FiniteSubsetsOf(S) : X \notin G}
<1>2. IsWellFoundedOn(R, FiniteSubsetsOf(S))
  BY FS_StrictSubsetOrderingWellFounded
<1>3. T \subseteq FiniteSubsetsOf(S) /\ T # {}
  BY <1>1 DEF FiniteSubsetsOf
<1>4. PICK X \in T : \A Z \in T : ~ (<<Z, X>> \in R)
  <2> HIDE DEF R, T
  <2> QED BY <1>2, <1>3, WFMin
<1>5. X \subseteq S /\ IsFiniteSet(X) /\ X \notin G /\ X # {}
  BY DEF FiniteSubsetsOf
<1>6. PICK e \in X : TRUE
  BY <1>5
<1>7. X \ {e} \subseteq S /\ IsFiniteSet(X \ {e})
  BY <1>5, FS_Subset
<1>8. X \ {e} \in G
  <2>1. <<X \ {e}, X>> \in R
    BY <1>5, <1>6, <1>7 DEF StrictSubsetOrdering
  <2> QED BY <1>4, <1>7, <2>1 DEF FiniteSubsetsOf
<1>9. (X \ {e}) \cup {e} = X /\ e \in S
  BY <1>5, <1>6
<1> QED BY <1>5, <1>7, <1>8, <1>9

(* Positions have a first one: a set of naturals that is not empty has a   *)
(* least member.                                                           *)
LEMMA LeastMember ==
  ASSUME NEW S \in SUBSET Nat, S # {}
  PROVE  \E i \in S : \A j \in S : i <= j
<1> SUFFICES ASSUME \A i \in S : \E j \in S : ~ (i <= j)
             PROVE  FALSE
  OBVIOUS
<1> DEFINE Below == {n \in Nat : \A m \in S : n < m}
<1>1. 0 \in Below
  OBVIOUS
<1>2. ASSUME NEW n \in Below PROVE n + 1 \in Below
  <2> SUFFICES ASSUME NEW m \in S PROVE n + 1 < m
    OBVIOUS
  <2>1. n < m
    OBVIOUS
  <2>2. PICK j \in S : ~ (m <= j)
    OBVIOUS
  <2>3. n < j
    OBVIOUS
  <2> QED BY <2>1, <2>2, <2>3
<1>3. Below = Nat
  <2>1. Below \in SUBSET Nat
    OBVIOUS
  <2> HIDE DEF Below
  <2> QED BY <1>1, <1>2, <2>1, NatSetInduction
<1>4. PICK m \in S : TRUE
  OBVIOUS
<1> QED BY <1>3, <1>4

(* A finite set of naturals that is not empty has a greatest member, which   *)
(* Max chooses.  Used for the widest window, the longest cooldown and other  *)
(* bounds that a model takes from a set of cases.                            *)
LEMMA MaxOfFinite ==
  ASSUME NEW S \in SUBSET Nat, S # {}, IsFiniteSet(S)
  PROVE  Max(S) \in S /\ \A y \in S : Max(S) >= y
<1> DEFINE G == {X \in SUBSET Nat : X = {} \/ \E x \in X : \A y \in X : x >= y}
<1>1. {} \in G
  OBVIOUS
<1>2. ASSUME NEW X \in G, NEW e \in Nat PROVE X \cup {e} \in G
  <2>1. CASE X = {}
    BY <2>1
  <2>2. ASSUME NEW x \in X, \A y \in X : x >= y PROVE X \cup {e} \in G
    <3>1. CASE x >= e
      <4>1. \A y \in X \cup {e} : x >= y
        BY <2>2, <3>1
      <4> QED BY <4>1
    <3>2. CASE ~ (x >= e)
      <4>1. \A y \in X \cup {e} : e >= y
        BY <2>2, <3>2
      <4> QED BY <4>1
    <3> QED BY <3>1, <3>2
  <2> QED BY <2>1, <2>2
<1>3. S \in G
  <2> HIDE DEF G
  <2> QED BY <1>1, <1>2, FiniteSetInduction
<1> QED BY <1>3 DEF Max

(* The values of a function on a finite set are finitely many. *)
LEMMA ImageIsFinite ==
  ASSUME NEW S, IsFiniteSet(S), NEW f, f = [x \in S |-> f[x]]
  PROVE  IsFiniteSet({f[x] : x \in S})
<1> DEFINE T == {f[x] : x \in S}
<1>1. f \in [S -> T] /\ \A t \in T : \E x \in S : f[x] = t
  OBVIOUS
<1>2. f \in Surjection(S, T)
  BY <1>1 DEF Surjection
<1> HIDE DEF T
<1>3. IsFiniteSet(T)
  BY <1>2, FS_Surjection
<1> QED BY <1>3 DEF T

(* The greater and the smaller of two. *)
LEMMA MaxOfTwo ==
  ASSUME NEW x \in Int, NEW y \in Int
  PROVE  /\ Max({x, y}) = IF x >= y THEN x ELSE y
         /\ Min({x, y}) = IF x <= y THEN x ELSE y
BY DEF Max, Min

(* What holds of a finite set when it holds of all smaller ones holds of     *)
(* every finite set.                                                         *)
LEMMA StrongSetInduction ==
  ASSUME NEW S, IsFiniteSet(S), NEW G,
         \A X \in SUBSET S : (\A Y \in SUBSET X : Y # X => Y \in G) => X \in G
  PROVE  S \in G
<1>1. SUFFICES ASSUME S \notin G PROVE FALSE
  OBVIOUS
<1> DEFINE R == StrictSubsetOrdering(S)
           T == {X \in FiniteSubsetsOf(S) : X \notin G}
<1>2. IsWellFoundedOn(R, FiniteSubsetsOf(S))
  BY FS_StrictSubsetOrderingWellFounded
<1>3. T \subseteq FiniteSubsetsOf(S) /\ T # {}
  BY <1>1 DEF FiniteSubsetsOf
<1>4. PICK X \in T : \A Z \in T : ~ (<<Z, X>> \in R)
  <2> HIDE DEF R, T
  <2> QED BY <1>2, <1>3, WFMin
<1>5. X \subseteq S /\ IsFiniteSet(X) /\ X \notin G
  BY DEF FiniteSubsetsOf
<1>6. ASSUME NEW Y \in SUBSET X, Y # X PROVE Y \in G
  <2>1. IsFiniteSet(Y) /\ Y \subseteq S
    BY <1>5, FS_Subset
  <2>2. <<Y, X>> \in R
    BY <1>5, <1>6, <2>1 DEF StrictSubsetOrdering
  <2> QED BY <1>4, <2>1, <2>2 DEF FiniteSubsetsOf
<1> QED BY <1>5, <1>6

-----------------------------------------------------------------------------
(* The sums of the library (SumFunctionOnSet): the recursion that defines    *)
(* them has one solution on the subsets of a finite set.                     *)
IsSum(g, f, S) ==
  g = [s \in SUBSET S |-> IF s = {} THEN 0
                          ELSE f[CHOOSE x \in s : TRUE] + g[s \ {CHOOSE x \in s : TRUE}]]

(* The definition, folds expanded. *)
LEMMA SumIsChosen ==
  ASSUME NEW f, NEW S
  PROVE  SumFunctionOnSet(f, S) = (CHOOSE g : IsSum(g, f, S))[S]
BY DEF SumFunctionOnSet, FoldFunctionOnSet, MapThenFoldSet, IsSum

(* Two solutions agree where both are defined. *)
LEMMA SumsAgree ==
  ASSUME NEW f, NEW A, NEW B, NEW g, NEW h, IsSum(g, f, A), IsSum(h, f, B),
         NEW s \in SUBSET (A \cap B), IsFiniteSet(s)
  PROVE  g[s] = h[s]
<1> DEFINE G == {t \in SUBSET s : g[t] = h[t]}
<1>1. ASSUME NEW X \in SUBSET s, \A Y \in SUBSET X : Y # X => Y \in G
      PROVE  X \in G
  <2>0. X \in SUBSET A /\ X \in SUBSET B
    OBVIOUS
  <2>1. CASE X = {}
    BY <2>0, <2>1 DEF IsSum
  <2>2. CASE X # {}
    <3> DEFINE x == CHOOSE y \in X : TRUE
    <3>1. x \in X
      BY <2>2
    <3>2. g[X] = f[x] + g[X \ {x}] /\ h[X] = f[x] + h[X \ {x}]
      BY <2>0, <2>2 DEF IsSum
    <3>3. X \ {x} \in SUBSET X /\ X \ {x} # X
      BY <3>1
    <3> HIDE DEF x
    <3> QED BY <1>1, <3>2, <3>3
  <2> QED BY <2>1, <2>2
<1>2. s \in G
  <2> HIDE DEF G
  <2> QED BY <1>1, StrongSetInduction
<1> QED BY <1>2

TheSum(f, S) == CHOOSE g : IsSum(g, f, S)

(* There is a solution: each set is summed up from the solution for a        *)
(* smaller one.                                                              *)
LEMMA SumExists ==
  ASSUME NEW f, NEW S, IsFiniteSet(S)
  PROVE  IsSum(TheSum(f, S), f, S)
<1> DEFINE G == {X \in SUBSET S : IsSum(TheSum(f, X), f, X)}
<1>1. ASSUME NEW X \in SUBSET S, \A Y \in SUBSET X : Y # X => Y \in G
      PROVE  X \in G
  <2> DEFINE x(t) == CHOOSE e \in t : TRUE
             g == [t \in SUBSET X |-> IF t = {} THEN 0
                                      ELSE f[x(t)] + TheSum(f, t \ {x(t)})[t \ {x(t)}]]
  <2>0. \A t \in SUBSET X : t # {} => x(t) \in t
    OBVIOUS
  <2>1. ASSUME NEW t \in SUBSET X, t # X
        PROVE  g[t] = TheSum(f, t)[t]
    <3>1. IsSum(TheSum(f, t), f, t)
      BY <1>1, <2>1
    <3>2. CASE t = {}
      BY <3>1, <3>2 DEF IsSum
    <3>3. CASE t # {}
      <4> DEFINE u == t \ {x(t)}
      <4>1. x(t) \in t
        BY <3>3
      <4>2. u \in SUBSET X /\ u # X /\ u \in SUBSET t
        BY <2>1, <4>1
      <4>3. IsFiniteSet(u)
        <5>1. IsFiniteSet(X)
          BY FS_Subset
        <5> HIDE DEF u
        <5> QED BY <4>2, <5>1, FS_Subset
      <4>4. g[t] = f[x(t)] + TheSum(f, u)[u]
        BY <3>3
      <4>5. TheSum(f, t)[t] = f[x(t)] + TheSum(f, t)[u]
        BY <3>1, <3>3 DEF IsSum
      <4> HIDE DEF u, g
      <4>6. IsSum(TheSum(f, u), f, u)
        BY <1>1, <4>2
      <4>7. u \in SUBSET (t \cap u)
        BY <4>2
      <4>8. TheSum(f, t)[u] = TheSum(f, u)[u]
        BY <3>1, <4>3, <4>6, <4>7, SumsAgree
      <4> QED BY <4>4, <4>5, <4>8
    <3> QED BY <3>2, <3>3
  <2>2. IsSum(g, f, X)
    <3>1. ASSUME NEW t \in SUBSET X, t # {}
          PROVE  g[t] = f[x(t)] + g[t \ {x(t)}]
      <4>1. t \ {x(t)} \in SUBSET X /\ t \ {x(t)} # X
        BY <2>0, <3>1
      <4>2. g[t \ {x(t)}] = TheSum(f, t \ {x(t)})[t \ {x(t)}]
        <5> HIDE DEF g
        <5> QED BY <2>1, <4>1
      <4>3. g[t] = f[x(t)] + TheSum(f, t \ {x(t)})[t \ {x(t)}]
        BY <3>1
      <4> HIDE DEF g, x
      <4> QED BY <4>2, <4>3
    <3>2. g[{}] = 0
      OBVIOUS
    <3>3. g = [t \in SUBSET X |-> g[t]]
      OBVIOUS
    <3> HIDE DEF g
    <3>4. \A t \in SUBSET X : g[t] = IF t = {} THEN 0 ELSE f[x(t)] + g[t \ {x(t)}]
      <4> HIDE DEF x
      <4> QED BY <3>1, <3>2
    <3> QED BY <3>3, <3>4 DEF IsSum
  <2>3. IsSum(TheSum(f, X), f, X)
    <3> HIDE DEF g
    <3> QED BY <2>2 DEF TheSum
  <2> QED BY <2>3
<1>2. S \in G
  <2> HIDE DEF G
  <2> QED BY <1>1, StrongSetInduction
<1> QED BY <1>2

(* The sum over nothing, and the sum over a set by the element CHOOSE picks. *)
LEMMA SumUnfolds ==
  ASSUME NEW f, NEW S, IsFiniteSet(S)
  PROVE  /\ SumFunctionOnSet(f, {}) = 0
         /\ S # {} => LET x == CHOOSE x \in S : TRUE
                      IN  SumFunctionOnSet(f, S) = f[x] + SumFunctionOnSet(f, S \ {x})
<1>1. ASSUME NEW X PROVE SumFunctionOnSet(f, X) = TheSum(f, X)[X]
  BY SumIsChosen DEF TheSum
<1>2. SumFunctionOnSet(f, {}) = 0
  <2> DEFINE none == {}
  <2>1. IsFiniteSet(none) /\ none = {}
    BY FS_EmptySet
  <2> HIDE DEF none
  <2>2. IsSum(TheSum(f, none), f, none)
    BY <2>1, SumExists
  <2>3. TheSum(f, none)[none] = 0
    BY <2>1, <2>2 DEF IsSum
  <2> QED BY <1>1, <2>1, <2>3
<1>3. ASSUME S # {}, NEW x, x = CHOOSE y \in S : TRUE
      PROVE  SumFunctionOnSet(f, S) = f[x] + SumFunctionOnSet(f, S \ {x})
  <2> DEFINE t == S \ {x}
  <2>1. t \in SUBSET S /\ IsFiniteSet(t)
    BY FS_Subset
  <2>2. TheSum(f, S)[S] = f[x] + TheSum(f, S)[t]
    <3>1. S \in SUBSET S /\ IsSum(TheSum(f, S), f, S)
      BY SumExists
    <3> QED BY <1>3, <3>1 DEF IsSum
  <2> HIDE DEF t
  <2>3. TheSum(f, S)[t] = TheSum(f, t)[t]
    BY <2>1, SumExists, SumsAgree
  <2> QED BY <1>1, <2>2, <2>3 DEF t
<1> QED BY <1>2, <1>3

(* A sum of numbers is a number. *)
LEMMA SumIsNumber ==
  ASSUME NEW f, NEW S, IsFiniteSet(S)
  PROVE  /\ (\A x \in S : f[x] \in Int) => SumFunctionOnSet(f, S) \in Int
         /\ (\A x \in S : f[x] \in Nat) => SumFunctionOnSet(f, S) \in Nat
<1>1. ASSUME NEW N \in {Int, Nat}, \A x \in S : f[x] \in N
      PROVE  SumFunctionOnSet(f, S) \in N
  <2> DEFINE G == {X \in SUBSET S : SumFunctionOnSet(f, X) \in N}
  <2>1. ASSUME NEW X \in SUBSET S, \A Y \in SUBSET X : Y # X => Y \in G
        PROVE  X \in G
    <3>1. CASE X = {}
      <4>1. SumFunctionOnSet(f, {}) = 0
        BY SumUnfolds
      <4>2. 0 \in N
        OBVIOUS
      <4> QED BY <3>1, <4>1, <4>2
    <3>2. CASE X # {}
      <4> DEFINE x == CHOOSE y \in X : TRUE
      <4>1. x \in X /\ X \ {x} # X
        BY <3>2
      <4>2. IsFiniteSet(X)
        BY FS_Subset
      <4>3. SumFunctionOnSet(f, X) = f[x] + SumFunctionOnSet(f, X \ {x})
        BY <3>2, <4>2, SumUnfolds
      <4> HIDE DEF x
      <4>4. SumFunctionOnSet(f, X \ {x}) \in N /\ f[x] \in N
        BY <1>1, <2>1, <4>1
      <4> QED BY <4>3, <4>4
    <3> QED BY <3>1, <3>2
  <2>2. S \in G
    <3> HIDE DEF G
    <3> QED BY <2>1, StrongSetInduction
  <2> QED BY <2>2
<1> QED BY <1>1

(* Any element may be taken out first. *)
LEMMA SumWithout ==
  ASSUME NEW f, NEW S, IsFiniteSet(S), \A x \in S : f[x] \in Int, NEW e \in S
  PROVE  SumFunctionOnSet(f, S) = f[e] + SumFunctionOnSet(f, S \ {e})
<1> DEFINE Sum(X) == SumFunctionOnSet(f, X)
           G == {X \in SUBSET S : \A d \in X : Sum(X) = f[d] + Sum(X \ {d})}
<1>1. ASSUME NEW X \in SUBSET S PROVE Sum(X) \in Int /\ IsFiniteSet(X)
  BY FS_Subset, SumIsNumber
<1>2. ASSUME NEW X \in SUBSET S, \A Y \in SUBSET X : Y # X => Y \in G
      PROVE  X \in G
  <2> SUFFICES ASSUME NEW d \in X PROVE Sum(X) = f[d] + Sum(X \ {d})
    OBVIOUS
  <2> DEFINE x == CHOOSE y \in X : TRUE
  <2>1. x \in X
    OBVIOUS
  <2>2. Sum(X) = f[x] + Sum(X \ {x})
    BY <1>1, SumUnfolds
  <2> HIDE DEF x
  <2>3. CASE d = x
    <3> HIDE DEF Sum
    <3> QED BY <2>2, <2>3
  <2>4. CASE d # x
    <3>1. Sum(X \ {x}) = f[d] + Sum((X \ {x}) \ {d})
      BY <1>2, <2>1, <2>4
    <3>2. Sum(X \ {d}) = f[x] + Sum((X \ {d}) \ {x})
      BY <1>2, <2>1, <2>4
    <3>3. PICK Z \in SUBSET S : Z = (X \ {x}) \ {d} /\ Z = (X \ {d}) \ {x}
      OBVIOUS
    <3>4. f[x] \in Int /\ f[d] \in Int
      BY <2>1
    <3>5. Sum(Z) \in Int
      BY <1>1
    <3> HIDE DEF Sum
    <3>6. Sum(X) = f[x] + (f[d] + Sum(Z)) /\ Sum(X \ {d}) = f[x] + Sum(Z)
      BY <2>2, <3>1, <3>2, <3>3
    <3>7. f[x] + (f[d] + Sum(Z)) = f[d] + (f[x] + Sum(Z))
      BY <3>4, <3>5
    <3> QED BY <3>6, <3>7
  <2> QED BY <2>3, <2>4
<1>3. S \in G
  <2> HIDE DEF G
  <2> QED BY <1>2, StrongSetInduction
<1> QED BY <1>3

(* What is the same everywhere has the same sum. *)
LEMMA SumOfTheSame ==
  ASSUME NEW f, NEW g, NEW S, IsFiniteSet(S), \A x \in S : f[x] = g[x]
  PROVE  SumFunctionOnSet(f, S) = SumFunctionOnSet(g, S)
<1> DEFINE G == {X \in SUBSET S : SumFunctionOnSet(f, X) = SumFunctionOnSet(g, X)}
<1>1. ASSUME NEW X \in SUBSET S, \A Y \in SUBSET X : Y # X => Y \in G
      PROVE  X \in G
  <2>1. CASE X = {}
    BY <2>1, SumUnfolds
  <2>2. CASE X # {}
    <3> DEFINE x == CHOOSE y \in X : TRUE
    <3>1. x \in X /\ X \ {x} # X /\ IsFiniteSet(X)
      BY <2>2, FS_Subset
    <3>2. /\ SumFunctionOnSet(f, X) = f[x] + SumFunctionOnSet(f, X \ {x})
          /\ SumFunctionOnSet(g, X) = g[x] + SumFunctionOnSet(g, X \ {x})
      BY <2>2, <3>1, SumUnfolds
    <3> HIDE DEF x
    <3> QED BY <1>1, <3>1, <3>2
  <2> QED BY <2>1, <2>2
<1>2. S \in G
  <2> HIDE DEF G
  <2> QED BY <1>1, StrongSetInduction
<1> QED BY <1>2

(* Nothing adds up to nothing. *)
LEMMA SumOfNothing ==
  ASSUME NEW f, NEW S, IsFiniteSet(S), \A x \in S : f[x] = 0
  PROVE  SumFunctionOnSet(f, S) = 0
<1> DEFINE G == {X \in SUBSET S : SumFunctionOnSet(f, X) = 0}
<1>1. ASSUME NEW X \in SUBSET S, \A Y \in SUBSET X : Y # X => Y \in G
      PROVE  X \in G
  <2>1. CASE X = {}
    BY <2>1, SumUnfolds
  <2>2. CASE X # {}
    <3> DEFINE x == CHOOSE y \in X : TRUE
    <3>1. x \in X /\ X \ {x} # X /\ IsFiniteSet(X)
      BY <2>2, FS_Subset
    <3>2. SumFunctionOnSet(f, X) = f[x] + SumFunctionOnSet(f, X \ {x})
      BY <2>2, <3>1, SumUnfolds
    <3> HIDE DEF x
    <3> QED BY <1>1, <3>1, <3>2
  <2> QED BY <2>1, <2>2
<1>2. S \in G
  <2> HIDE DEF G
  <2> QED BY <1>1, StrongSetInduction
<1> QED BY <1>2

(* When one element changes, the sum changes by as much. *)
LEMMA SumChanges ==
  ASSUME NEW f, NEW g, NEW S, IsFiniteSet(S), NEW e \in S,
         \A x \in S : f[x] \in Int /\ g[x] \in Int,
         \A x \in S \ {e} : f[x] = g[x]
  PROVE  SumFunctionOnSet(g, S) = SumFunctionOnSet(f, S) + (g[e] - f[e])
<1> DEFINE T == S \ {e}
<1>1. IsFiniteSet(T) /\ T \subseteq S
  BY FS_Subset
<1>2. /\ SumFunctionOnSet(f, S) = f[e] + SumFunctionOnSet(f, T)
      /\ SumFunctionOnSet(g, S) = g[e] + SumFunctionOnSet(g, T)
  BY SumWithout
<1>3. \A x \in T : f[x] = g[x] /\ f[x] \in Int
  OBVIOUS
<1> HIDE DEF T
<1>4. SumFunctionOnSet(f, T) = SumFunctionOnSet(g, T) /\ SumFunctionOnSet(f, T) \in Int
  BY <1>1, <1>3, SumOfTheSame, SumIsNumber
<1>5. f[e] \in Int /\ g[e] \in Int
  OBVIOUS
<1> QED BY <1>2, <1>4, <1>5

(* A part of a sum of naturals is not more than the whole. *)
LEMMA SumOfPart ==
  ASSUME NEW f, NEW S, IsFiniteSet(S), \A x \in S : f[x] \in Nat, NEW P \in SUBSET S
  PROVE  SumFunctionOnSet(f, P) <= SumFunctionOnSet(f, S)
<1> DEFINE G == {X \in SUBSET S : P \subseteq X => SumFunctionOnSet(f, P) <= SumFunctionOnSet(f, X)}
<1>1. ASSUME NEW X \in SUBSET S PROVE SumFunctionOnSet(f, X) \in Nat /\ IsFiniteSet(X)
  BY FS_Subset, SumIsNumber
<1>2. ASSUME NEW X \in SUBSET S, \A Y \in SUBSET X : Y # X => Y \in G
      PROVE  X \in G
  <2> SUFFICES ASSUME P \subseteq X PROVE SumFunctionOnSet(f, P) <= SumFunctionOnSet(f, X)
    OBVIOUS
  <2>1. CASE P = X
    BY <1>1, <2>1
  <2>2. CASE P # X
    <3>1. PICK e \in X : e \notin P
      BY <2>2
    <3>2. X \ {e} \in G /\ P \subseteq X \ {e}
      BY <1>2, <3>1
    <3>3. SumFunctionOnSet(f, P) <= SumFunctionOnSet(f, X \ {e})
      BY <3>2
    <3>4. SumFunctionOnSet(f, X) = f[e] + SumFunctionOnSet(f, X \ {e})
      BY <1>1, SumWithout
    <3>5. /\ SumFunctionOnSet(f, X \ {e}) \in Nat /\ SumFunctionOnSet(f, P) \in Nat
          /\ f[e] \in Nat
      BY <1>1
    <3> QED BY <3>3, <3>4, <3>5
  <2> QED BY <2>1, <2>2
<1>3. S \in G
  <2> HIDE DEF G
  <2> QED BY <1>2, StrongSetInduction
<1> QED BY <1>3

(* No element is more than the whole. *)
LEMMA SumOfOne ==
  ASSUME NEW f, NEW S, IsFiniteSet(S), \A x \in S : f[x] \in Nat, NEW e \in S
  PROVE  f[e] <= SumFunctionOnSet(f, S)
<1>1. SumFunctionOnSet(f, S) = f[e] + SumFunctionOnSet(f, S \ {e})
  BY SumWithout
<1>2. SumFunctionOnSet(f, S \ {e}) \in Nat
  <2> DEFINE T == S \ {e}
  <2>1. IsFiniteSet(T) /\ \A x \in T : f[x] \in Nat
    BY FS_Subset
  <2> HIDE DEF T
  <2>2. SumFunctionOnSet(f, T) \in Nat
    BY <2>1, SumIsNumber
  <2> QED BY <2>2 DEF T
<1> QED BY <1>1, <1>2

(* The sum of a sequence of naturals: of none, of one more at the end, and   *)
(* of what others follow.                                                    *)
LEMMA SumOfSequence ==
  ASSUME NEW s \in Seq(Nat)
  PROVE  /\ SumFunction(s) \in Nat
         /\ s = << >> => SumFunction(s) = 0
         /\ \A n \in Nat : SumFunction(Append(s, n)) = SumFunction(s) + n
<1>1. DOMAIN s = 1 .. Len(s) /\ Len(s) \in Nat /\ \A i \in DOMAIN s : s[i] \in Nat
  BY LenProperties, ElementOfSeq
<1>2. IsFiniteSet(DOMAIN s)
  BY <1>1, FS_Interval
<1>3. SumFunction(s) \in Nat
  BY <1>1, <1>2, SumIsNumber DEF SumFunction
<1>4. ASSUME s = << >> PROVE SumFunction(s) = 0
  <2>1. DOMAIN s = {}
    BY <1>4
  <2>2. SumFunctionOnSet(s, {}) = 0
    BY <1>2, SumUnfolds
  <2> QED BY <2>1, <2>2 DEF SumFunction
<1>5. ASSUME NEW n \in Nat PROVE SumFunction(Append(s, n)) = SumFunction(s) + n
  <2> DEFINE r == Append(s, n)
             D == 1 .. Len(s) + 1
  <2>1. /\ DOMAIN r = D /\ r[Len(s) + 1] = n /\ \A i \in DOMAIN s : r[i] = s[i]
        /\ D \ {Len(s) + 1} = DOMAIN s /\ Len(s) + 1 \in D
    BY <1>1
  <2>2. \A i \in D : r[i] \in Int
    BY <1>1, <2>1
  <2>3. IsFiniteSet(D)
    BY <1>1, FS_Interval
  <2> HIDE DEF r, D
  <2>4. SumFunctionOnSet(r, D) = r[Len(s) + 1] + SumFunctionOnSet(r, D \ {Len(s) + 1})
    BY <2>1, <2>2, <2>3, SumWithout
  <2>5. SumFunctionOnSet(r, DOMAIN s) = SumFunctionOnSet(s, DOMAIN s)
    BY <1>2, <2>1, SumOfTheSame
  <2>6. SumFunction(r) = n + SumFunction(s)
    BY <2>1, <2>4, <2>5 DEF SumFunction
  <2> QED BY <1>3, <2>6 DEF r
<1> QED BY <1>3, <1>4, <1>5

(* A sequence is its front and its last, and is summed up likewise.          *)
LEMMA SumOfFront ==
  ASSUME NEW s \in Seq(Nat), s # << >>
  PROVE  /\ SubSeq(s, 1, Len(s) - 1) \in Seq(Nat) /\ s[Len(s)] \in Nat
         /\ SumFunction(s) = SumFunction(SubSeq(s, 1, Len(s) - 1)) + s[Len(s)]
<1> DEFINE front == SubSeq(s, 1, Len(s) - 1)
           n == s[Len(s)]
<1>1. Len(s) \in Nat \ {0} /\ n \in Nat
  BY LenProperties, EmptySeq, ElementOfSeq
<1>2. front \in Seq(Nat) /\ Len(front) = Len(s) - 1 /\ \A i \in 1 .. Len(front) : front[i] = s[i]
  <2>1. \A i \in 1 .. Len(s) - 1 : s[i] \in Nat
    BY <1>1, ElementOfSeq
  <2>2. /\ front \in Seq(Nat)
        /\ Len(front) = IF 1 <= Len(s) - 1 THEN Len(s) - 1 - 1 + 1 ELSE 0
        /\ \A i \in 1 .. Len(s) - 1 - 1 + 1 : front[i] = s[1 + i - 1]
    BY <1>1, <2>1, SubSeqProperties
  <2> HIDE DEF front, n
  <2>3. Len(front) = Len(s) - 1
    <3> DEFINE k == Len(s)
               m == Len(front)
    <3>1. k \in Nat /\ k # 0 /\ m = IF 1 <= k - 1 THEN k - 1 - 1 + 1 ELSE 0
      BY <1>1, <2>2
    <3> HIDE DEF k, m
    <3>2. m = k - 1
      BY <3>1
    <3> QED BY <3>2 DEF k, m
  <2>4. \A i \in 1 .. Len(front) : i \in 1 .. Len(s) - 1 - 1 + 1 /\ s[1 + i - 1] = s[i]
    BY <1>1, <2>3
  <2> QED BY <2>2, <2>3, <2>4
<1>3. Append(front, n) = s
  BY <1>1, <1>2, LenProperties, AppendProperties
<1> HIDE DEF front, n
<1>4. SumFunction(Append(front, n)) = SumFunction(front) + n
  BY <1>1, <1>2, SumOfSequence
<1> QED BY <1>1, <1>2, <1>3, <1>4 DEF front, n

(* What follows is not negative; the first of what follows can move.         *)
LEMMA SumOfFollowing ==
  ASSUME NEW s \in Seq(Nat), NEW r \in Seq(Nat)
  PROVE  /\ SumFunction(s) <= SumFunction(s \o r)
         /\ r # << >> => /\ SumFunction(s) + Head(r) <= SumFunction(s \o r)
                        /\ Append(s, Head(r)) \o Tail(r) = s \o r
                        /\ Head(r) \in Nat /\ Tail(r) \in Seq(Nat)
<1>2. ASSUME NEW p \in Seq(Nat), NEW q \in Seq(Nat) PROVE SumFunction(p) <= SumFunction(p \o q)
  <2> DEFINE w == p \o q
  <2>1. /\ w \in Seq(Nat) /\ DOMAIN p \subseteq DOMAIN w /\ \A i \in DOMAIN p : w[i] = p[i]
        /\ DOMAIN w = 1 .. Len(w) /\ Len(w) \in Nat
    BY ConcatProperties, LenProperties
  <2>2. \A i \in DOMAIN w : w[i] \in Nat
    BY <2>1, ElementOfSeq
  <2>3. IsFiniteSet(DOMAIN w) /\ IsFiniteSet(DOMAIN p)
    BY <2>1, FS_Interval, FS_Subset
  <2> HIDE DEF w
  <2>4. SumFunctionOnSet(w, DOMAIN p) <= SumFunctionOnSet(w, DOMAIN w)
    BY <2>1, <2>2, <2>3, SumOfPart
  <2>5. SumFunctionOnSet(w, DOMAIN p) = SumFunctionOnSet(p, DOMAIN p)
    BY <2>1, <2>3, SumOfTheSame
  <2> QED BY <2>4, <2>5 DEF SumFunction, w
<1>3. ASSUME r # << >>
      PROVE  /\ SumFunction(s) + Head(r) <= SumFunction(s \o r)
             /\ Append(s, Head(r)) \o Tail(r) = s \o r
             /\ Head(r) \in Nat /\ Tail(r) \in Seq(Nat)
  <2>1. Head(r) \in Nat /\ Tail(r) \in Seq(Nat)
    BY <1>3, HeadTailProperties
  <2>2. Append(s, Head(r)) \o Tail(r) = s \o r
    BY <1>3
  <2>3. Append(s, Head(r)) \in Seq(Nat)
    BY <2>1
  <2>4. SumFunction(Append(s, Head(r))) <= SumFunction(Append(s, Head(r)) \o Tail(r))
    BY <1>2, <2>1, <2>3
  <2>5. SumFunction(Append(s, Head(r))) = SumFunction(s) + Head(r)
    BY <2>1, SumOfSequence
  <2> QED BY <2>1, <2>2, <2>4, <2>5
<1> QED BY <1>2, <1>3

(* A sum over a part is the sum over the whole of what counts there. *)
LEMMA SumOfChosen ==
  ASSUME NEW f, NEW g, NEW S, IsFiniteSet(S), NEW P \in SUBSET S,
         \A x \in S : f[x] \in Int /\ g[x] = IF x \in P THEN f[x] ELSE 0
  PROVE  SumFunctionOnSet(f, P) = SumFunctionOnSet(g, S)
<1> DEFINE G == {X \in SUBSET S : SumFunctionOnSet(f, X \cap P) = SumFunctionOnSet(g, X)}
<1>1. {} \in G
  <2>1. {} \cap P = {}
    OBVIOUS
  <2>2. SumFunctionOnSet(f, {}) = 0 /\ SumFunctionOnSet(g, {}) = 0
    BY SumUnfolds
  <2> QED BY <2>1, <2>2
<1>2. ASSUME NEW X \in G, NEW e \in S, X \subseteq S PROVE X \cup {e} \in G
  <2> DEFINE Y == X \cup {e}
             YP == Y \cap P
             XP == X \cap P
  <2>1. CASE e \in X
    <3>1. Y = X
      BY <2>1
    <3> QED BY <3>1
  <2>2. CASE e \notin X
    <3>1. Y \in SUBSET S /\ e \in Y /\ Y \ {e} = X /\ IsFiniteSet(Y) /\ IsFiniteSet(YP)
      <4>1. Y \in SUBSET S /\ YP \in SUBSET S
        OBVIOUS
      <4>2. IsFiniteSet(Y) /\ IsFiniteSet(YP)
        BY <4>1, FS_Subset
      <4> QED BY <2>2, <4>1, <4>2
    <3>2. \A x \in Y : g[x] \in Int
      OBVIOUS
    <3>3. SumFunctionOnSet(g, Y) = g[e] + SumFunctionOnSet(g, X)
      <4> HIDE DEF Y
      <4>1. SumFunctionOnSet(g, Y) = g[e] + SumFunctionOnSet(g, Y \ {e})
        BY <3>1, <3>2, SumWithout
      <4> QED BY <3>1, <4>1
    <3>4. SumFunctionOnSet(f, XP) = SumFunctionOnSet(g, X)
      OBVIOUS
    <3>5. CASE e \in P
      <4>1. e \in YP /\ YP \ {e} = XP /\ g[e] = f[e] /\ \A x \in YP : f[x] \in Int
        BY <2>2, <3>5
      <4> HIDE DEF YP, XP
      <4>2. SumFunctionOnSet(f, YP) = f[e] + SumFunctionOnSet(f, YP \ {e})
        BY <3>1, <4>1, SumWithout
      <4>3. SumFunctionOnSet(f, YP) = SumFunctionOnSet(g, Y)
        BY <3>3, <3>4, <4>1, <4>2
      <4> QED BY <3>1, <4>3 DEF YP
    <3>6. CASE e \notin P
      <4>1. YP = XP /\ g[e] = 0
        BY <3>6
      <4>2. SumFunctionOnSet(g, X) \in Int
        <5>1. IsFiniteSet(X) /\ \A x \in X : g[x] \in Int
          BY FS_Subset
        <5> QED BY <5>1, SumIsNumber
      <4>3. SumFunctionOnSet(f, YP) = SumFunctionOnSet(g, Y)
        <5> HIDE DEF YP, XP, Y
        <5> QED BY <3>3, <3>4, <4>1, <4>2
      <4> QED BY <3>1, <4>3
    <3> QED BY <3>5, <3>6
  <2> QED BY <2>1, <2>2
<1>3. S \in G
  <2> HIDE DEF G
  <2> QED BY <1>1, <1>2, FiniteSetInduction
<1>4. S \cap P = P
  OBVIOUS
<1> QED BY <1>3, <1>4

-----------------------------------------------------------------------------
(* Folds from the left, as functions of the places folded over. *)

(* The last of the positions up to m is m. *)
LEMMA LastPosition ==
  ASSUME NEW m \in Nat \ {0}
  PROVE  Max(1..m) = m /\ (1..m) \ {m} = 1..(m-1) /\ 1..m # {}
<1>1. m \in 1..m /\ \A y \in 1..m : m >= y
  OBVIOUS
<1>2. \A x \in 1..m : (\A y \in 1..m : x >= y) => x = m
  BY <1>1
<1>3. Max(1..m) = m
  BY <1>1, <1>2 DEF Max
<1> QED BY <1>1, <1>3

(* The recursion of the library's folds from the left, over n places. *)
IsFold(g, n, base, f) ==
  \A s \in SUBSET (1..n) : g[s] = IF s = {} THEN base ELSE f[<<Max(s), g[s \ {Max(s)}]>>]

(* A fold from the left over n places, whose step stays within V, has a      *)
(* value for every set of places: the recursion of the library's             *)
(* MapThenFoldSet, as FoldLeft uses it, is a function.                       *)
LEMMA FoldExists ==
  ASSUME NEW n \in Nat, NEW V, NEW base \in V, NEW f \in [(1..n) \X V -> V]
  PROVE  \E g \in [SUBSET (1..n) -> V] : IsFold(g, n, base, f)
<1> DEFINE Folds(g, m) ==
             /\ g \in [SUBSET (1..m) -> V]
             /\ \A s \in SUBSET (1..m) :
                  g[s] = IF s = {} THEN base ELSE f[<<Max(s), g[s \ {Max(s)}]>>]
           T == {m \in Nat : m <= n => \E g : Folds(g, m)}
<1>1. 0 \in T
  <2> DEFINE g == [s \in SUBSET (1..0) |-> base]
  <2>1. \A s \in SUBSET (1..0) : s = {}
    OBVIOUS
  <2>2. Folds(g, 0)
    BY <2>1
  <2> HIDE DEF Folds
  <2> QED BY <2>2
<1>2. ASSUME NEW m \in T PROVE m + 1 \in T
  <2> SUFFICES ASSUME m + 1 <= n PROVE \E g : Folds(g, m + 1)
    <3> HIDE DEF Folds
    <3> QED OBVIOUS
  <2>1. PICK h : Folds(h, m)
    <3> HIDE DEF Folds
    <3> QED OBVIOUS
  <2> DEFINE g == [s \in SUBSET (1..(m+1)) |->
                     IF m + 1 \notin s THEN h[s] ELSE f[<<m + 1, h[s \ {m + 1}]>>]]
  <2>2. ASSUME NEW s \in SUBSET (1..(m+1)), m + 1 \notin s
        PROVE  s \in SUBSET (1..m)
    BY <2>2
  <2>3. ASSUME NEW s \in SUBSET (1..(m+1)), m + 1 \in s
        PROVE  /\ s \ {m + 1} \in SUBSET (1..m)
               /\ Max(s) = m + 1
    <3>1. s \ {m + 1} \in SUBSET (1..m)
      OBVIOUS
    <3>2. \A y \in s : m + 1 >= y
      OBVIOUS
    <3>3. \A x \in s : (\A y \in s : x >= y) => x = m + 1
      BY <2>3, <3>2
    <3> QED BY <2>3, <3>1, <3>2, <3>3 DEF Max
  <2>4. ASSUME NEW s \in SUBSET (1..m), s # {}
        PROVE  Max(s) \in s
    <3>1. IsFiniteSet(1..m) /\ 1..m \subseteq Nat
      BY FS_Interval
    <3>2. IsFiniteSet(s) /\ s \in SUBSET Nat
      BY <3>1, FS_Subset
    <3> QED BY <2>4, <3>2, MaxOfFinite
  <2>5. m + 1 \in 1..n
    OBVIOUS
  <2>6. \A s \in SUBSET (1..m) : h[s] \in V
    BY <2>1
  <2>7. \A x \in V : f[<<m + 1, x>>] \in V
    BY <2>5
  <2>8. ASSUME NEW s \in SUBSET (1..(m+1)) PROVE g[s] \in V
    BY <2>2, <2>3, <2>6, <2>7
  <2>9. ASSUME NEW s \in SUBSET (1..(m+1))
        PROVE  g[s] = IF s = {} THEN base ELSE f[<<Max(s), g[s \ {Max(s)}]>>]
    <3>1. CASE m + 1 \notin s
      <4>1. s \in SUBSET (1..m) /\ g[s] = h[s]
        BY <2>2, <3>1
      <4>2. h[s] = IF s = {} THEN base ELSE f[<<Max(s), h[s \ {Max(s)}]>>]
        BY <2>1, <4>1
      <4>3. s # {} => s \ {Max(s)} \in SUBSET (1..(m+1)) /\ m + 1 \notin s \ {Max(s)}
        BY <3>1
      <4>4. s # {} => g[s \ {Max(s)}] = h[s \ {Max(s)}]
        BY <4>3
      <4> QED BY <4>1, <4>2, <4>4
    <3>2. CASE m + 1 \in s
      <4>1. s \ {m + 1} \in SUBSET (1..(m+1)) /\ m + 1 \notin s \ {m + 1}
        OBVIOUS
      <4>2. g[s \ {m + 1}] = h[s \ {m + 1}]
        BY <4>1
      <4>3. g[s] = f[<<m + 1, h[s \ {m + 1}]>>]
        BY <3>2
      <4>4. Max(s) = m + 1
        BY <2>3, <3>2
      <4> QED BY <3>2, <4>2, <4>3, <4>4
    <3> QED BY <3>1, <3>2
  <2>10. g \in [SUBSET (1..(m+1)) -> V]
    BY <2>8
  <2>11. Folds(g, m + 1)
    <3> HIDE DEF g
    <3> QED BY <2>9, <2>10
  <2> HIDE DEF Folds, g
  <2> QED BY <2>11
<1>3. T = Nat
  <2> HIDE DEF Folds
  <2>1. T \in SUBSET Nat
    OBVIOUS
  <2> HIDE DEF T
  <2> QED BY <1>1, <1>2, <2>1, NatSetInduction
<1>4. \E g : Folds(g, n)
  <2> HIDE DEF Folds
  <2> QED BY <1>3
<1> QED BY <1>4 DEF IsFold

(* The recursion of a fold from the left over the places of a sequence.      *)
FoldOf(h, n, base, order, f) ==
  \A s \in SUBSET (1..n) :
    h[s] = IF s = {} THEN base ELSE f[<<h[s \ {Max(s)}], order[Max(s)]>>]

(* There is such a function, and all its values are where the steps stay.    *)
LEMMA FoldIsThere ==
  ASSUME NEW V, NEW D, NEW n \in Nat, NEW order \in [1..n -> D], NEW base \in V,
         NEW f \in [V \X D -> V]
  PROVE  \E h \in [SUBSET (1..n) -> V] : FoldOf(h, n, base, order, f)
<1> DEFINE k == [a \in (1..n) \X V |-> f[<<a[2], order[a[1]]>>]]
<1>1. k \in [(1..n) \X V -> V]
  OBVIOUS
<1>2. PICK g \in [SUBSET (1..n) -> V] : IsFold(g, n, base, k)
  <2> HIDE DEF k
  <2> QED BY <1>1, FoldExists
<1>3. ASSUME NEW s \in SUBSET (1..n), s # {}
      PROVE  k[<<Max(s), g[s \ {Max(s)}]>>] = f[<<g[s \ {Max(s)}], order[Max(s)]>>]
  <2>1. IsFiniteSet(1..n) /\ 1..n \subseteq Nat
    BY FS_Interval
  <2>2. IsFiniteSet(s) /\ s \in SUBSET Nat
    BY <2>1, FS_Subset
  <2>3. Max(s) \in 1..n /\ g[s \ {Max(s)}] \in V
    BY <1>3, <2>2, MaxOfFinite
  <2> QED BY <2>3
<1>4. FoldOf(g, n, base, order, f)
  <2> HIDE DEF k
  <2> QED BY <1>2, <1>3 DEF IsFold, FoldOf
<1> QED BY <1>4

(* The same, as far as the values are known to be in V.                      *)
FoldWithin(h, n, base, order, f, V) ==
  /\ h[{}] = base
  /\ \A s \in SUBSET (1..n) :
       s # {} /\ h[s \ {Max(s)}] \in V => h[s] = f[<<h[s \ {Max(s)}], order[Max(s)]>>]

(* What a fold goes through stays where its steps stay.                      *)
GoesBy(v, n, base, order, f) ==
  v[0] = base /\ \A m \in 1..n : v[m] = f[<<v[m-1], order[m]>>]

LEMMA FoldGoes ==
  ASSUME NEW V, NEW D, NEW n \in Nat, NEW order \in [1..n -> D], NEW base \in V,
         NEW f \in [V \X D -> V], NEW h, FoldWithin(h, n, base, order, f, V)
  PROVE  \E v \in [0..n -> V] : v[n] = h[1..n] /\ GoesBy(v, n, base, order, f)
<1> DEFINE T == {m \in Nat : m <= n => h[1..m] \in V}
<1>1. h[1..0] = base
  <2>1. 1..0 = {}
    OBVIOUS
  <2> QED BY <2>1 DEF FoldWithin
<1>2. ASSUME NEW m \in Nat, m < n, h[1..m] \in V
      PROVE  h[1..(m+1)] = f[<<h[1..m], order[m+1]>>] /\ h[1..(m+1)] \in V
  <2>1. m + 1 \in Nat \ {0} /\ 1..(m+1) \in SUBSET (1..n) /\ order[m+1] \in D
    BY <1>2
  <2>2. Max(1..(m+1)) = m + 1 /\ (1..(m+1)) \ {m+1} = 1..m /\ 1..(m+1) # {}
    <3>1. (m + 1) - 1 = m
      OBVIOUS
    <3> QED BY <2>1, <3>1, LastPosition
  <2>3. h[1..(m+1)] = f[<<h[1..m], order[m+1]>>]
    BY <1>2, <2>1, <2>2 DEF FoldWithin
  <2> QED BY <1>2, <2>1, <2>3
<1>3. ASSUME NEW m \in T PROVE m + 1 \in T
  <2>1. m \in Nat /\ (m <= n => h[1..m] \in V) /\ m + 1 \in Nat
    OBVIOUS
  <2>2. m + 1 <= n => m < n /\ m <= n
    BY <2>1
  <2>3. m + 1 <= n => h[1..(m+1)] \in V
    BY <1>2, <2>1, <2>2
  <2> QED BY <2>1, <2>3
<1>4. T = Nat
  <2>1. T \in SUBSET Nat /\ 0 \in T
    BY <1>1
  <2> HIDE DEF T
  <2> QED BY <1>3, <2>1, NatSetInduction
<1>5. \A m \in 0..n : h[1..m] \in V
  <2>1. \A m \in 0..n : m \in T
    BY <1>4
  <2> QED BY <2>1
<1> DEFINE v == [m \in 0..n |-> h[1..m]]
<1>6. v \in [0..n -> V] /\ v[n] = h[1..n] /\ v[0] = base
  BY <1>1, <1>5
<1>7. ASSUME NEW m \in 1..n PROVE v[m] = f[<<v[m-1], order[m]>>]
  <2>1. m - 1 \in Nat /\ m - 1 < n /\ (m - 1) + 1 = m /\ m - 1 \in 0..n /\ m \in 0..n
    OBVIOUS
  <2> QED BY <1>2, <1>5, <2>1
<1> HIDE DEF v
<1> QED BY <1>6, <1>7 DEF GoesBy

(* So its value is there too.                                                *)
LEMMA FoldStays ==
  ASSUME NEW V, NEW D, NEW n \in Nat, NEW order \in [1..n -> D], NEW base \in V,
         NEW f \in [V \X D -> V], NEW h, FoldWithin(h, n, base, order, f, V)
  PROVE  h[1..n] \in V
<1>1. PICK v \in [0..n -> V] : v[n] = h[1..n] /\ GoesBy(v, n, base, order, f)
  BY FoldGoes
<1>2. n \in 0..n
  OBVIOUS
<1> QED BY <1>1, <1>2

-----------------------------------------------------------------------------
(* A finite set of positions has an n-th member for every n up to its size. *)
LEMMA NthExists ==
  ASSUME NEW N \in Nat, NEW K \in SUBSET (1..N), NEW n \in 1..Cardinality(K)
  PROVE  \E j \in K : Cardinality({i \in K : i <= j}) = n
<1> DEFINE Has(M) == \A L \in SUBSET (1..M) : \A m \in 1..Cardinality(L) :
                       \E j \in L : Cardinality({i \in L : i <= j}) = m
           G == {M \in Nat : Has(M)}
<1>1. 0 \in G
  <2>1. \A L \in SUBSET (1..0) : L = {}
    OBVIOUS
  <2>2. \A L \in SUBSET (1..0) : Cardinality(L) = 0
    BY <2>1, FS_EmptySet
  <2> QED BY <2>2
<1>2. ASSUME NEW M \in G PROVE M + 1 \in G
  <2> SUFFICES ASSUME NEW L \in SUBSET (1..(M+1)), NEW m \in 1..Cardinality(L)
               PROVE  \E j \in L : Cardinality({i \in L : i <= j}) = m
    OBVIOUS
  <2>0. M \in Nat /\ Has(M)
    OBVIOUS
  <2>1. CASE M + 1 \notin L
    <3>1. L \in SUBSET (1..M)
      BY <2>0, <2>1
    <3> QED BY <2>0, <3>1
  <2>2. CASE M + 1 \in L
    <3> DEFINE L0 == L \ {M+1}
    <3>1. IsFiniteSet(L)
      <4>1. IsFiniteSet(1..(M+1))
        BY <2>0, FS_Interval
      <4> QED BY <4>1, FS_Subset
    <3>2. L0 \in SUBSET (1..M)
      BY <2>0
    <3>3. IsFiniteSet(L0) /\ Cardinality(L0) = Cardinality(L) - 1
      BY <3>1, <2>2, FS_RemoveElement
    <3>4. Cardinality(L) \in Nat /\ Cardinality(L0) \in Nat
      BY <3>1, <3>3, FS_CardinalityType
    <3>5. CASE m = Cardinality(L)
      <4>0. \A i \in L : i <= M + 1
        BY <2>0
      <4>1. {i \in L : i <= M + 1} = L
        BY <4>0
      <4> QED BY <4>1, <3>5, <2>2
    <3>6. CASE m # Cardinality(L)
      <4>1. m \in 1..Cardinality(L0)
        BY <3>3, <3>4, <3>6
      <4>2. PICK j \in L0 : Cardinality({i \in L0 : i <= j}) = m
        BY <2>0, <3>2, <4>1
      <4>3. {i \in L0 : i <= j} = {i \in L : i <= j}
        BY <2>0, <3>2
      <4> QED BY <4>2, <4>3
    <3> QED BY <3>5, <3>6
  <2> QED BY <2>1, <2>2
<1>3. G = Nat
  <2> HIDE DEF Has
  <2>1. G \in SUBSET Nat
    OBVIOUS
  <2> HIDE DEF G
  <2> QED BY <1>1, <1>2, <2>1, NatSetInduction
<1> QED BY <1>3

(* Keep picks different positions of the sequence, one for each place. *)
LEMMA KeepPositions ==
  ASSUME NEW S, NEW s \in Seq(S), NEW K \in SUBSET (DOMAIN s)
  PROVE  /\ Keep(s, K) \in Seq(S)
         /\ DOMAIN Keep(s, K) = 1..Cardinality(K)
         /\ \A n \in DOMAIN Keep(s, K) : Nth(K, n) \in K /\ Keep(s, K)[n] = s[Nth(K, n)]
         /\ \A m, n \in DOMAIN Keep(s, K) : Nth(K, m) = Nth(K, n) => m = n
         /\ \A m, n \in DOMAIN Keep(s, K) : m < n => Nth(K, m) < Nth(K, n)
<1>1. Len(s) \in Nat /\ DOMAIN s = 1..Len(s) /\ \A i \in DOMAIN s : s[i] \in S
  BY LenProperties, ElementOfSeq
<1>2. IsFiniteSet(K)
  <2>1. IsFiniteSet(1..Len(s))
    BY <1>1, FS_Interval
  <2> QED BY <1>1, <2>1, FS_Subset
<1>3. Cardinality(K) \in Nat
  BY <1>2, FS_CardinalityType
<1>4. \A n \in 1..Cardinality(K) :
        Nth(K, n) \in K /\ Cardinality({i \in K : i <= Nth(K, n)}) = n
  <2> SUFFICES ASSUME NEW n \in 1..Cardinality(K)
               PROVE  Nth(K, n) \in K /\ Cardinality({i \in K : i <= Nth(K, n)}) = n
    OBVIOUS
  <2>1. \E j \in K : Cardinality({i \in K : i <= j}) = n
    BY <1>1, NthExists
  <2> QED BY <2>1 DEF Nth
<1>5. DOMAIN Keep(s, K) = 1..Cardinality(K)
  BY DEF Keep
<1>6. \A n \in 1..Cardinality(K) : Keep(s, K)[n] = s[Nth(K, n)]
  BY DEF Keep
<1>7. Keep(s, K) \in Seq(S)
  <2>1. \A n \in 1..Cardinality(K) : s[Nth(K, n)] \in S
    BY <1>1, <1>4
  <2>2. Keep(s, K) \in [1..Cardinality(K) -> S]
    BY <2>1 DEF Keep
  <2> QED BY <2>2, <1>3, SeqDef
<1>8. \A m, n \in 1..Cardinality(K) : Nth(K, m) = Nth(K, n) => m = n
  BY <1>4
<1>9. ASSUME NEW m \in 1..Cardinality(K), NEW n \in 1..Cardinality(K), m < n
      PROVE  Nth(K, m) < Nth(K, n)
  <2> DEFINE low == {i \in K : i <= Nth(K, m)}
             high == {i \in K : i <= Nth(K, n)}
  <2>1. /\ Nth(K, m) \in K /\ Cardinality(low) = m
        /\ Nth(K, n) \in K /\ Cardinality(high) = n
    BY <1>4
  <2>2. IsFiniteSet(low)
    BY <1>2, FS_Subset
  <2>3. K \in SUBSET Nat
    BY <1>1
  <2>4. ASSUME Nth(K, n) <= Nth(K, m) PROVE high \subseteq low
    BY <2>1, <2>3, <2>4
  <2> HIDE DEF low, high
  <2>5. ASSUME high \subseteq low PROVE FALSE
    <3>1. n <= m
      BY <2>1, <2>2, <2>5, FS_Subset
    <3> QED BY <1>3, <1>9, <3>1
  <2> QED BY <2>1, <2>3, <2>4, <2>5
<1> QED BY <1>4, <1>5, <1>6, <1>7, <1>8, <1>9

(* The n-th members of a set of numbers: all of them, in their order.        *)
LEMMA NthAreAll ==
  ASSUME NEW N \in Nat, NEW K \in SUBSET (1..N)
  PROVE  /\ Cardinality(K) \in Nat
         /\ \A n \in 1..Cardinality(K) : Nth(K, n) \in K
         /\ \A m, n \in 1..Cardinality(K) : m < n => Nth(K, m) < Nth(K, n)
         /\ \A j \in K : \E n \in 1..Cardinality(K) : Nth(K, n) = j
<1> DEFINE s == [i \in 1..N |-> i]
<1>1. s \in Seq(1..N) /\ DOMAIN s = 1..N
  OBVIOUS
<1>2. IsFiniteSet(K) /\ Cardinality(K) \in Nat
  <2>1. IsFiniteSet(1..N)
    BY FS_Interval
  <2>2. IsFiniteSet(K)
    BY <2>1, FS_Subset
  <2> QED BY <2>2, FS_CardinalityType
<1>3. /\ \A n \in 1..Cardinality(K) : Nth(K, n) \in K
      /\ \A m, n \in 1..Cardinality(K) : m < n => Nth(K, m) < Nth(K, n)
  <2>1. K \in SUBSET (DOMAIN s)
    BY <1>1
  <2> HIDE DEF s
  <2>2. /\ DOMAIN Keep(s, K) = 1..Cardinality(K)
        /\ \A n \in DOMAIN Keep(s, K) : Nth(K, n) \in K
        /\ \A m, n \in DOMAIN Keep(s, K) : m < n => Nth(K, m) < Nth(K, n)
    BY <1>1, <2>1, KeepPositions
  <2> QED BY <2>2
<1>4. ASSUME NEW j \in K PROVE \E n \in 1..Cardinality(K) : Nth(K, n) = j
  <2> DEFINE upTo == {i \in K : i <= j}
             n == Cardinality(upTo)
             h == CHOOSE i \in K : Cardinality({a \in K : a <= i}) = n
             low == {i \in K : i <= h}
  <2>1. Nth(K, n) = h
    BY DEF Nth
  <2>2. h \in K /\ Cardinality(low) = n
    <3>1. \E i \in K : Cardinality({a \in K : a <= i}) = n
      OBVIOUS
    <3> HIDE DEF n
    <3> QED BY <3>1
  <2> HIDE DEF h
  <2>3. h \in Nat /\ j \in Nat /\ h \in K
    BY <2>2
  <2>4. IsFiniteSet(upTo) /\ IsFiniteSet(low) /\ upTo \subseteq K /\ j \in upTo /\ h \in low
    <3>1. upTo \subseteq K /\ low \subseteq K /\ j \in upTo /\ h \in low
      BY <2>3
    <3> HIDE DEF upTo, low
    <3> QED BY <1>2, <3>1, FS_Subset
  <2>5. n \in 1..Cardinality(K)
    <3> HIDE DEF upTo
    <3>1. n \in Nat /\ n <= Cardinality(K)
      BY <1>2, <2>4, FS_Subset, FS_CardinalityType
    <3>2. n # 0
      BY <2>4, FS_EmptySet
    <3> QED BY <1>2, <3>1, <3>2
  <2>6. ~ (h < j)
    <3> SUFFICES ASSUME h < j PROVE FALSE
      OBVIOUS
    <3>1. low \subseteq upTo /\ j \notin low
      <4>1. \A i \in K : i <= h => i <= j
        <5>1. \A i \in K : i \in Nat
          OBVIOUS
        <5> HIDE DEF low, upTo
        <5> QED BY <2>3, <5>1
      <4>2. ~ (j <= h)
        <5> HIDE DEF low, upTo
        <5> QED BY <2>3
      <4> QED BY <4>1, <4>2
    <3> HIDE DEF upTo, low
    <3> QED BY <2>2, <2>4, <3>1, FS_Subset
  <2>7. ~ (j < h)
    <3> SUFFICES ASSUME j < h PROVE FALSE
      OBVIOUS
    <3>1. upTo \subseteq low /\ h \notin upTo
      <4>1. \A i \in K : i <= j => i <= h
        <5>1. \A i \in K : i \in Nat
          OBVIOUS
        <5> HIDE DEF low, upTo
        <5> QED BY <2>3, <5>1
      <4>2. ~ (h <= j)
        <5> HIDE DEF low, upTo
        <5> QED BY <2>3
      <4> QED BY <4>1, <4>2
    <3> HIDE DEF upTo, low
    <3> QED BY <2>2, <2>4, <3>1, FS_Subset
  <2>8. h = j
    BY <2>3, <2>6, <2>7
  <2> QED BY <2>1, <2>5, <2>8
<1> QED BY <1>2, <1>3, <1>4

-----------------------------------------------------------------------------
(* Recursion that goes down: until it is done, every step lowers a number. *)
GoesDown(S, m, done, next) ==
  /\ m \in [S -> Nat] /\ done \in SUBSET S
  /\ \A s \in S \ done : next[s] \in S /\ m[next[s]] < m[s]

(* f solves the recursion. *)
Recurses(f, S, done, next, res) ==
  \A s \in S : f[s] = IF s \in done THEN res[s] ELSE f[next[s]]

(* The same, for the states below n. *)
Descends(f, n, S, V, m, done, next, res) ==
  /\ f \in [{s \in S : m[s] < n} -> V]
  /\ \A s \in {s \in S : m[s] < n} : f[s] = IF s \in done THEN res[s] ELSE f[next[s]]

(* Such a recursion has a solution.                                          *)
LEMMA DescentIsThere ==
  ASSUME NEW S, NEW V, NEW m, NEW done, NEW next, GoesDown(S, m, done, next),
         NEW res \in [done -> V]
  PROVE  \E f \in [S -> V] : Recurses(f, S, done, next, res)
<1> USE DEF GoesDown, Recurses
<1> DEFINE Below(n) == {s \in S : m[s] < n}
           Sol(f, n) == Descends(f, n, S, V, m, done, next, res)
           T == {n \in Nat : \E f : Sol(f, n)}
<1>1. 0 \in T
  <2> DEFINE f == [s \in Below(0) |-> res[s]]
  <2>1. Below(0) = {}
    OBVIOUS
  <2>2. Sol(f, 0)
    BY <2>1 DEF Descends
  <2> QED BY <2>2
<1>2. ASSUME NEW n \in T PROVE n + 1 \in T
  <2>1. PICK f : Sol(f, n)
    OBVIOUS
  <2> DEFINE g == [s \in Below(n + 1) |-> IF s \in done THEN res[s] ELSE f[next[s]]]
  <2>2. \A s \in Below(n) : f[s] \in V /\ f[s] = IF s \in done THEN res[s] ELSE f[next[s]]
    BY <2>1 DEF Descends
  <2>3. ASSUME NEW s \in Below(n + 1) PROVE s \notin done => next[s] \in Below(n)
    <3>1. n \in Nat /\ m[s] \in Nat /\ m[s] < n + 1
      OBVIOUS
    <3>2. s \notin done => next[s] \in S /\ m[next[s]] \in Nat /\ m[next[s]] < m[s]
      OBVIOUS
    <3> QED BY <3>1, <3>2
  <2>4. Below(n) \subseteq Below(n + 1)
    OBVIOUS
  <2>5. g \in [Below(n + 1) -> V]
    <3>1. \A s \in Below(n + 1) : (IF s \in done THEN res[s] ELSE f[next[s]]) \in V
      BY <2>2, <2>3
    <3> QED BY <3>1
  <2>6. \A s \in Below(n) : g[s] = f[s]
    BY <2>2, <2>4
  <2>7. \A s \in Below(n + 1) : g[s] = IF s \in done THEN res[s] ELSE g[next[s]]
    BY <2>3, <2>6
  <2>8. Sol(g, n + 1)
    <3> HIDE DEF g
    <3> QED BY <2>5, <2>7 DEF Descends
  <2> HIDE DEF Sol, g
  <2> QED BY <2>8
<1>3. T = Nat
  <2>1. T \in SUBSET Nat
    OBVIOUS
  <2> HIDE DEF T
  <2> QED BY <1>1, <1>2, <2>1, NatSetInduction
<1>4. ASSUME NEW f, NEW g, NEW j \in Nat, NEW k \in Nat, Sol(f, j), Sol(g, k),
             NEW s \in Below(j) \cap Below(k)
      PROVE  f[s] = g[s]
  <2> DEFINE U == {n \in Nat : \A t \in Below(j) \cap Below(k) : m[t] < n => f[t] = g[t]}
  <2>1. 0 \in U
    OBVIOUS
  <2>2. ASSUME NEW n \in U PROVE n + 1 \in U
    <3> SUFFICES ASSUME NEW t \in Below(j) \cap Below(k), m[t] < n + 1 PROVE f[t] = g[t]
      OBVIOUS
    <3>1. /\ f[t] = IF t \in done THEN res[t] ELSE f[next[t]]
          /\ g[t] = IF t \in done THEN res[t] ELSE g[next[t]]
      BY <1>4 DEF Descends
    <3>2. ASSUME t \notin done PROVE next[t] \in Below(j) \cap Below(k) /\ m[next[t]] < n
      <4>1. m[t] \in Nat /\ next[t] \in S /\ m[next[t]] \in Nat /\ m[next[t]] < m[t] /\ n \in Nat
        BY <3>2
      <4> QED BY <4>1
    <3> QED BY <3>1, <3>2
  <2>3. U = Nat
    <3>1. U \in SUBSET Nat
      OBVIOUS
    <3> HIDE DEF U
    <3> QED BY <2>1, <2>2, <3>1, NatSetInduction
  <2>4. m[s] + 1 \in U /\ m[s] < m[s] + 1
    BY <2>3
  <2> QED BY <2>4
<1> DEFINE F == [n \in Nat |-> CHOOSE f : Sol(f, n)]
           h == [s \in S |-> F[m[s] + 1][s]]
<1>5. ASSUME NEW n \in Nat PROVE Sol(F[n], n)
  <2>1. \E f : Sol(f, n)
    BY <1>3
  <2> HIDE DEF Sol
  <2> QED BY <2>1
<1>6. ASSUME NEW s \in S PROVE s \in Below(m[s] + 1) /\ m[s] + 1 \in Nat
  OBVIOUS
<1> HIDE DEF F
<1>7. ASSUME NEW s \in S
      PROVE  h[s] \in V /\ h[s] = IF s \in done THEN res[s] ELSE h[next[s]]
  <2>1. Sol(F[m[s] + 1], m[s] + 1)
    BY <1>5, <1>6
  <2>2. F[m[s] + 1][s] \in V /\ F[m[s] + 1][s] = IF s \in done THEN res[s] ELSE F[m[s] + 1][next[s]]
    BY <1>6, <2>1 DEF Descends
  <2>3. ASSUME s \notin done PROVE F[m[s] + 1][next[s]] = h[next[s]]
    <3>1. next[s] \in S /\ m[next[s]] < m[s] /\ m[next[s]] \in Nat /\ m[s] \in Nat
      BY <2>3
    <3>2. next[s] \in Below(m[s] + 1) \cap Below(m[next[s]] + 1)
      BY <3>1
    <3>3. Sol(F[m[next[s]] + 1], m[next[s]] + 1) /\ m[next[s]] + 1 \in Nat
      BY <1>5, <3>1
    <3> HIDE DEF Sol, Below
    <3>4. F[m[s] + 1][next[s]] = F[m[next[s]] + 1][next[s]]
      BY <1>4, <1>6, <2>1, <3>2, <3>3
    <3> QED BY <3>1, <3>4
  <2> QED BY <2>2, <2>3
<1> HIDE DEF h
<1>8. h \in [S -> V]
  <2>1. h = [s \in S |-> h[s]]
    BY DEF h
  <2> QED BY <1>7, <2>1
<1> QED BY <1>7, <1>8

(* What every step keeps true is true when it ends.                          *)
LEMMA DescentKeeps ==
  ASSUME NEW S, NEW m, NEW done, NEW next, GoesDown(S, m, done, next),
         NEW f, \A s \in S \ done : f[s] = f[next[s]],
         NEW I \in SUBSET S, \A s \in I \ done : next[s] \in I,
         NEW begin \in I
  PROVE  \E s \in I \cap done : f[begin] = f[s]
<1> USE DEF GoesDown
<1> DEFINE T == {n \in Nat : \A t \in I : m[t] < n => \E s \in I \cap done : f[t] = f[s]}
<1>1. 0 \in T
  OBVIOUS
<1>2. ASSUME NEW n \in T PROVE n + 1 \in T
  <2> SUFFICES ASSUME NEW t \in I, m[t] < n + 1 PROVE \E s \in I \cap done : f[t] = f[s]
    OBVIOUS
  <2>1. CASE t \in done
    BY <2>1
  <2>2. CASE t \notin done
    <3>1. next[t] \in I /\ m[next[t]] \in Nat /\ m[t] \in Nat /\ n \in Nat /\ m[next[t]] < m[t]
      BY <2>2
    <3>2. m[next[t]] < n
      BY <3>1
    <3>3. PICK s \in I \cap done : f[next[t]] = f[s]
      BY <3>1, <3>2
    <3>4. f[t] = f[next[t]]
      BY <2>2
    <3> QED BY <3>3, <3>4
  <2> QED BY <2>1, <2>2
<1>3. T = Nat
  <2>1. T \in SUBSET Nat
    OBVIOUS
  <2> HIDE DEF T
  <2> QED BY <1>1, <1>2, <2>1, NatSetInduction
<1>4. m[begin] \in Nat /\ m[begin] + 1 \in T /\ m[begin] < m[begin] + 1
  BY <1>3
<1> QED BY <1>4

-----------------------------------------------------------------------------
(* What can be reached from a node, for any graph. *)

(* A node reaches itself. *)
LEMMA ReachesItself ==
  ASSUME NEW E, NEW N, NEW x \in N
  PROVE  x \in Reachable(E, N, x)
BY DEF Reachable

(* Who reaches a node reaches its successors. *)
LEMMA ReachesFurther ==
  ASSUME NEW E, NEW N, NEW x, NEW y \in Reachable(E, N, x), NEW z \in N, <<y, z>> \in E
  PROVE  z \in Reachable(E, N, x)
<1> SUFFICES ASSUME NEW S \in SUBSET N, x \in S,
                    \A e \in E : e[1] \in S => e[2] \in S
             PROVE  z \in S
  BY DEF Reachable
<1>1. y \in S
  BY DEF Reachable
<1>2. <<y, z>>[1] \in S => <<y, z>>[2] \in S
  OBVIOUS
<1> QED
  BY <1>1, <1>2

(* A set that edges do not leave holds all that its nodes reach. *)
LEMMA ReachesWithin ==
  ASSUME NEW E, NEW N, NEW S \in SUBSET N, NEW x \in S,
         \A e \in E : e[1] \in S => e[2] \in S
  PROVE  Reachable(E, N, x) \subseteq S
BY DEF Reachable

(* Fewer edges reach less, and make no cycle. *)
LEMMA FewerEdges ==
  ASSUME NEW N, NEW E, NEW D, D \subseteq E, Acyclic(E, N)
  PROVE  Acyclic(D, N)
<1> SUFFICES ASSUME NEW x \in N, NEW y \in N, <<x, y>> \in D, x \in Reachable(D, N, y)
             PROVE  FALSE
  BY DEF Acyclic, OnCycle
<1>1. x \in Reachable(E, N, y)
  BY DEF Reachable
<1> QED BY <1>1 DEF Acyclic, OnCycle

=============================================================================
