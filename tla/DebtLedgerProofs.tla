--------------------------- MODULE DebtLedgerProofs ---------------------------
(***************************************************************************)
(* The ledger stays sound, returns pay exactly what they bring, settled    *)
(* debts are not touched again, and restrictions follow overdue debts: for *)
(* any callers, amounts, rules and bounds.                                 *)
(*                                                                         *)
(* A tick and a return work through a list of debts.  Each is a fold of    *)
(* the model; it is proved about as the states it goes through, the first  *)
(* the books before, each next one what the step makes of the one before.  *)
(***************************************************************************)
EXTENDS DebtLedger, DataProofs

(***************** the folds, as the states they go through ****************)

(* The states a fold of the model goes through. *)
LiquidatesBy(v, n, base, order) ==
  /\ v[0] = base /\ v[n] = FoldLeft(LiquidateDebt, base, order)
  /\ \A m \in 1..n : v[m] = LiquidateDebt(v[m-1], order[m])

PaysBy(v, n, to, base, order) ==
  /\ v[0] = base /\ v[n] = FoldLeft(LAMBDA k, id : Pay(to, k, id), base, order)
  /\ \A m \in 1..n : v[m] = Pay(to, v[m-1], order[m])

(* The tick works on one debt after the other (runLiquidationTick). *)
LEMMA TickFold ==
  ASSUME NEW V, NEW D, NEW n \in Nat, NEW order \in [1..n -> D], NEW base \in V,
         \A k \in V : \A id \in D : LiquidateDebt(k, id) \in V
  PROVE  \E v \in [0..n -> V] : LiquidatesBy(v, n, base, order)
<1> DEFINE f == [a \in (1..n) \X V |-> LiquidateDebt(a[2], order[a[1]])]
           Is(x) == x = [s \in SUBSET DOMAIN order |->
                           IF s = {} THEN base
                           ELSE LiquidateDebt(x[s \ {Max(s)}], order[Max(s)])]
<1>1. f \in [(1..n) \X V -> V]
  OBVIOUS
<1>2. PICK g \in [SUBSET (1..n) -> V] : IsFold(g, n, base, f)
  <2> HIDE DEF f
  <2> QED BY <1>1, FoldExists
<1>3. ASSUME NEW s \in SUBSET (1..n), s # {}
      PROVE  Max(s) \in s
  <2>1. IsFiniteSet(1..n) /\ 1..n \subseteq Nat
    BY FS_Interval
  <2>2. IsFiniteSet(s) /\ s \in SUBSET Nat
    BY <2>1, FS_Subset
  <2> QED BY <1>3, <2>2, MaxOfFinite
<1>4. ASSUME NEW x, Is(x) PROVE \A s \in SUBSET (1..n) :
        x[s] = IF s = {} THEN base ELSE LiquidateDebt(x[s \ {Max(s)}], order[Max(s)])
  BY <1>4
<1>5. Is(g)
  <2>1. ASSUME NEW s \in SUBSET (1..n), s # {}
        PROVE  f[<<Max(s), g[s \ {Max(s)}]>>] = LiquidateDebt(g[s \ {Max(s)}], order[Max(s)])
    <3>1. Max(s) \in 1..n /\ g[s \ {Max(s)}] \in V
      BY <1>3, <2>1
    <3> QED BY <3>1
  <2>2. DOMAIN order = 1..n
    OBVIOUS
  <2> HIDE DEF f
  <2> QED BY <1>2, <2>1, <2>2 DEF IsFold
<1> DEFINE h == CHOOSE y : Is(y)
<1>6. Is(h)
  <2> HIDE DEF Is
  <2> QED BY <1>5
<1>7. FoldLeft(LiquidateDebt, base, order) = h[DOMAIN order]
  BY DEF FoldLeft, MapThenFoldSet
<1>8. \A s \in SUBSET (1..n) :
        h[s] = IF s = {} THEN base ELSE LiquidateDebt(h[s \ {Max(s)}], order[Max(s)])
  <2> HIDE DEF h, Is
  <2> QED BY <1>4, <1>6
<1> HIDE DEF h
<1>9. /\ h[1..0] = base
      /\ \A m \in 1..n : h[1..m] = LiquidateDebt(h[1..(m-1)], order[m])
  <2>1. h[1..0] = base
    <3>1. 1..0 = {} /\ {} \in SUBSET (1..n)
      OBVIOUS
    <3> HIDE DEF h
    <3> QED BY <1>8, <3>1
  <2>2. ASSUME NEW m \in 1..n PROVE h[1..m] = LiquidateDebt(h[1..(m-1)], order[m])
    <3>1. m \in Nat \ {0} /\ 1..m \in SUBSET (1..n)
      OBVIOUS
    <3>2. Max(1..m) = m /\ (1..m) \ {m} = 1..(m-1) /\ 1..m # {}
      BY <3>1, LastPosition
    <3> QED BY <1>8, <3>1, <3>2
  <2> QED BY <2>1, <2>2
<1> DEFINE v == [m \in 0..n |-> h[1..m]]
           T == {m \in Nat : m <= n => h[1..m] \in V}
<1>10. T = Nat
  <2>1. 0 \in T
    BY <1>9
  <2>2. ASSUME NEW m \in T PROVE m + 1 \in T
    <3> SUFFICES ASSUME m + 1 <= n PROVE h[1..(m+1)] \in V
      OBVIOUS
    <3>1. h[1..m] \in V /\ m + 1 \in 1..n /\ (m + 1) - 1 = m
      OBVIOUS
    <3>2. order[m + 1] \in D
      BY <3>1
    <3> QED BY <1>9, <3>1, <3>2
  <2>3. T \in SUBSET Nat
    OBVIOUS
  <2> HIDE DEF T
  <2> QED BY <2>1, <2>2, <2>3, NatSetInduction
<1>11. v \in [0..n -> V]
  <2>1. \A m \in 0..n : h[1..m] \in V
    <3>1. \A m \in 0..n : m \in T
      BY <1>10
    <3> QED BY <3>1
  <2> QED BY <2>1
<1>12. DOMAIN order = 1..n /\ v[0] = base /\ v[n] = h[1..n]
  BY <1>9
<1>13. \A m \in 1..n : v[m] = LiquidateDebt(v[m-1], order[m])
  BY <1>9
<1> HIDE DEF v
<1> QED BY <1>7, <1>11, <1>12, <1>13 DEF LiquidatesBy

(* And so does a return (RecordReturn). *)
LEMMA PayFold ==
  ASSUME NEW V, NEW D, NEW to, NEW n \in Nat, NEW order \in [1..n -> D], NEW base \in V,
         \A k \in V : \A id \in D : Pay(to, k, id) \in V
  PROVE  \E v \in [0..n -> V] : PaysBy(v, n, to, base, order)
<1> DEFINE f == [a \in (1..n) \X V |-> Pay(to, a[2], order[a[1]])]
           Is(x) == x = [s \in SUBSET DOMAIN order |->
                           IF s = {} THEN base
                           ELSE Pay(to, x[s \ {Max(s)}], order[Max(s)])]
<1>1. f \in [(1..n) \X V -> V]
  OBVIOUS
<1>2. PICK g \in [SUBSET (1..n) -> V] : IsFold(g, n, base, f)
  <2> HIDE DEF f
  <2> QED BY <1>1, FoldExists
<1>3. ASSUME NEW s \in SUBSET (1..n), s # {}
      PROVE  Max(s) \in s
  <2>1. IsFiniteSet(1..n) /\ 1..n \subseteq Nat
    BY FS_Interval
  <2>2. IsFiniteSet(s) /\ s \in SUBSET Nat
    BY <2>1, FS_Subset
  <2> QED BY <1>3, <2>2, MaxOfFinite
<1>4. ASSUME NEW x, Is(x) PROVE \A s \in SUBSET (1..n) :
        x[s] = IF s = {} THEN base ELSE Pay(to, x[s \ {Max(s)}], order[Max(s)])
  BY <1>4
<1>5. Is(g)
  <2>1. ASSUME NEW s \in SUBSET (1..n), s # {}
        PROVE  f[<<Max(s), g[s \ {Max(s)}]>>] = Pay(to, g[s \ {Max(s)}], order[Max(s)])
    <3>1. Max(s) \in 1..n /\ g[s \ {Max(s)}] \in V
      BY <1>3, <2>1
    <3> QED BY <3>1
  <2>2. DOMAIN order = 1..n
    OBVIOUS
  <2> HIDE DEF f
  <2> QED BY <1>2, <2>1, <2>2 DEF IsFold
<1> DEFINE h == CHOOSE y : Is(y)
<1>6. Is(h)
  <2> HIDE DEF Is
  <2> QED BY <1>5
<1>7. FoldLeft(LAMBDA k, id : Pay(to, k, id), base, order) = h[DOMAIN order]
  BY DEF FoldLeft, MapThenFoldSet
<1>8. \A s \in SUBSET (1..n) :
        h[s] = IF s = {} THEN base ELSE Pay(to, h[s \ {Max(s)}], order[Max(s)])
  <2> HIDE DEF h, Is
  <2> QED BY <1>4, <1>6
<1> HIDE DEF h
<1>9. /\ h[1..0] = base
      /\ \A m \in 1..n : h[1..m] = Pay(to, h[1..(m-1)], order[m])
  <2>1. h[1..0] = base
    <3>1. 1..0 = {} /\ {} \in SUBSET (1..n)
      OBVIOUS
    <3> HIDE DEF h
    <3> QED BY <1>8, <3>1
  <2>2. ASSUME NEW m \in 1..n PROVE h[1..m] = Pay(to, h[1..(m-1)], order[m])
    <3>1. m \in Nat \ {0} /\ 1..m \in SUBSET (1..n)
      OBVIOUS
    <3>2. Max(1..m) = m /\ (1..m) \ {m} = 1..(m-1) /\ 1..m # {}
      BY <3>1, LastPosition
    <3> QED BY <1>8, <3>1, <3>2
  <2> QED BY <2>1, <2>2
<1> DEFINE v == [m \in 0..n |-> h[1..m]]
           T == {m \in Nat : m <= n => h[1..m] \in V}
<1>10. T = Nat
  <2>1. 0 \in T
    BY <1>9
  <2>2. ASSUME NEW m \in T PROVE m + 1 \in T
    <3> SUFFICES ASSUME m + 1 <= n PROVE h[1..(m+1)] \in V
      OBVIOUS
    <3>1. h[1..m] \in V /\ m + 1 \in 1..n /\ (m + 1) - 1 = m
      OBVIOUS
    <3>2. order[m + 1] \in D
      BY <3>1
    <3> QED BY <1>9, <3>1, <3>2
  <2>3. T \in SUBSET Nat
    OBVIOUS
  <2> HIDE DEF T
  <2> QED BY <2>1, <2>2, <2>3, NatSetInduction
<1>11. v \in [0..n -> V]
  <2>1. \A m \in 0..n : h[1..m] \in V
    <3>1. \A m \in 0..n : m \in T
      BY <1>10
    <3> QED BY <3>1
  <2> QED BY <2>1
<1>12. DOMAIN order = 1..n /\ v[0] = base /\ v[n] = h[1..n]
  BY <1>9
<1>13. \A m \in 1..n : v[m] = Pay(to, v[m-1], order[m])
  BY <1>9
<1> HIDE DEF v
<1> QED BY <1>7, <1>11, <1>12, <1>13 DEF PaysBy

(****************** what the treatment of one debt changes *****************)

(* The books of n debts. *)
Books(n) ==
  [debts : [1..n -> Debt], restrictions : [Callers -> SUBSET Scopes],
   failures : [Callers -> History]]

Single(S) == \A s, t \in S : s = t

(* What one debt's treatment may change. *)
SameOthers(ds, es, id, n) ==
  /\ \A i \in 1..n : i # id => es[i] = ds[i]
  /\ es[id].debtor = ds[id].debtor /\ es[id].creditor = ds[id].creditor
  /\ es[id].amount = ds[id].amount /\ es[id].due = ds[id].due

(* Attempts and failures are counted up to the model's bound. *)
LEMMA CountedOn ==
  ASSUME NEW n \in Nat
  PROVE  Plus1(n) \in 0..MaxCount
<1>0. n + 1 \in Int /\ MaxCount \in Int
  BY DebtAssumption
<1>1. Plus1(n) = IF n + 1 <= MaxCount THEN n + 1 ELSE MaxCount
  BY <1>0, MaxOfTwo DEF Plus1
<1> QED BY <1>1, DebtAssumption

LEMMA FailedAgain ==
  ASSUME NEW h \in History
  PROVE  Failed(h) \in History
<1>1. h[0] \in Nat
  BY DebtAssumption DEF History
<1>2. Plus1(h[0]) \in 0..MaxCount
  BY <1>1, CountedOn
<1> QED BY <1>2 DEF History, Failed

(* What is remembered of the failures is a history again. *)
LEMMA RememberedIs ==
  ASSUME failures \in [Callers -> History], NEW n \in Nat
  PROVE  Remembered(n) \in [Callers -> History]
<1>1. 0 \in 0..MaxCount /\ Window \in Nat
  BY DebtAssumption
<1>2. ASSUME NEW c \in Callers
      PROVE  [i \in 0..Window |-> IF i < n THEN 0 ELSE failures[c][i - n]] \in History
  <2> SUFFICES ASSUME NEW i \in 0..Window, ~(i < n)
               PROVE  failures[c][i - n] \in 0..MaxCount
    BY <1>1 DEF History
  <2>1. i - n \in 0..Window
    BY <1>1
  <2>2. failures[c] \in [0..Window -> 0..MaxCount]
    BY DEF History
  <2> QED BY <2>1, <2>2
<1> QED BY <1>2 DEF Remembered

(* A debt that changes leaves the others alone. *)
LEMMA DebtChanges ==
  ASSUME NEW n \in Nat, NEW ds \in [1..n -> Debt], NEW id \in 1..n, NEW d \in Debt,
         d.debtor = ds[id].debtor, d.creditor = ds[id].creditor,
         d.amount = ds[id].amount, d.due = ds[id].due
  PROVE  /\ [ds EXCEPT ![id] = d] \in [1..n -> Debt]
         /\ SameOthers(ds, [ds EXCEPT ![id] = d], id, n)
         /\ [ds EXCEPT ![id] = d][id] = d
BY DEF SameOthers

(* The books of a tick with other debts in them. *)
LEMMA BooksWith ==
  ASSUME NEW n, NEW k \in Books(n), NEW x
  PROVE  [k EXCEPT !.debts = x] =
           [debts |-> x, restrictions |-> k.restrictions, failures |-> k.failures]
<1>1. DOMAIN k = {"debts", "restrictions", "failures"} /\ k = [f \in DOMAIN k |-> k[f]]
  BY DEF Books
<1>2. [k EXCEPT !.debts = x] = [f \in DOMAIN k |-> IF f = "debts" THEN x ELSE k[f]]
  BY <1>1
<1> QED BY <1>1, <1>2

(* Marking changes one debt, and leaves it no longer active. *)
LEMMA MarkKeeps ==
  ASSUME NEW n \in Nat, NEW k \in Books(n), NEW id \in 1..n
  PROVE  LET m == MarkOverdue(k, id) IN
         /\ m \in Books(n) /\ m.restrictions = k.restrictions
         /\ SameOthers(k.debts, m.debts, id, n)
         /\ m.debts[id].status # "active"
<1>1. /\ k.debts \in [1..n -> Debt] /\ k.debts[id] \in Debt
      /\ k = [debts |-> k.debts, restrictions |-> k.restrictions, failures |-> k.failures]
      /\ k.restrictions \in [Callers -> SUBSET Scopes] /\ k.failures \in [Callers -> History]
  BY DEF Books
<1> DEFINE d == [k.debts[id] EXCEPT !.status = "overdue"]
           ds == [k.debts EXCEPT ![id] = d]
<1>2. CASE k.debts[id].status = "active"
  <2>1. d \in Debt /\ d.status = "overdue" /\ d.debtor = k.debts[id].debtor
        /\ d.creditor = k.debts[id].creditor /\ d.amount = k.debts[id].amount
        /\ d.due = k.debts[id].due
    BY <1>1 DEF Debt, DebtStatuses
  <2>2. ds = [k.debts EXCEPT ![id].status = "overdue"]
    BY <1>1
  <2>3. MarkOverdue(k, id) = [k EXCEPT !.debts = ds]
    BY <1>2, <2>2 DEF MarkOverdue
  <2>4. /\ [k EXCEPT !.debts = ds].debts = ds
        /\ [k EXCEPT !.debts = ds].restrictions = k.restrictions
        /\ [k EXCEPT !.debts = ds]
             = [debts |-> ds, restrictions |-> k.restrictions, failures |-> k.failures]
    <3> HIDE DEF ds
    <3> QED BY BooksWith
  <2> HIDE DEF d
  <2>5. ds \in [1..n -> Debt] /\ SameOthers(k.debts, ds, id, n) /\ ds[id] = d
    BY <1>1, <2>1, DebtChanges
  <2> HIDE DEF ds
  <2> QED BY <1>1, <2>1, <2>3, <2>4, <2>5 DEF Books
<1>3. CASE k.debts[id].status # "active"
  BY <1>1, <1>3 DEF MarkOverdue, SameOthers
<1> QED BY <1>2, <1>3

(* Collecting a marked debt, or giving it up, changes that debt and may      *)
(* count a failure; nobody is restricted by it.                              *)
LEMMA CollectKeeps ==
  ASSUME NEW n \in Nat, NEW k \in Books(n), NEW id \in 1..n, k.debts[id].status # "active"
  PROVE  LET m == TryCollectDebt(k, id) IN
         /\ m \in Books(n) /\ m.restrictions = k.restrictions
         /\ SameOthers(k.debts, m.debts, id, n)
         /\ m.debts[id].status # "active"
<1>1. /\ k.debts \in [1..n -> Debt] /\ k.debts[id] \in Debt
      /\ k = [debts |-> k.debts, restrictions |-> k.restrictions, failures |-> k.failures]
      /\ k.restrictions \in [Callers -> SUBSET Scopes] /\ k.failures \in [Callers -> History]
      /\ k.debts[id].attempts \in Nat /\ k.debts[id].debtor \in Callers
  BY DEF Books, Debt
<1> DEFINE c == k.debts[id].debtor
           more == Plus1(k.debts[id].attempts)
           off == [k.debts[id] EXCEPT !.status = "written_off"]
           got == [k.debts[id] EXCEPT !.attempts = more, !.status = "collected"]
           tried == [k.debts[id] EXCEPT !.attempts = more]
           fs == [k.failures EXCEPT ![c] = Failed(@)]
<1>2. more \in Nat /\ fs \in [Callers -> History]
  <2>1. k.failures[c] \in History
    BY <1>1
  <2>2. Failed(k.failures[c]) \in History
    BY <2>1, FailedAgain
  <2>3. more \in 0..MaxCount
    BY <1>1, CountedOn
  <2> QED BY <1>1, <2>2, <2>3, DebtAssumption
<1>3. \A d \in {off, got, tried} :
        /\ d \in Debt /\ d.status # "active" /\ d.debtor = k.debts[id].debtor
        /\ d.creditor = k.debts[id].creditor /\ d.amount = k.debts[id].amount
        /\ d.due = k.debts[id].due
  <2> HIDE DEF more
  <2> QED BY <1>1, <1>2 DEF Debt, DebtStatuses
<1> DEFINE with(d, f) == [debts |-> [k.debts EXCEPT ![id] = d], restrictions |-> k.restrictions, failures |-> f]
<1>4. TryCollectDebt(k, id) \in {with(off, k.failures), with(got, k.failures), with(tried, fs)}
  <2>1. WriteOffDebt(k, id) = with(off, k.failures)
    <3>1. [k EXCEPT !.debts = [k.debts EXCEPT ![id] = off]] = with(off, k.failures)
      BY BooksWith
    <3> QED BY <3>1 DEF WriteOffDebt
  <2>2. [k EXCEPT !.debts[id].attempts = Plus1(@), !.debts[id].status = "collected"] = with(got, k.failures)
    <3>1. [k EXCEPT !.debts = [k.debts EXCEPT ![id] = got]] = with(got, k.failures)
      BY BooksWith
    <3>2. DOMAIN k.debts = 1..n /\ DOMAIN k = {"debts", "restrictions", "failures"}
      BY <1>1
    <3> QED BY <3>1, <3>2
  <2>3. [k EXCEPT !.debts[id].attempts = Plus1(@), !.failures[c] = Failed(@)] = with(tried, fs)
    <3>1. [k EXCEPT !.debts = [k.debts EXCEPT ![id] = tried], !.failures = fs] = with(tried, fs)
      <4> DEFINE ds == [k.debts EXCEPT ![id] = tried]
      <4>1. with(tried, fs) = [debts |-> ds, restrictions |-> k.restrictions, failures |-> fs]
        OBVIOUS
      <4> HIDE DEF ds, fs, with
      <4>2. DOMAIN k = {"debts", "restrictions", "failures"} /\ k = [f \in DOMAIN k |-> k[f]]
        BY DEF Books
      <4>3. [k EXCEPT !.debts = ds, !.failures = fs] =
              [f \in DOMAIN k |-> IF f = "failures" THEN fs ELSE IF f = "debts" THEN ds ELSE k[f]]
        BY <4>2
      <4> QED BY <4>1, <4>2, <4>3 DEF ds
    <3>2. DOMAIN k.debts = 1..n /\ DOMAIN k = {"debts", "restrictions", "failures"}
      BY <1>1
    <3> QED BY <3>1, <3>2
  <2> QED BY <2>1, <2>2, <2>3 DEF TryCollectDebt
<1>5. ASSUME NEW d \in {off, got, tried}, NEW f \in [Callers -> History]
      PROVE  /\ with(d, f) \in Books(n) /\ with(d, f).restrictions = k.restrictions
             /\ SameOthers(k.debts, with(d, f).debts, id, n)
             /\ with(d, f).debts[id].status # "active"
  <2> DEFINE ds == [k.debts EXCEPT ![id] = d]
  <2>1. /\ d \in Debt /\ d.status # "active" /\ d.debtor = k.debts[id].debtor
        /\ d.creditor = k.debts[id].creditor /\ d.amount = k.debts[id].amount
        /\ d.due = k.debts[id].due
    BY <1>3
  <2>2. ds \in [1..n -> Debt] /\ SameOthers(k.debts, ds, id, n) /\ ds[id] = d
    BY <1>1, <2>1, DebtChanges
  <2>3. with(d, f).debts = ds /\ with(d, f).restrictions = k.restrictions
    OBVIOUS
  <2>4. with(d, f) \in Books(n)
    <3> HIDE DEF ds
    <3>1. with(d, f) = [debts |-> ds, restrictions |-> k.restrictions, failures |-> f]
      BY DEF ds
    <3> QED BY <1>1, <1>5, <2>2, <3>1 DEF Books
  <2> HIDE DEF ds
  <2> QED BY <2>1, <2>2, <2>3, <2>4
<1>6. k.failures \in [Callers -> History]
  BY <1>1
<1> HIDE DEF off, got, tried, fs, with
<1> QED BY <1>2, <1>4, <1>5, <1>6

(* Restrictions are only added, one to a caller who has none. *)
LEMMA RestrictKeeps ==
  ASSUME NEW n \in Nat, NEW k \in Books(n), NEW c \in Callers,
         \A x \in DOMAIN rules : rules[x] \in Rules
  PROVE  LET m == ApplyRestrictionsIfNeeded(k, c) IN
         /\ m \in Books(n) /\ m.debts = k.debts
         /\ \A x \in Callers : k.restrictions[x] \subseteq m.restrictions[x]
         /\ \A x \in Callers : Single(k.restrictions[x]) => Single(m.restrictions[x])
         /\ c \in DOMAIN rules /\ CountOverdueDebts(m.debts, c) >= rules[c].threshold =>
              m.restrictions[c] # {}
<1>1. /\ k = [debts |-> k.debts, restrictions |-> k.restrictions, failures |-> k.failures]
      /\ k.debts \in [1..n -> Debt]
      /\ k.restrictions \in [Callers -> SUBSET Scopes] /\ k.failures \in [Callers -> History]
  BY DEF Books
<1> DEFINE rs == [k.restrictions EXCEPT ![c] = {rules[c].scope}]
           m == ApplyRestrictionsIfNeeded(k, c)
<1>2. CASE m = k
  <2>1. c \in DOMAIN rules /\ CountOverdueDebts(m.debts, c) >= rules[c].threshold =>
          m.restrictions[c] # {}
    <3> SUFFICES ASSUME c \in DOMAIN rules, CountOverdueDebts(k.debts, c) >= rules[c].threshold,
                        k.restrictions[c] = {}
                 PROVE  FALSE
      BY <1>2
    <3>1. [k EXCEPT !.restrictions[c] = {rules[c].scope}].restrictions[c] # {}
      BY <1>1
    <3> QED BY <1>2, <3>1 DEF ApplyRestrictionsIfNeeded
  <2> QED BY <1>2, <2>1
<1>3. CASE m # k
  <2>1. /\ c \in DOMAIN rules /\ k.restrictions[c] = {}
        /\ m = [k EXCEPT !.restrictions[c] = {rules[c].scope}]
    BY <1>3 DEF ApplyRestrictionsIfNeeded
  <2>2. rules[c].scope \in Scopes
    BY <2>1, DebtAssumption DEF Rule
  <2>3. m = [debts |-> k.debts, restrictions |-> rs, failures |-> k.failures]
    BY <1>1, <2>1
  <2>4. rs \in [Callers -> SUBSET Scopes] /\ rs[c] = {rules[c].scope}
        /\ \A x \in Callers : x # c => rs[x] = k.restrictions[x]
    BY <1>1, <2>2
  <2> HIDE DEF rs, m
  <2>5. m \in Books(n) /\ m.debts = k.debts /\ m.restrictions = rs
    BY <1>1, <2>3, <2>4 DEF Books
  <2>6. \A x \in Callers : k.restrictions[x] \subseteq rs[x] /\ (Single(k.restrictions[x]) => Single(rs[x]))
    BY <2>1, <2>4 DEF Single
  <2> QED BY <2>4, <2>5, <2>6 DEF m
<1> QED BY <1>2, <1>3

(* How a caller's overdue debts are counted depends on its own debts only. *)
LEMMA CountedAlike ==
  ASSUME NEW n, NEW ds \in [1..n -> Debt], NEW es \in [1..n -> Debt], NEW c,
         \A i \in 1..n : (ds[i].debtor = c /\ ds[i].status = "overdue") <=>
                         (es[i].debtor = c /\ es[i].status = "overdue")
  PROVE  CountOverdueDebts(ds, c) = CountOverdueDebts(es, c)
<1>1. {i \in DOMAIN ds : ds[i].debtor = c /\ ds[i].status = "overdue"} =
      {i \in DOMAIN es : es[i].debtor = c /\ es[i].status = "overdue"}
  OBVIOUS
<1> QED BY <1>1 DEF CountOverdueDebts

(* The whole treatment of one debt: its debtor may get a restriction, and    *)
(* has one afterwards if too many of its debts are overdue.                  *)
LEMMA LiquidateKeeps ==
  ASSUME NEW n \in Nat, NEW k \in Books(n), NEW id \in 1..n,
         \A x \in DOMAIN rules : rules[x] \in Rules
  PROVE  LET m == LiquidateDebt(k, id)  c == k.debts[id].debtor IN
         /\ m \in Books(n) /\ c \in Callers
         /\ SameOthers(k.debts, m.debts, id, n)
         /\ \A x \in Callers : k.restrictions[x] \subseteq m.restrictions[x]
         /\ \A x \in Callers : Single(k.restrictions[x]) => Single(m.restrictions[x])
         /\ c \in DOMAIN rules /\ CountOverdueDebts(m.debts, c) >= rules[c].threshold =>
              m.restrictions[c] # {}
<1> DEFINE k1 == MarkOverdue(k, id)
           k2 == TryCollectDebt(k1, id)
           c == k.debts[id].debtor
           m == ApplyRestrictionsIfNeeded(k2, c)
<1>1. /\ k1 \in Books(n) /\ k1.restrictions = k.restrictions
      /\ SameOthers(k.debts, k1.debts, id, n)
      /\ k1.debts[id].status # "active"
  BY MarkKeeps
<1>2. /\ k2 \in Books(n) /\ k2.restrictions = k1.restrictions
      /\ SameOthers(k1.debts, k2.debts, id, n)
  <2> HIDE DEF k1
  <2> QED BY <1>1, CollectKeeps
<1>3. c \in Callers
  BY DEF Books, Debt
<1>4. /\ m \in Books(n) /\ m.debts = k2.debts
      /\ \A x \in Callers : k2.restrictions[x] \subseteq m.restrictions[x]
      /\ \A x \in Callers : Single(k2.restrictions[x]) => Single(m.restrictions[x])
      /\ c \in DOMAIN rules /\ CountOverdueDebts(m.debts, c) >= rules[c].threshold =>
           m.restrictions[c] # {}
  <2> HIDE DEF k2, c
  <2> QED BY <1>2, <1>3, RestrictKeeps
<1>5. SameOthers(k.debts, k2.debts, id, n)
  <2> HIDE DEF k1, k2
  <2> QED BY <1>1, <1>2 DEF SameOthers
<1>6. LiquidateDebt(k, id) = m
  BY DEF LiquidateDebt
<1> HIDE DEF k1, k2, m
<1> QED BY <1>1, <1>2, <1>3, <1>4, <1>5, <1>6

-----------------------------------------------------------------------------
OneScope == \A c \in Callers : Single(restrictions[c])
OverdueIsDue == \A i \in DOMAIN debts : debts[i].status = "overdue" => debts[i].due <= now

IInv == TypeOK /\ OneScope /\ OverdueIsDue

(* What TypeOK says, field by field. *)
LEMMA LedgerFacts ==
  ASSUME TypeOK
  PROVE  /\ Len(debts) \in Nat /\ DOMAIN debts = 1..Len(debts)
         /\ debts \in [1..Len(debts) -> Debt]
         /\ bound.time \in Nat /\ bound.debts \in Nat /\ bound.restarts \in Nat
         /\ bound.amounts \subseteq Nat \ {0} /\ now \in Nat
         /\ \A c \in DOMAIN rules : c \in Callers /\ rules[c] \in Rules /\ rules[c] \in Rule
<1>1. bound \in BoundSet
  BY DebtAssumption DEF TypeOK
<1>2. Len(debts) \in Nat /\ DOMAIN debts = 1..Len(debts) /\ debts \in [1..Len(debts) -> Debt]
  BY LenProperties DEF TypeOK
<1> QED BY <1>1, <1>2, DebtAssumption DEF TypeOK, BoundSet

Due == {i \in DOMAIN debts : debts[i].status \in Open /\ debts[i].due <= now}

(* The order of a tick lists every debt that is due, once. *)
LEMMA DueOnce ==
  ASSUME TypeOK, NEW order \in ListOverdueDebts(debts)
  PROVE  \E n \in Nat : /\ order \in [1..n -> Due]
                        /\ \A i \in Due : \E j \in 1..n : order[j] = i
<1> DEFINE n == Cardinality(Due)
<1>1. IsFiniteSet(Due) /\ n \in Nat
  <2>1. IsFiniteSet(1..Len(debts))
    BY LedgerFacts, FS_Interval
  <2>2. Due \in SUBSET (1..Len(debts))
    BY LedgerFacts DEF Due
  <2>3. IsFiniteSet(Due)
    BY <2>1, <2>2, FS_Subset
  <2> QED BY <2>3, FS_CardinalityType
<1>2. order \in [1..n -> Due] /\ \A i, j \in 1..n : i # j => order[i] # order[j]
  BY DEF ListOverdueDebts, SetToSeqs, Due
<1>3. order \in Injection(1..n, Due)
  BY <1>2 DEF Injection, IsInjective
<1>4. Cardinality(1..n) = n
  <2> HIDE DEF n
  <2> QED BY <1>1, FS_Interval
<1>5. order \in Surjection(1..n, Due)
  BY <1>1, <1>3, <1>4, FS_Injection
<1>6. \A i \in Due : \E j \in 1..n : order[j] = i
  BY <1>5 DEF Surjection
<1> HIDE DEF n
<1> QED BY <1>1, <1>2, <1>6

(********************************* the tick ********************************)

(* A tick, after some of its debts: what is due keeps its debtor and amount, *)
(* what is not due is as it was, restrictions are only added, and whoever    *)
(* had a debt treated is restricted if too many of its debts are overdue.    *)
LEMMA TickWorks ==
  ASSUME IInv, NEW order \in ListOverdueDebts(debts)
  PROVE  LET k == FoldLeft(LiquidateDebt,
                    [debts |-> debts, restrictions |-> restrictions, failures |-> Remembered(1)], order)
         IN  /\ k \in Books(Len(debts))
             /\ \A i \in DOMAIN debts : i \notin Due => k.debts[i] = debts[i]
             /\ \A i \in DOMAIN debts : k.debts[i].debtor = debts[i].debtor /\ k.debts[i].due = debts[i].due
             /\ \A c \in Callers : restrictions[c] \subseteq k.restrictions[c] /\ Single(k.restrictions[c])
             /\ \A c \in DOMAIN rules :
                  CountOverdueDebts(k.debts, c) >= rules[c].threshold => k.restrictions[c] # {}
<1> DEFINE N == Len(debts)
           base == [debts |-> debts, restrictions |-> restrictions, failures |-> Remembered(1)]
<1>1. /\ TypeOK /\ N \in Nat /\ DOMAIN debts = 1..N /\ debts \in [1..N -> Debt]
      /\ \A c \in DOMAIN rules : c \in Callers /\ rules[c] \in Rules /\ rules[c] \in Rule
  BY LedgerFacts DEF IInv
<1>2. base \in Books(N)
  <2> HIDE DEF N
  <2>1. Remembered(1) \in [Callers -> History]
    BY <1>1, RememberedIs DEF TypeOK
  <2> QED BY <1>1, <2>1 DEF Books, TypeOK
<1>3. PICK n \in Nat : order \in [1..n -> Due] /\ \A i \in Due : \E j \in 1..n : order[j] = i
  BY <1>1, DueOnce
<1>4. Due \subseteq 1..N /\ order \in [1..n -> 1..N]
  BY <1>1, <1>3 DEF Due
<1> HIDE DEF N, base
<1>5. \A k \in Books(N) : \A id \in 1..N : LiquidateDebt(k, id) \in Books(N)
  BY <1>1, LiquidateKeeps
<1> DEFINE V == Books(N)
<1>6. PICK v \in [0..n -> V] : LiquidatesBy(v, n, base, order)
  <2>1. base \in V /\ \A k \in V : \A id \in 1..N : LiquidateDebt(k, id) \in V
    BY <1>2, <1>5
  <2> HIDE DEF V
  <2> QED BY <1>4, <2>1, TickFold
<1> DEFINE
      Same(m) == /\ \A i \in 1..N : i \notin Due => v[m].debts[i] = debts[i]
                 /\ \A i \in 1..N : /\ v[m].debts[i].debtor = debts[i].debtor
                                    /\ v[m].debts[i].due = debts[i].due
      Added(m) == \A c \in Callers :
                    restrictions[c] \subseteq v[m].restrictions[c] /\ Single(v[m].restrictions[c])
      Strict(m) == \A c \in DOMAIN rules :
                     /\ \E j \in 1..m : debts[order[j]].debtor = c
                     /\ CountOverdueDebts(v[m].debts, c) >= rules[c].threshold
                     => v[m].restrictions[c] # {}
      T == {m \in Nat : m <= n => Same(m) /\ Added(m) /\ Strict(m)}
<1>7. 0 \in T
  <2>1. v[0].debts = debts /\ v[0].restrictions = restrictions
    BY <1>6 DEF base, LiquidatesBy
  <2> QED BY <2>1 DEF IInv, OneScope
<1>8. ASSUME NEW m \in T PROVE m + 1 \in T
  <2> SUFFICES ASSUME m + 1 <= n PROVE Same(m + 1) /\ Added(m + 1) /\ Strict(m + 1)
    OBVIOUS
  <2>1. m \in Nat /\ Same(m) /\ Added(m) /\ Strict(m)
    OBVIOUS
  <2> DEFINE k == v[m]
             id == order[m + 1]
             w == v[m + 1]
             d == k.debts[id].debtor
  <2>2. m + 1 \in 1..n /\ m \in 0..n /\ (m + 1) - 1 = m
    BY <2>1
  <2>3. w = LiquidateDebt(k, id) /\ k \in Books(N) /\ id \in 1..N /\ id \in Due
    BY <1>3, <1>4, <1>6, <2>2 DEF LiquidatesBy
  <2>4. /\ w \in Books(N) /\ d \in Callers
        /\ SameOthers(k.debts, w.debts, id, N)
        /\ \A x \in Callers : k.restrictions[x] \subseteq w.restrictions[x]
        /\ \A x \in Callers : Single(k.restrictions[x]) => Single(w.restrictions[x])
        /\ d \in DOMAIN rules /\ CountOverdueDebts(w.debts, d) >= rules[d].threshold =>
             w.restrictions[d] # {}
    <3> HIDE DEF k, id, w
    <3>1. LiquidateDebt(k, id) \in Books(N)
      BY <1>5, <2>3
    <3> QED BY <1>1, <2>3, LiquidateKeeps
  <2>5. Same(m) /\ Added(m) /\ d = debts[id].debtor
    BY <2>1, <2>3
  <2>6. Same(m + 1)
    <3>1. \A i \in 1..N : i # id => w.debts[i] = k.debts[i]
      BY <2>4 DEF SameOthers
    <3>2. w.debts[id].debtor = k.debts[id].debtor /\ w.debts[id].due = k.debts[id].due
      BY <2>4 DEF SameOthers
    <3> QED BY <2>3, <2>5, <3>1, <3>2
  <2>7. Added(m + 1)
    BY <2>4, <2>5
  <2>8. ASSUME NEW c \in DOMAIN rules, \E j \in 1..(m+1) : debts[order[j]].debtor = c,
               CountOverdueDebts(w.debts, c) >= rules[c].threshold
        PROVE  w.restrictions[c] # {}
    <3>1. CASE c = d
      BY <2>4, <2>8, <3>1
    <3>2. CASE c # d
      <4>1. PICK j \in 1..(m+1) : debts[order[j]].debtor = c
        BY <2>8
      <4>2. j # m + 1
        BY <2>5, <3>2, <4>1
      <4>3. \E i \in 1..m : debts[order[i]].debtor = c
        BY <2>1, <4>1, <4>2
      <4>4. k.debts \in [1..N -> Debt] /\ w.debts \in [1..N -> Debt]
        <5> HIDE DEF k, w
        <5> QED BY <2>3, <2>4 DEF Books
      <4>5. \A i \in 1..N : (k.debts[i].debtor = c /\ k.debts[i].status = "overdue") <=>
                            (w.debts[i].debtor = c /\ w.debts[i].status = "overdue")
        <5> HIDE DEF w, id
        <5> QED BY <2>4, <3>2 DEF SameOthers
      <4>6. CountOverdueDebts(k.debts, c) = CountOverdueDebts(w.debts, c)
        <5> HIDE DEF k, w
        <5> QED BY <4>4, <4>5, CountedAlike
      <4>7. k.restrictions[c] # {}
        BY <2>1, <2>8, <4>3, <4>6
      <4>8. c \in Callers
        BY <1>1
      <4> QED BY <2>4, <4>7, <4>8
    <3> QED BY <3>1, <3>2
  <2> HIDE DEF Same, Added
  <2> QED BY <2>6, <2>7, <2>8
<1>9. n \in T
  <2>1. T \in SUBSET Nat
    OBVIOUS
  <2> HIDE DEF T
  <2> QED BY <1>7, <1>8, <2>1, NatSetInduction
<1>10. Same(n) /\ Added(n) /\ Strict(n) /\ v[n] \in Books(N)
  BY <1>6, <1>9
<1>11. ASSUME NEW c \in DOMAIN rules, CountOverdueDebts(v[n].debts, c) >= rules[c].threshold
       PROVE  v[n].restrictions[c] # {}
  <2> DEFINE Late == {i \in DOMAIN v[n].debts : v[n].debts[i].debtor = c /\ v[n].debts[i].status = "overdue"}
  <2>1. rules[c].threshold \in Nat \ {0}
    BY <1>1 DEF Rule
  <2>2. Cardinality(Late) # 0
    BY <1>11, <2>1 DEF CountOverdueDebts
  <2>3. Late # {}
    BY <2>2, FS_EmptySet
  <2>4. PICK i \in 1..N : v[n].debts[i].debtor = c /\ v[n].debts[i].status = "overdue"
    BY <1>10, <2>3 DEF Books
  <2>5. i \in Due
    <3> SUFFICES ASSUME i \notin Due PROVE FALSE
      OBVIOUS
    <3>1. debts[i].status = "overdue"
      BY <1>10, <2>4
    <3> QED BY <1>1, <3>1 DEF Due, Open, IInv, OverdueIsDue
  <2>6. PICK j \in 1..n : order[j] = i
    BY <1>3, <2>5
  <2>7. debts[order[j]].debtor = c
    BY <1>10, <2>4, <2>6
  <2> QED BY <1>10, <1>11, <2>7
<1> DEFINE k == v[n]
<1>12. k = FoldLeft(LiquidateDebt,
             [debts |-> debts, restrictions |-> restrictions, failures |-> Remembered(1)], order)
  BY <1>6 DEF base, LiquidatesBy
<1>13. /\ k \in Books(Len(debts))
       /\ \A i \in DOMAIN debts : i \notin Due => k.debts[i] = debts[i]
       /\ \A i \in DOMAIN debts : k.debts[i].debtor = debts[i].debtor /\ k.debts[i].due = debts[i].due
       /\ \A c \in Callers : restrictions[c] \subseteq k.restrictions[c] /\ Single(k.restrictions[c])
       /\ \A c \in DOMAIN rules :
            CountOverdueDebts(k.debts, c) >= rules[c].threshold => k.restrictions[c] # {}
  BY <1>1, <1>10, <1>11 DEF N
<1> HIDE DEF k
<1> QED BY <1>12, <1>13

(***************************** a debtor's list *****************************)

(* The list of a caller's debts of one status names each of them once. *)
LEMMA ListedOnce ==
  ASSUME NEW n \in Nat, NEW ds \in [1..n -> Debt], NEW c, NEW s
  PROVE  LET list == ListDebtRecords(ds, c, s)
             K == {i \in 1..n : ds[i].debtor = c /\ ds[i].status = s}
         IN  /\ list \in Seq(1..n)
             /\ \A i \in 1..Len(list) : list[i] \in K
             /\ \A i, j \in 1..Len(list) : list[i] = list[j] => i = j
             /\ \A e \in K : \E i \in 1..Len(list) : list[i] = e
<1> DEFINE K == {i \in 1..n : ds[i].debtor = c /\ ds[i].status = s}
           ids == [i \in 1..n |-> i]
           kept == Keep(ids, K)
           m == Cardinality(K)
           nth == [i \in 1..m |-> Nth(K, i)]
           list == Reverse(kept)
<1>1. DOMAIN ds = 1..n
  OBVIOUS
<1>2. ids \in Seq(1..n) /\ DOMAIN ids = 1..n /\ \A i \in 1..n : ids[i] = i
  <2>1. ids \in [1..n -> 1..n]
    OBVIOUS
  <2> QED BY <2>1, SeqDef
<1>3. K \in SUBSET (1..n) /\ IsFiniteSet(K) /\ m \in Nat
  <2>1. IsFiniteSet(1..n)
    BY FS_Interval
  <2>2. K \in SUBSET (1..n)
    OBVIOUS
  <2> HIDE DEF K
  <2>3. IsFiniteSet(K)
    BY <2>1, <2>2, FS_Subset
  <2> QED BY <2>2, <2>3, FS_CardinalityType
<1>4. ListDebtRecords(ds, c, s) = list
  BY <1>1 DEF ListDebtRecords
<1>5. \A i \in K : ds[i].debtor = c /\ ds[i].status = s
  OBVIOUS
<1> HIDE DEF ids, K
<1>6. /\ kept \in Seq(1..n) /\ DOMAIN kept = 1..m
      /\ \A i \in 1..m : Nth(K, i) \in K /\ kept[i] = ids[Nth(K, i)]
      /\ \A i, j \in 1..m : Nth(K, i) = Nth(K, j) => i = j
  <2> DEFINE N == 1..n
  <2>1. ids \in Seq(N) /\ K \in SUBSET (DOMAIN ids)
    BY <1>2, <1>3
  <2> HIDE DEF N
  <2>2. /\ kept \in Seq(N) /\ DOMAIN kept = 1..m
        /\ \A i \in DOMAIN kept : Nth(K, i) \in K /\ kept[i] = ids[Nth(K, i)]
        /\ \A i, j \in DOMAIN kept : Nth(K, i) = Nth(K, j) => i = j
    BY <2>1, KeepPositions
  <2> HIDE DEF kept
  <2> QED BY <2>2 DEF N
<1>7. Len(kept) = m
  <2> HIDE DEF kept, m
  <2> QED BY <1>3, <1>6, LenProperties
<1>8. nth \in [1..m -> K] /\ \A i, j \in 1..m : i # j => nth[i] # nth[j]
  BY <1>6
<1>9. \A e \in K : \E i \in 1..m : nth[i] = e
  <2>1. nth \in Injection(1..m, K)
    <3> HIDE DEF nth
    <3> QED BY <1>8 DEF Injection, IsInjective
  <2>2. Cardinality(1..m) = m
    <3> HIDE DEF m
    <3> QED BY <1>3, FS_Interval
  <2>3. nth \in Surjection(1..m, K)
    <3> HIDE DEF nth
    <3> QED BY <1>3, <2>1, <2>2, FS_Injection
  <2> HIDE DEF nth
  <2> QED BY <2>3 DEF Surjection
<1>10. \A i \in 1..m : kept[i] = nth[i] /\ nth[i] \in K
  BY <1>2, <1>3, <1>6
<1>11. list = [i \in 1..m |-> kept[(m - i) + 1]]
  BY <1>7 DEF Reverse
<1> HIDE DEF kept, nth, list, m
<1>12. \A i \in 1..m : (m - i) + 1 \in 1..m
  BY <1>3
<1>13. list \in [1..m -> 1..n] /\ \A i \in 1..m : list[i] = nth[(m - i) + 1]
  BY <1>3, <1>10, <1>11, <1>12
<1>14. list \in Seq(1..n) /\ Len(list) = m
  <2>1. list \in Seq(1..n)
    BY <1>3, <1>13, SeqDef
  <2> QED BY <1>3, <1>13, <2>1, LenProperties
<1>15. \A i \in 1..m : list[i] \in K
  BY <1>10, <1>12, <1>13
<1>16. ASSUME NEW i \in 1..m, NEW j \in 1..m, list[i] = list[j] PROVE i = j
  <2>1. (m - i) + 1 = (m - j) + 1
    BY <1>8, <1>12, <1>13, <1>16
  <2> QED BY <1>3, <2>1
<1>17. ASSUME NEW e \in K PROVE \E i \in 1..m : list[i] = e
  <2>1. PICK i \in 1..m : nth[i] = e
    BY <1>9
  <2>2. (m - i) + 1 \in 1..m /\ (m - ((m - i) + 1)) + 1 = i
    BY <1>3
  <2>3. list[(m - i) + 1] = e
    BY <1>13, <2>1, <2>2
  <2> QED BY <2>2, <2>3
<1> QED BY <1>4, <1>14, <1>15, <1>16, <1>17 DEF K

(******************************* what is owed ******************************)

(* A return in the making: the debts, and what is left of it. *)
Purse(n) == [debts : [1..n -> Debt], left : Nat]

(* What a debt counts for in the sum owed. *)
Counts(d, c, to) ==
  IF d.debtor = c /\ d.creditor = to /\ d.status \in Open THEN d.amount ELSE 0

AllCounts(ds, n, c, to) == [i \in 1..n |-> Counts(ds[i], c, to)]

(* The sum owed is a sum over all debts. *)
LEMMA OwedOverAll ==
  ASSUME NEW n \in Nat, NEW ds \in [1..n -> Debt], NEW c, NEW to
  PROVE  /\ SumOwed(ds, c, to) = SumFunctionOnSet(AllCounts(ds, n, c, to), 1..n)
         /\ SumOwed(ds, c, to) \in Nat
<1> DEFINE f == [i \in DOMAIN ds |-> ds[i].amount]
           g == AllCounts(ds, n, c, to)
           P == {i \in DOMAIN ds : ds[i].debtor = c /\ ds[i].creditor = to /\ ds[i].status \in Open}
<1>1. IsFiniteSet(1..n)
  BY FS_Interval
<1>2. \A i \in 1..n : ds[i].amount \in Nat
  BY DEF Debt
<1>3. P \in SUBSET (1..n) /\ \A i \in 1..n : f[i] \in Nat /\ g[i] = IF i \in P THEN f[i] ELSE 0
  BY <1>2 DEF Counts, AllCounts
<1>4. SumOwed(ds, c, to) = SumFunctionOnSet(f, P)
  BY DEF SumOwed
<1> HIDE DEF f, g, P
<1>5. \A i \in 1..n : f[i] \in Int /\ g[i] \in Nat
  BY <1>3
<1>6. SumFunctionOnSet(f, P) = SumFunctionOnSet(g, 1..n)
  <2> DEFINE S == 1..n
  <2>1. IsFiniteSet(S) /\ P \in SUBSET S /\ \A i \in S : f[i] \in Int /\ g[i] = IF i \in P THEN f[i] ELSE 0
    BY <1>1, <1>3, <1>5
  <2> HIDE DEF S
  <2>2. SumFunctionOnSet(f, P) = SumFunctionOnSet(g, S)
    BY <2>1, SumOfChosen
  <2> QED BY <2>2 DEF S
<1>7. SumFunctionOnSet(g, 1..n) \in Nat
  BY <1>1, <1>5, SumIsNumber
<1> QED BY <1>4, <1>6, <1>7 DEF g

ButOne(ds, es, id, n) == \A i \in 1..n : i # id => es[i] = ds[i]

(* One debt that changes changes the sum by what it counts for. *)
LEMMA OwedChanges ==
  ASSUME NEW n \in Nat, NEW ds \in [1..n -> Debt], NEW es \in [1..n -> Debt],
         NEW id \in 1..n, NEW c, NEW to, ButOne(ds, es, id, n)
  PROVE  SumOwed(es, c, to) =
           SumOwed(ds, c, to) + (Counts(es[id], c, to) - Counts(ds[id], c, to))
<1> DEFINE f == AllCounts(ds, n, c, to)
           g == AllCounts(es, n, c, to)
<1>1. IsFiniteSet(1..n)
  BY FS_Interval
<1>2. \A i \in 1..n : ds[i].amount \in Nat /\ es[i].amount \in Nat
  BY DEF Debt
<1>3. \A i \in 1..n : f[i] \in Int /\ g[i] \in Int
  BY <1>2 DEF Counts, AllCounts
<1>4. \A i \in (1..n) \ {id} : f[i] = g[i]
  BY DEF AllCounts, ButOne
<1>5. SumOwed(ds, c, to) = SumFunctionOnSet(f, 1..n) /\ SumOwed(es, c, to) = SumFunctionOnSet(g, 1..n)
  BY OwedOverAll
<1>6. f[id] = Counts(ds[id], c, to) /\ g[id] = Counts(es[id], c, to)
  BY DEF AllCounts
<1> HIDE DEF f, g
<1>7. SumFunctionOnSet(g, 1..n) = SumFunctionOnSet(f, 1..n) + (g[id] - f[id])
  BY <1>1, <1>3, <1>4, SumChanges
<1> QED BY <1>5, <1>6, <1>7

(* A payment pays one debt to that creditor, as far as the money goes, and   *)
(* keeps the rest.                                                           *)
LEMMA PayKeeps ==
  ASSUME NEW n \in Nat, NEW k \in Purse(n), NEW id \in 1..n, NEW to
  PROVE  LET m == Pay(to, k, id)
             d == k.debts[id]
             e == m.debts[id]
         IN  /\ m \in Purse(n) /\ m.left <= k.left
             /\ \A i \in 1..n : i # id => m.debts[i] = k.debts[i]
             /\ e.debtor = d.debtor /\ e.creditor = d.creditor /\ e.due = d.due
             /\ e.status = "overdue" => d.status = "overdue"
             /\ d.creditor # to => e = d
             /\ d.creditor = to /\ d.status \in Open =>
                  /\ Counts(d, d.debtor, to) - Counts(e, d.debtor, to) = k.left - m.left
                  /\ m.left = 0 \/ e.status \notin Open
             /\ d.creditor # to \/ k.left = 0 => m = k
<1> DEFINE d == k.debts[id]
           all == [d EXCEPT !.status = "collected"]
           part == [d EXCEPT !.amount = @ - k.left]
           m == Pay(to, k, id)
<1>1. /\ k.debts \in [1..n -> Debt] /\ k.left \in Nat /\ d \in Debt /\ d.amount \in Nat
      /\ DOMAIN k = {"debts", "left"} /\ k = [f \in DOMAIN k |-> k[f]]
  BY DEF Purse, Debt
<1>2. CASE k.left = 0 \/ d.creditor # to
  <2>1. m = k
    BY <1>2 DEF Pay
  <2>2. k.left = 0 => Counts(d, d.debtor, to) - Counts(d, d.debtor, to) = 0
    BY <1>1 DEF Counts
  <2> HIDE DEF m
  <2> QED BY <1>1, <1>2, <2>1, <2>2 DEF m
<1>3. CASE ~ (k.left = 0 \/ d.creditor # to) /\ d.amount <= k.left
  <2> DEFINE ds == [k.debts EXCEPT ![id] = all]
             left == k.left - d.amount
  <2>1. m = [k EXCEPT !.left = left, !.debts = ds]
    BY <1>1, <1>3 DEF Pay
  <2>2. ds \in [1..n -> Debt] /\ ds[id] = all /\ \A i \in 1..n : i # id => ds[i] = k.debts[i]
    BY <1>1 DEF Debt, DebtStatuses
  <2>3. left \in Nat /\ left <= k.left /\ k.left - left = d.amount
    BY <1>1, <1>3
  <2>4. /\ all.debtor = d.debtor /\ all.creditor = d.creditor /\ all.due = d.due
        /\ all.status = "collected" /\ all.status \notin Open
    BY <1>1 DEF Debt, Open
  <2>5. d.status \in Open => Counts(d, d.debtor, to) - Counts(all, d.debtor, to) = d.amount
    BY <1>1, <1>3, <2>4 DEF Counts
  <2> HIDE DEF ds, left
  <2>6. m = [debts |-> ds, left |-> left]
    <3>1. m = [f \in DOMAIN k |-> IF f = "debts" THEN ds ELSE IF f = "left" THEN left ELSE k[f]]
      BY <1>1, <2>1
    <3> QED BY <1>1, <3>1
  <2> HIDE DEF all, m
  <2>7. m \in Purse(n) /\ m.debts = ds /\ m.left = left
    BY <2>2, <2>3, <2>6 DEF Purse
  <2> QED BY <1>3, <2>2, <2>3, <2>4, <2>5, <2>7 DEF m
<1>4. CASE ~ (k.left = 0 \/ d.creditor # to) /\ ~ (d.amount <= k.left)
  <2> DEFINE ds == [k.debts EXCEPT ![id] = part]
  <2>1. m = [k EXCEPT !.left = 0, !.debts = ds]
    <3>1. m = [k EXCEPT !.left = 0, !.debts[id].amount = @ - k.left]
      BY <1>4 DEF Pay
    <3> QED BY <1>1, <3>1
  <2>2. /\ part.debtor = d.debtor /\ part.creditor = d.creditor /\ part.due = d.due
        /\ part.status = d.status /\ part.amount = d.amount - k.left /\ part \in Debt
    BY <1>1, <1>4 DEF Debt
  <2>3. ds \in [1..n -> Debt] /\ ds[id] = part /\ \A i \in 1..n : i # id => ds[i] = k.debts[i]
    <3> HIDE DEF part
    <3> QED BY <1>1, <2>2
  <2>4. d.status \in Open => Counts(d, d.debtor, to) - Counts(part, d.debtor, to) = k.left
    BY <1>1, <1>4, <2>2 DEF Counts
  <2> HIDE DEF ds
  <2>5. m = [debts |-> ds, left |-> 0]
    <3>1. m = [f \in DOMAIN k |-> IF f = "debts" THEN ds ELSE IF f = "left" THEN 0 ELSE k[f]]
      BY <1>1, <2>1
    <3> QED BY <1>1, <3>1
  <2> HIDE DEF part, m
  <2>6. m \in Purse(n) /\ m.debts = ds /\ m.left = 0
    BY <2>3, <2>5 DEF Purse
  <2> QED BY <1>1, <1>4, <2>2, <2>3, <2>4, <2>6 DEF m
<1> QED BY <1>2, <1>3, <1>4

(********************************* a return ********************************)

OpenDebts(c) == {i \in DOMAIN debts : debts[i].debtor = c /\ debts[i].status \in Open}
PayOrder(c) == ListDebtRecords(debts, c, "active") \o ListDebtRecords(debts, c, "overdue")

\* What a return makes of the debts, and what is left of it.
ReturnOf(c, to, n) ==
  FoldLeft(LAMBDA k, id : Pay(to, k, id), [debts |-> debts, left |-> n], PayOrder(c))

(* A return goes through all open debts of its debtor, once each. *)
LEMMA OpenOnce ==
  ASSUME TypeOK, NEW c
  PROVE  \E n \in Nat : /\ PayOrder(c) \in [1..n -> OpenDebts(c)]
                        /\ \A i, j \in 1..n : PayOrder(c)[i] = PayOrder(c)[j] => i = j
                        /\ \A e \in OpenDebts(c) : \E i \in 1..n : PayOrder(c)[i] = e
<1> DEFINE N == Len(debts)
           one == ListDebtRecords(debts, c, "active")
           two == ListDebtRecords(debts, c, "overdue")
           Act == {i \in 1..N : debts[i].debtor = c /\ debts[i].status = "active"}
           Ovd == {i \in 1..N : debts[i].debtor = c /\ debts[i].status = "overdue"}
           D == 1..N
<1>1. N \in Nat /\ debts \in [1..N -> Debt] /\ DOMAIN debts = 1..N
  BY LedgerFacts
<1>2. OpenDebts(c) = Act \cup Ovd /\ Act \cap Ovd = {}
  BY <1>1 DEF OpenDebts, Open
<1>3. /\ one \in Seq(D)
      /\ \A i \in 1..Len(one) : one[i] \in Act
      /\ \A i, j \in 1..Len(one) : one[i] = one[j] => i = j
      /\ \A e \in Act : \E i \in 1..Len(one) : one[i] = e
  <2> HIDE DEF N
  <2> QED BY <1>1, ListedOnce
<1>4. /\ two \in Seq(D)
      /\ \A i \in 1..Len(two) : two[i] \in Ovd
      /\ \A i, j \in 1..Len(two) : two[i] = two[j] => i = j
      /\ \A e \in Ovd : \E i \in 1..Len(two) : two[i] = e
  <2> HIDE DEF N
  <2> QED BY <1>1, ListedOnce
<1>5. PayOrder(c) = one \o two
  BY DEF PayOrder
<1> HIDE DEF one, two, Act, Ovd, D
<1> DEFINE a == Len(one)
           b == Len(two)
           both == one \o two
<1>6. a \in Nat /\ b \in Nat
  BY <1>3, <1>4, LenProperties
<1>7. /\ both \in Seq(D) /\ Len(both) = a + b
      /\ \A i \in 1..(a+b) : both[i] = IF i <= a THEN one[i] ELSE two[i - a]
  BY <1>3, <1>4, ConcatProperties
<1>8. DOMAIN both = 1..(a+b) /\ both = [i \in DOMAIN both |-> both[i]]
  <2> HIDE DEF both, a, b
  <2> QED BY <1>7, LenProperties
<1> HIDE DEF both, a, b
<1>9. \A i \in 1..(a+b) : /\ i <= a => i \in 1..a /\ both[i] = one[i] /\ both[i] \in Act
                          /\ ~ (i <= a) => i - a \in 1..b /\ both[i] = two[i - a] /\ both[i] \in Ovd
  BY <1>3, <1>4, <1>6, <1>7 DEF a, b
<1>10. both \in [1..(a+b) -> OpenDebts(c)]
  BY <1>2, <1>8, <1>9
<1>11. ASSUME NEW i \in 1..(a+b), NEW j \in 1..(a+b), both[i] = both[j] PROVE i = j
  <2>1. CASE i <= a /\ j <= a
    <3>1. i \in 1..a /\ j \in 1..a /\ one[i] = one[j]
      BY <1>9, <1>11, <2>1
    <3> QED BY <1>3, <3>1 DEF a
  <2>2. CASE ~ (i <= a) /\ ~ (j <= a)
    <3>1. i - a \in 1..b /\ j - a \in 1..b /\ two[i - a] = two[j - a]
      BY <1>9, <1>11, <2>2
    <3>2. i - a = j - a
      BY <1>4, <3>1 DEF b
    <3> QED BY <1>6, <3>2
  <2>3. CASE (i <= a /\ ~ (j <= a)) \/ (~ (i <= a) /\ j <= a)
    BY <1>2, <1>9, <1>11, <2>3
  <2> QED BY <2>1, <2>2, <2>3
<1>12. ASSUME NEW e \in OpenDebts(c) PROVE \E i \in 1..(a+b) : both[i] = e
  <2>1. CASE e \in Act
    <3>1. PICK i \in 1..a : one[i] = e
      BY <1>3, <2>1 DEF a
    <3>2. i \in 1..(a+b) /\ i <= a
      BY <1>6
    <3> QED BY <1>7, <3>1, <3>2
  <2>2. CASE e \in Ovd
    <3>1. PICK i \in 1..b : two[i] = e
      BY <1>4, <2>2 DEF b
    <3>2. i + a \in 1..(a+b) /\ ~ (i + a <= a) /\ (i + a) - a = i
      BY <1>6
    <3> QED BY <1>7, <3>1, <3>2
  <2> QED BY <1>2, <2>1, <2>2
<1>13. PayOrder(c) = both /\ a + b \in Nat
  BY <1>5, <1>6 DEF both
<1> QED BY <1>10, <1>11, <1>12, <1>13

\* The debts after n was returned for what c owes to.
PaidWith(ds, c, to, n) ==
  /\ ds \in [1..Len(debts) -> Debt]
  /\ \A i \in 1..Len(debts) :
       /\ debts[i].debtor # c \/ debts[i].creditor # to \/ debts[i].status \notin Open =>
            ds[i] = debts[i]
       /\ ds[i].debtor = debts[i].debtor /\ ds[i].due = debts[i].due
       /\ ds[i].status = "overdue" => debts[i].status = "overdue"
  /\ SumOwed(ds, c, to) = Max({0, SumOwed(debts, c, to) - n})

(* A return pays what it brings, to that creditor and for nobody else. *)
LEMMA ReturnWorks ==
  ASSUME TypeOK, NEW c, NEW to, NEW N \in Nat
  PROVE  PaidWith(ReturnOf(c, to, N).debts, c, to, N)
<1> DEFINE M == Len(debts)
           base == [debts |-> debts, left |-> N]
           order == PayOrder(c)
           D == 1..M
           V == Purse(M)
<1>1. M \in Nat /\ debts \in [1..M -> Debt] /\ DOMAIN debts = 1..M
  BY LedgerFacts
<1>2. PICK n \in Nat : /\ order \in [1..n -> OpenDebts(c)]
                       /\ \A i, j \in 1..n : order[i] = order[j] => i = j
                       /\ \A e \in OpenDebts(c) : \E i \in 1..n : order[i] = e
  BY OpenOnce
<1>3. order \in [1..n -> D] /\ \A i \in 1..n : order[i] \in OpenDebts(c)
  BY <1>1, <1>2 DEF OpenDebts
<1>4. base \in V /\ base.debts = debts /\ base.left = N
  <2> HIDE DEF M
  <2> QED BY <1>1 DEF Purse
<1>5. \A k \in V : \A id \in D : Pay(to, k, id) \in V
  <2> HIDE DEF M
  <2> QED BY <1>1, PayKeeps
<1> HIDE DEF M, base, order
<1>6. PICK v \in [0..n -> V] : PaysBy(v, n, to, base, order)
  <2> HIDE DEF V, D
  <2> QED BY <1>3, <1>4, <1>5, PayFold
<1>7. /\ v[0] = base /\ v[n] = FoldLeft(LAMBDA k, id : Pay(to, k, id), base, order)
      /\ \A m \in 1..n : v[m] = Pay(to, v[m-1], order[m])
  BY <1>6 DEF PaysBy
<1>8. \A m \in 0..n : v[m] \in Purse(M) /\ v[m].left \in Nat /\ v[m].debts \in [1..M -> Debt]
  BY <1>6 DEF Purse
<1>9. SumOwed(debts, c, to) \in Nat /\ \A m \in 0..n : SumOwed(v[m].debts, c, to) \in Nat
  BY <1>1, <1>8, OwedOverAll
<1> DEFINE
      Left(m) == \A i \in 1..M : (\A j \in 1..m : order[j] # i) => v[m].debts[i] = debts[i]
      Same(m) == \A i \in 1..M :
                   /\ debts[i].creditor # to => v[m].debts[i] = debts[i]
                   /\ v[m].debts[i].debtor = debts[i].debtor
                   /\ v[m].debts[i].creditor = debts[i].creditor
                   /\ v[m].debts[i].due = debts[i].due
                   /\ v[m].debts[i].status = "overdue" => debts[i].status = "overdue"
      Exact(m) == v[m].left <= N /\ SumOwed(v[m].debts, c, to) + (N - v[m].left) = SumOwed(debts, c, to)
      Paid(m) == v[m].left = 0 \/ \A j \in 1..m :
                   debts[order[j]].creditor = to => v[m].debts[order[j]].status \notin Open
      T == {m \in Nat : m <= n => Left(m) /\ Same(m) /\ Exact(m) /\ Paid(m)}
<1>10. 0 \in T
  <2>1. v[0].debts = debts /\ v[0].left = N
    BY <1>4, <1>7
  <2> QED BY <1>9, <2>1
<1>11. ASSUME NEW m \in T PROVE m + 1 \in T
  <2> SUFFICES ASSUME m + 1 <= n PROVE Left(m + 1) /\ Same(m + 1) /\ Exact(m + 1) /\ Paid(m + 1)
    OBVIOUS
  <2>1. m \in Nat /\ Left(m) /\ Same(m) /\ Exact(m) /\ Paid(m)
    OBVIOUS
  <2> DEFINE k == v[m]
             id == order[m + 1]
             w == v[m + 1]
             d == k.debts[id]
             e == w.debts[id]
  <2>2. m + 1 \in 1..n /\ m \in 0..n /\ (m + 1) - 1 = m /\ m + 1 \in 0..n /\ m \in Nat
    BY <2>1
  <2>3. w = Pay(to, k, id) /\ k \in Purse(M) /\ id \in 1..M /\ id \in OpenDebts(c)
    BY <1>3, <1>6, <1>7, <2>2
  <2>4. k.left \in Nat /\ w.left \in Nat /\ k.debts \in [1..M -> Debt] /\ w.debts \in [1..M -> Debt]
    BY <1>8, <2>2
  <2>5. /\ w.left <= k.left
        /\ \A i \in 1..M : i # id => w.debts[i] = k.debts[i]
        /\ e.debtor = d.debtor /\ e.creditor = d.creditor /\ e.due = d.due
        /\ e.status = "overdue" => d.status = "overdue"
        /\ d.creditor # to => e = d
        /\ d.creditor = to /\ d.status \in Open =>
             /\ Counts(d, d.debtor, to) - Counts(e, d.debtor, to) = k.left - w.left
             /\ w.left = 0 \/ e.status \notin Open
        /\ d.creditor # to \/ k.left = 0 => w = k
    <3> HIDE DEF k, id, w
    <3> QED BY <1>1, <2>3, PayKeeps
  <2>6. d = debts[id] /\ d.debtor = c /\ d.status \in Open
    <3>1. \A j \in 1..m : order[j] # id
      BY <1>2, <2>2
    <3> QED BY <2>1, <2>3, <3>1 DEF OpenDebts
  <2>7. Left(m) /\ Same(m) /\ Exact(m) /\ Paid(m)
    BY <2>1
  <2>8. Left(m + 1)
    <3> SUFFICES ASSUME NEW i \in 1..M, \A j \in 1..(m+1) : order[j] # i
                 PROVE  w.debts[i] = debts[i]
      OBVIOUS
    <3>1. i # id /\ \A j \in 1..m : order[j] # i
      BY <2>2
    <3> QED BY <2>5, <2>7, <3>1
  <2>9. Same(m + 1)
    <3> SUFFICES ASSUME NEW i \in 1..M
                 PROVE  /\ debts[i].creditor # to => w.debts[i] = debts[i]
                        /\ w.debts[i].debtor = debts[i].debtor
                        /\ w.debts[i].creditor = debts[i].creditor
                        /\ w.debts[i].due = debts[i].due
                        /\ w.debts[i].status = "overdue" => debts[i].status = "overdue"
      OBVIOUS
    <3>1. CASE i = id
      BY <2>5, <2>6, <3>1
    <3>2. CASE i # id
      BY <2>5, <2>7, <3>2
    <3> QED BY <3>1, <3>2
  <2>10. Exact(m + 1)
    <3>1. CASE d.creditor # to
      BY <2>5, <2>7, <3>1
    <3>2. CASE d.creditor = to
      <4>1. Counts(d, c, to) - Counts(e, c, to) = k.left - w.left
        BY <2>5, <2>6, <3>2
      <4>2. SumOwed(w.debts, c, to) = SumOwed(k.debts, c, to) + (Counts(e, c, to) - Counts(d, c, to))
        <5> DEFINE ds == k.debts
                   es == w.debts
        <5>1. ds \in [1..M -> Debt] /\ es \in [1..M -> Debt] /\ ButOne(ds, es, id, M)
          BY <2>4, <2>5 DEF ButOne
        <5>0. id \in 1..M
          BY <2>3
        <5> HIDE DEF ds, es, id, k, w, d, e, T, Left, Same, Exact, Paid, V, D
        <5>2. SumOwed(es, c, to) = SumOwed(ds, c, to) + (Counts(es[id], c, to) - Counts(ds[id], c, to))
          BY <1>1, <5>0, <5>1, OwedChanges
        <5> QED BY <5>2 DEF ds, es, d, e
      <4>3. Counts(d, c, to) \in Int /\ Counts(e, c, to) \in Int
        <5>1. d.amount \in Nat /\ e.amount \in Nat
          BY <2>3, <2>4 DEF Debt
        <5> QED BY <5>1 DEF Counts
      <4>4. SumOwed(k.debts, c, to) \in Nat /\ SumOwed(w.debts, c, to) \in Nat
        BY <1>9, <2>2
      <4>5. k.left <= N /\ SumOwed(k.debts, c, to) + (N - k.left) = SumOwed(debts, c, to)
        BY <2>7
      <4>6. w.left <= N /\ SumOwed(w.debts, c, to) + (N - w.left) = SumOwed(debts, c, to)
        <5> DEFINE x == Counts(d, c, to)
                   y == Counts(e, c, to)
                   s == SumOwed(k.debts, c, to)
                   t == SumOwed(w.debts, c, to)
                   r == SumOwed(debts, c, to)
                   g == k.left
                   h == w.left
        <5>1. /\ x \in Int /\ y \in Int /\ s \in Nat /\ t \in Nat /\ r \in Nat /\ g \in Nat /\ h \in Nat
              /\ x - y = g - h /\ t = s + (y - x) /\ g <= N /\ s + (N - g) = r /\ h <= g
          BY <1>9, <2>4, <2>5, <4>1, <4>2, <4>3, <4>4, <4>5
        <5> HIDE DEF x, y, s, t, r, g, h, k, w, d, e, id, T, Left, Same, Exact, Paid, V, D
        <5>2. h <= N /\ t + (N - h) = r
          BY <5>1
        <5> QED BY <5>2 DEF t, r, h
      <4> QED BY <4>6
    <3> QED BY <3>1, <3>2
  <2>11. Paid(m + 1)
    <3> SUFFICES ASSUME w.left # 0, NEW j \in 1..(m+1), debts[order[j]].creditor = to
                 PROVE  w.debts[order[j]].status \notin Open
      OBVIOUS
    <3>1. CASE j = m + 1
      BY <2>5, <2>6, <3>1
    <3>2. CASE j # m + 1
      <4>1. j \in 1..m /\ k.left # 0
        BY <2>2, <2>4, <2>5, <3>2
      <4>2. k.debts[order[j]].status \notin Open
        BY <2>7, <4>1
      <4>3. order[j] # id /\ order[j] \in 1..M
        BY <1>2, <1>3, <2>2, <3>2, <4>1
      <4> QED BY <2>5, <4>2, <4>3
    <3> QED BY <3>1, <3>2
  <2> HIDE DEF Left, Same, Exact, Paid
  <2> QED BY <2>8, <2>9, <2>10, <2>11
<1>12. n \in T
  <2>1. T \in SUBSET Nat
    OBVIOUS
  <2> HIDE DEF T
  <2> QED BY <1>10, <1>11, <2>1, NatSetInduction
<1> DEFINE p == v[n]
<1>13. Left(n) /\ Same(n) /\ Exact(n) /\ Paid(n) /\ n \in 0..n
  BY <1>12
<1>14. \A i \in 1..M :
         debts[i].debtor # c \/ debts[i].creditor # to \/ debts[i].status \notin Open => p.debts[i] = debts[i]
  <2>1. \A i \in 1..M : i \notin OpenDebts(c) => \A j \in 1..n : order[j] # i
    BY <1>3
  <2> QED BY <1>13, <2>1 DEF OpenDebts
<1>15. p.left # 0 => SumOwed(p.debts, c, to) = 0
  <2> SUFFICES ASSUME p.left # 0 PROVE SumOwed(p.debts, c, to) = 0
    OBVIOUS
  <2>1. ASSUME NEW i \in 1..M PROVE Counts(p.debts[i], c, to) = 0
    <3> SUFFICES ASSUME p.debts[i].debtor = c, p.debts[i].creditor = to, p.debts[i].status \in Open
                 PROVE  FALSE
      BY DEF Counts
    <3>1. debts[i].debtor = c /\ debts[i].creditor = to /\ debts[i].status \in Open
      BY <1>13, <1>14
    <3>2. PICK j \in 1..n : order[j] = i
      BY <1>1, <1>2, <3>1 DEF OpenDebts
    <3> QED BY <1>13, <3>1, <3>2
  <2>2. p.debts \in [1..M -> Debt]
    BY <1>8, <1>13
  <2> DEFINE ps == p.debts
  <2> HIDE DEF ps
  <2>3. SumOwed(ps, c, to) = SumFunctionOnSet(AllCounts(ps, M, c, to), 1..M)
    BY <1>1, <2>2, OwedOverAll DEF ps
  <2>4. \A i \in 1..M : AllCounts(ps, M, c, to)[i] = 0
    BY <2>1 DEF AllCounts, ps
  <2>5. IsFiniteSet(1..M)
    BY <1>1, FS_Interval
  <2>6. SumFunctionOnSet(AllCounts(ps, M, c, to), 1..M) = 0
    <3> DEFINE f == AllCounts(ps, M, c, to)
    <3> HIDE DEF f
    <3> QED BY <2>4, <2>5, SumOfNothing DEF f
  <2> QED BY <2>3, <2>6 DEF ps
<1>16. SumOwed(p.debts, c, to) = Max({0, SumOwed(debts, c, to) - N})
  <2> DEFINE s == SumOwed(debts, c, to)
             t == SumOwed(p.debts, c, to)
             l == p.left
  <2>1. s \in Nat /\ t \in Nat /\ l \in Nat /\ l <= N /\ t + (N - l) = s /\ (l # 0 => t = 0)
    BY <1>8, <1>9, <1>13, <1>15
  <2> HIDE DEF s, t, l
  <2>2. s - N \in Int /\ 0 \in Int
    BY <2>1
  <2>3. Max({0, s - N}) = IF 0 >= s - N THEN 0 ELSE s - N
    BY <2>2, MaxOfTwo
  <2>4. t = Max({0, s - N})
    BY <2>1, <2>3
  <2> QED BY <2>4 DEF s, t
<1>17. p.debts \in [1..M -> Debt]
  BY <1>8, <1>13
<1>18. PaidWith(p.debts, c, to, N)
  BY <1>13, <1>14, <1>16, <1>17 DEF M, PaidWith
<1>19. p = ReturnOf(c, to, N)
  BY <1>7 DEF base, order, ReturnOf
<1> HIDE DEF p
<1> QED BY <1>18, <1>19

(******************************** the steps ********************************)

(* Debts by number are the rows of a table. *)
LEMMA DebtRows ==
  ASSUME NEW n \in Nat, NEW ds \in [1..n -> Debt]
  PROVE  ds \in Seq(Debt) /\ Len(ds) = n /\ DOMAIN ds = 1..n
<1>1. ds \in Seq(Debt)
  BY SeqDef
<1> QED BY <1>1, LenProperties

(* A lift takes the restrictions of one caller, if none of its debts is      *)
(* overdue.                                                                  *)
LEMMA LiftKeeps ==
  ASSUME NEW rs \in [Callers -> SUBSET Scopes], NEW ds, NEW c
  PROVE  LET m == TryLiftRestrictions(rs, ds, c) IN
         /\ m \in [Callers -> SUBSET Scopes]
         /\ \A x \in Callers :
              m[x] = rs[x] \/ (m[x] = {} /\ x = c /\ CountOverdueDebts(ds, c) = 0)
BY DEF TryLiftRestrictions

SettledKept == \A i \in DOMAIN debts : debts[i].status \notin Open => debts'[i] = debts[i]
LiftedRightly ==
  \A c \in Callers, s \in Scopes :
    s \in restrictions[c] /\ s \notin restrictions'[c] =>
      CountOverdueDebts(debts', c) = 0 \/ LiftRestriction(c, s)
OverdueRestricted ==
  \A c \in DOMAIN rules :
    CountOverdueDebts(debts', c) >= rules[c].threshold => restrictions'[c] # {}

(* What every step keeps. *)
GoodStep == IInv' /\ SettledKept /\ LiftedRightly /\ (beat' # beat => OverdueRestricted)

(* A step that touches neither debts nor restrictions nor the beat. *)
LEMMA BooksStay ==
  ASSUME IInv, UNCHANGED <<bound, beat, debts, restrictions>>,
         now' \in 0..bound.time, now <= now', restarts' \in 0..bound.restarts,
         DOMAIN rules' \subseteq Callers, \A c \in DOMAIN rules' : rules'[c] \in Rules,
         failures' \in [Callers -> History], limited' \subseteq Callers
  PROVE  GoodStep
<1>1. TypeOK' /\ OneScope'
  BY DEF IInv, TypeOK, OneScope
<1>2. DOMAIN debts = 1..Len(debts) /\ debts \in [1..Len(debts) -> Debt] /\ now \in Nat
  BY LedgerFacts DEF IInv
<1>3. bound.time \in Nat
  BY LedgerFacts DEF IInv
<1>4. OverdueIsDue'
  <2> SUFFICES ASSUME NEW i \in DOMAIN debts, debts[i].status = "overdue"
               PROVE  debts[i].due <= now'
    BY DEF OverdueIsDue
  <2>1. debts[i].due <= now /\ debts[i].due \in Nat
    BY <1>2 DEF IInv, OverdueIsDue, Debt
  <2> QED BY <1>2, <1>3, <2>1
<1>5. SettledKept /\ LiftedRightly
  BY DEF SettledKept, LiftedRightly
<1> QED BY <1>1, <1>4, <1>5 DEF GoodStep, IInv

(* A new debt (CreateDebtRecord) joins the others. *)
LEMMA CreateStep ==
  ASSUME IInv, NEW c \in Callers, NEW to \in Callers \cup {System}, NEW n \in Nat, NEW asked \in Nat,
         CreateDebtRecord(c, to, n, asked)
  PROVE  GoodStep
<1> DEFINE d == [debtor |-> c, creditor |-> to, amount |-> n, status |-> "active",
                 due |-> now + GraceOf(c, asked), attempts |-> 0]
<1>1. /\ TypeOK /\ DOMAIN debts = 1..Len(debts) /\ Len(debts) \in Nat /\ now \in Nat
      /\ debts \in Seq(Debt) /\ bound.debts \in Nat
      /\ \A x \in DOMAIN rules : rules[x] \in Rule
  BY LedgerFacts DEF IInv, TypeOK
<1>2. GraceOf(c, asked) \in Nat
  BY <1>1 DEF GraceOf, Rule
<1>3. d \in Debt
  BY <1>1, <1>2 DEF Debt, DebtStatuses
<1>4. debts' = Append(debts, d) /\ Len(debts) < bound.debts
      /\ UNCHANGED <<bound, now, beat, restrictions, rules, failures, limited, restarts>>
  BY DEF CreateDebtRecord
<1>5. d.status = "active"
  OBVIOUS
<1> HIDE DEF d
<1>6. /\ debts' \in Seq(Debt) /\ Len(debts') = Len(debts) + 1
      /\ DOMAIN debts' = 1..(Len(debts) + 1)
      /\ \A i \in 1..Len(debts) : debts'[i] = debts[i]
      /\ debts'[Len(debts) + 1] = d
  BY <1>1, <1>3, <1>4, AppendProperties, LenProperties
<1>7. TypeOK'
  BY <1>1, <1>4, <1>6 DEF TypeOK
<1>8. OneScope' /\ OverdueIsDue'
  BY <1>1, <1>4, <1>5, <1>6 DEF IInv, OneScope, OverdueIsDue
<1>9. SettledKept /\ LiftedRightly
  BY <1>1, <1>4, <1>6 DEF SettledKept, LiftedRightly
<1> QED BY <1>4, <1>7, <1>8, <1>9 DEF GoodStep, IInv

(* Debts change in place, and nobody is restricted anew. *)
LEMMA PaymentStep ==
  ASSUME IInv, NEW ds \in [1..Len(debts) -> Debt], NEW c, debts' = ds,
         \A i \in 1..Len(debts) :
           /\ debts[i].status \notin Open => ds[i] = debts[i]
           /\ ds[i].due = debts[i].due
           /\ ds[i].status = "overdue" => debts[i].status = "overdue",
         restrictions' = TryLiftRestrictions(restrictions, ds, c) \/ restrictions' = restrictions,
         UNCHANGED <<bound, now, beat, rules, failures, limited, restarts>>
  PROVE  GoodStep
<1>1. /\ TypeOK /\ DOMAIN debts = 1..Len(debts) /\ Len(debts) \in Nat
      /\ restrictions \in [Callers -> SUBSET Scopes]
  BY LedgerFacts DEF IInv, TypeOK
<1>2. ds \in Seq(Debt) /\ Len(ds) = Len(debts) /\ DOMAIN ds = 1..Len(debts)
  BY <1>1, DebtRows
<1>3. /\ restrictions' \in [Callers -> SUBSET Scopes]
      /\ \A x \in Callers : \/ restrictions'[x] = restrictions[x]
                            \/ restrictions'[x] = {} /\ CountOverdueDebts(ds, x) = 0
  <2>1. CASE restrictions' = restrictions
    BY <1>1, <2>1
  <2>2. CASE restrictions' = TryLiftRestrictions(restrictions, ds, c)
    BY <1>1, <2>2, LiftKeeps
  <2> QED BY <2>1, <2>2
<1>4. TypeOK'
  BY <1>1, <1>2, <1>3 DEF TypeOK
<1>5. OneScope' /\ OverdueIsDue'
  BY <1>1, <1>2, <1>3 DEF IInv, OneScope, OverdueIsDue, Single
<1>6. SettledKept /\ LiftedRightly
  BY <1>1, <1>2, <1>3 DEF SettledKept, LiftedRightly
<1> QED BY <1>4, <1>5, <1>6 DEF GoodStep, IInv

(* A return (RecordReturn) pays exactly what it brings. *)
LEMMA ReturnStep ==
  ASSUME IInv, NEW c, NEW to, NEW n \in Nat, RecordReturn(c, to, n)
  PROVE  /\ GoodStep
         /\ SumOwed(debts', c, to) = Max({0, SumOwed(debts, c, to) - n})
         /\ \A i \in DOMAIN debts :
              debts[i].debtor # c \/ debts[i].creditor # to => debts'[i] = debts[i]
<1> DEFINE ds == ReturnOf(c, to, n).debts
<1>1. TypeOK /\ DOMAIN debts = 1..Len(debts)
  BY LedgerFacts DEF IInv
<1>2. PaidWith(ds, c, to, n)
  BY <1>1, ReturnWorks
<1>3. /\ debts' = ds /\ restrictions' = TryLiftRestrictions(restrictions, ds, c)
      /\ UNCHANGED <<bound, now, beat, rules, failures, limited, restarts>>
  BY DEF RecordReturn, PayOrder, ReturnOf
<1> HIDE DEF ds
<1>4. /\ ds \in [1..Len(debts) -> Debt]
      /\ \A i \in 1..Len(debts) :
           /\ debts[i].status \notin Open => ds[i] = debts[i]
           /\ ds[i].due = debts[i].due
           /\ ds[i].status = "overdue" => debts[i].status = "overdue"
  BY <1>2 DEF PaidWith
<1>5. GoodStep
  BY <1>3, <1>4, PaymentStep
<1> QED BY <1>1, <1>2, <1>3, <1>5 DEF PaidWith

(* A collection by hand (ManualCollect) settles one debt or counts one attempt. *)
LEMMA CollectStep ==
  ASSUME IInv, NEW id \in DOMAIN debts, ManualCollect(id)
  PROVE  GoodStep
<1> DEFINE d == debts[id]
           done == d.creditor = System \/ Collectable(d)
           e == [d EXCEPT !.attempts = Plus1(@), !.status = IF done THEN "collected" ELSE @]
           ds == [debts EXCEPT ![id] = e]
<1>1. /\ TypeOK /\ DOMAIN debts = 1..Len(debts) /\ Len(debts) \in Nat
      /\ debts \in [1..Len(debts) -> Debt] /\ d \in Debt /\ d.attempts \in Nat
  BY LedgerFacts DEF IInv, Debt
<1>2. Plus1(d.attempts) \in Nat
  <2> DEFINE a == d.attempts
  <2>1. a \in Nat
    BY <1>1
  <2> HIDE DEF a
  <2>2. Plus1(a) \in 0..MaxCount
    BY <2>1, CountedOn
  <2> QED BY <2>2, DebtAssumption DEF a
<1>3. e \in Debt /\ e.due = d.due /\ (e.status = "overdue" => d.status = "overdue")
  <2> HIDE DEF done
  <2> QED BY <1>1, <1>2 DEF Debt, DebtStatuses
<1>4. ds = [debts EXCEPT ![id].attempts = Plus1(@), ![id].status = IF done THEN "collected" ELSE @]
  <2> HIDE DEF done
  <2> QED BY <1>1
<1>5. /\ d.status \in Open /\ debts' = ds
      /\ restrictions' = IF done THEN TryLiftRestrictions(restrictions, ds, d.debtor) ELSE restrictions
      /\ UNCHANGED <<bound, now, beat, rules, failures, limited, restarts>>
  BY <1>4 DEF ManualCollect
<1>6. /\ ds \in [1..Len(debts) -> Debt]
      /\ \A i \in 1..Len(debts) : ds[i] = IF i = id THEN e ELSE debts[i]
  <2> HIDE DEF e
  <2> QED BY <1>1, <1>3
<1> HIDE DEF e, ds, done
<1>7. \A i \in 1..Len(debts) :
        /\ debts[i].status \notin Open => ds[i] = debts[i]
        /\ ds[i].due = debts[i].due
        /\ ds[i].status = "overdue" => debts[i].status = "overdue"
  BY <1>3, <1>5, <1>6
<1>8. restrictions' = TryLiftRestrictions(restrictions, ds, d.debtor) \/ restrictions' = restrictions
  BY <1>5
<1> QED BY <1>5, <1>6, <1>7, <1>8, PaymentStep

(* The tick (runLiquidationTick), in any of its orders. *)
LEMMA TickStep ==
  ASSUME IInv, RunLiquidationTick
  PROVE  GoodStep
<1>1. PICK order \in ListOverdueDebts(debts) :
        LET k == FoldLeft(LiquidateDebt,
                   [debts |-> debts, restrictions |-> restrictions, failures |-> Remembered(1)], order)
        IN  debts' = k.debts /\ restrictions' = k.restrictions /\ failures' = k.failures
  BY DEF RunLiquidationTick
<1> DEFINE k == FoldLeft(LiquidateDebt,
                  [debts |-> debts, restrictions |-> restrictions, failures |-> Remembered(1)], order)
<1>2. /\ debts' = k.debts /\ restrictions' = k.restrictions /\ failures' = k.failures
      /\ beat' = ~beat /\ UNCHANGED <<bound, now, rules, limited, restarts>>
  BY <1>1 DEF RunLiquidationTick
<1>3. /\ TypeOK /\ DOMAIN debts = 1..Len(debts) /\ Len(debts) \in Nat
  BY LedgerFacts DEF IInv
<1>4. /\ k \in Books(Len(debts))
      /\ \A i \in DOMAIN debts : i \notin Due => k.debts[i] = debts[i]
      /\ \A i \in DOMAIN debts : k.debts[i].debtor = debts[i].debtor /\ k.debts[i].due = debts[i].due
      /\ \A c \in Callers : restrictions[c] \subseteq k.restrictions[c] /\ Single(k.restrictions[c])
      /\ \A c \in DOMAIN rules :
           CountOverdueDebts(k.debts, c) >= rules[c].threshold => k.restrictions[c] # {}
  BY TickWorks
<1> HIDE DEF k
<1>5. /\ debts' \in [1..Len(debts) -> Debt] /\ restrictions' \in [Callers -> SUBSET Scopes]
      /\ failures' \in [Callers -> History]
  BY <1>2, <1>4 DEF Books
<1>6. debts' \in Seq(Debt) /\ Len(debts') = Len(debts) /\ DOMAIN debts' = 1..Len(debts)
  BY <1>3, <1>5, DebtRows
<1>7. TypeOK'
  BY <1>2, <1>3, <1>5, <1>6 DEF TypeOK
<1>8. OneScope'
  BY <1>2, <1>4 DEF OneScope
<1>9. OverdueIsDue'
  <2> SUFFICES ASSUME NEW i \in 1..Len(debts), debts'[i].status = "overdue" PROVE debts'[i].due <= now
    BY <1>2, <1>6 DEF OverdueIsDue
  <2>1. CASE i \in Due
    BY <1>2, <1>3, <1>4, <2>1 DEF Due
  <2>2. CASE i \notin Due
    BY <1>2, <1>3, <1>4, <2>2 DEF IInv, OverdueIsDue
  <2> QED BY <2>1, <2>2
<1>10. SettledKept
  BY <1>2, <1>4 DEF SettledKept, Due
<1>11. LiftedRightly /\ OverdueRestricted
  BY <1>2, <1>4 DEF LiftedRightly, OverdueRestricted
<1> QED BY <1>7, <1>8, <1>9, <1>10, <1>11 DEF GoodStep, IInv

(* A restriction lifted by hand (LiftRestriction). *)
LEMMA LiftStep ==
  ASSUME IInv, NEW c \in Callers, NEW s \in Scopes, s \in restrictions[c], LiftRestriction(c, s)
  PROVE  GoodStep
<1>1. /\ TypeOK /\ restrictions \in [Callers -> SUBSET Scopes]
      /\ restrictions' = [restrictions EXCEPT ![c] = restrictions[c] \ {s}]
      /\ UNCHANGED <<bound, now, beat, debts, rules, failures, limited, restarts>>
  BY DEF IInv, TypeOK, LiftRestriction
<1>2. /\ restrictions' \in [Callers -> SUBSET Scopes]
      /\ restrictions'[c] = restrictions[c] \ {s}
      /\ \A x \in Callers : x # c => restrictions'[x] = restrictions[x]
  BY <1>1
<1>3. TypeOK'
  BY <1>1, <1>2 DEF TypeOK
<1>4. OneScope' /\ OverdueIsDue'
  <2>1. \A x \in Callers : restrictions'[x] \subseteq restrictions[x]
    BY <1>2
  <2>2. OneScope'
    BY <2>1 DEF IInv, OneScope, Single
  <2> QED BY <1>1, <2>2 DEF IInv, OverdueIsDue
<1>5. SettledKept
  BY <1>1 DEF SettledKept
<1>6. LiftedRightly
  <2> SUFFICES ASSUME NEW x \in Callers, NEW t \in Scopes,
                      t \in restrictions[x], t \notin restrictions'[x]
               PROVE  LiftRestriction(x, t)
    BY DEF LiftedRightly
  <2>1. x = c /\ t = s
    BY <1>2
  <2> QED BY <2>1
<1> QED BY <1>1, <1>3, <1>4, <1>5, <1>6 DEF GoodStep, IInv

(* The ledger starts empty. *)
LEMMA InitHolds == ASSUME Init PROVE IInv
<1>1. bound \in BoundSet /\ 0 \in 0..MaxCount
  BY DebtAssumption DEF Init
<1>2. debts = <<>> /\ debts \in Seq(Debt) /\ Len(debts) = 0 /\ DOMAIN debts = {}
  BY DEF Init
<1>3. DOMAIN rules = {}
  BY DEF Init
<1>4. TypeOK
  <2>1. /\ bound \in Bounds /\ now = 0 /\ beat = FALSE /\ limited = {} /\ restarts = 0
        /\ restrictions \in [Callers -> SUBSET Scopes] /\ failures \in [Callers -> History]
    BY <1>1 DEF Init, History, NoFailures
  <2>2. bound.time \in Nat /\ bound.debts \in Nat /\ bound.restarts \in Nat
    BY <1>1 DEF BoundSet
  <2>3. now \in 0..bound.time /\ restarts \in 0..bound.restarts /\ Len(debts) <= bound.debts
    BY <1>2, <2>1, <2>2
  <2> QED BY <1>2, <1>3, <2>1, <2>3 DEF TypeOK
<1>5. OneScope /\ OverdueIsDue
  BY <1>2 DEF Init, OneScope, OverdueIsDue, Single
<1> QED BY <1>4, <1>5 DEF IInv

(* Every step keeps the invariant, settled debts, restrictions that should   *)
(* stay, and restricts the overdue if it is a tick.                          *)
LEMMA NextStep == ASSUME IInv, [Next]_vars PROVE GoodStep
<1>1. /\ TypeOK /\ Debtors \subseteq Callers /\ Graces \subseteq Nat /\ SystemGrace \in Nat
      /\ bound.amounts \subseteq Nat /\ now \in Nat /\ now \in 0..bound.time
      /\ bound.time \in Nat /\ bound.restarts \in Nat /\ restarts \in 0..bound.restarts
      /\ failures \in [Callers -> History] /\ limited \subseteq Callers
      /\ DOMAIN rules \subseteq Callers /\ (\A c \in DOMAIN rules : rules[c] \in Rules)
      /\ 0 \in 0..MaxCount
  BY LedgerFacts, DebtAssumption DEF IInv, TypeOK
<1>2. CASE PostBorrow
  BY <1>1, <1>2, CreateStep DEF PostBorrow, RecordBorrow
<1>3. CASE PostReturn
  BY <1>1, <1>3, ReturnStep DEF PostReturn
<1>4. CASE PostRollbackFail \/ PostReservationExpire \/ PostForceReclaim
  <2>1. PICK c \in Debtors, n \in bound.amounts, g \in {SystemGrace, 2 * SystemGrace} :
          CreateDebtRecord(c, System, n, g)
    BY <1>4 DEF PostRollbackFail, PostReservationExpire, PostForceReclaim,
                RecordRollbackFail, RecordReservationExpire, RecordForceReclaim
  <2>2. g \in Nat /\ c \in Callers /\ n \in Nat /\ System \in Callers \cup {System}
    BY <1>1
  <2> QED BY <2>1, <2>2, CreateStep
<1>5. CASE PostCollect
  BY <1>5, CollectStep DEF PostCollect
<1>6. CASE PostLift
  BY <1>1, <1>6, LiftStep DEF PostLift
<1>7. CASE PostRule
  <2>1. PICK c \in Debtors, r \in Rules : SetLiquidationRule(c, r)
    BY <1>7 DEF PostRule
  <2>2. /\ rules' = [x \in DOMAIN rules \cup {c} |-> IF x = c THEN r ELSE rules[x]]
        /\ UNCHANGED <<bound, now, beat, debts, restrictions, failures, limited, restarts>>
    BY <2>1 DEF SetLiquidationRule
  <2>3. DOMAIN rules' \subseteq Callers /\ \A x \in DOMAIN rules' : rules'[x] \in Rules
    BY <1>1, <2>2
  <2> QED BY <1>1, <2>2, <2>3, BooksStay
<1>8. CASE DeleteRule
  <2>1. PICK c \in DOMAIN rules : DeleteLiquidationRule(c)
    BY <1>8 DEF DeleteRule
  <2>2. /\ rules' = [x \in DOMAIN rules \ {c} |-> rules[x]]
        /\ UNCHANGED <<bound, now, beat, debts, restrictions, failures, limited, restarts>>
    BY <2>1 DEF DeleteLiquidationRule, Restrict
  <2>3. DOMAIN rules' \subseteq Callers /\ \A x \in DOMAIN rules' : rules'[x] \in Rules
    BY <1>1, <2>2
  <2> QED BY <1>1, <2>2, <2>3, BooksStay
<1>9. CASE RunLiquidationTick
  BY <1>9, TickStep
<1>10. CASE \E c \in Debtors : CallerBound(c)
  <2>1. PICK c \in Debtors : CallerBound(c)
    BY <1>10
  <2>2. /\ UNCHANGED <<bound, now, beat, debts, restrictions, rules, restarts>>
        /\ failures' \in [Callers -> History] /\ limited' \subseteq Callers
    BY <1>1, <2>1 DEF CallerBound
  <2> QED BY <1>1, <2>2, BooksStay
<1>11. CASE Restart
  <2>1. /\ restarts' \in 0..bound.restarts /\ failures' \in [Callers -> History]
        /\ UNCHANGED <<bound, now, beat, debts, restrictions, rules, limited>>
    <3>1. PICK n \in 1..Window + 1 : failures' = Remembered(n)
      BY <1>11 DEF Restart
    <3>2. n \in Nat
      BY DebtAssumption
    <3>3. failures' \in [Callers -> History]
      BY <1>1, <3>1, <3>2, RememberedIs
    <3> QED BY <1>1, <1>11, <3>3 DEF Restart
  <2> QED BY <1>1, <2>1, BooksStay
<1>12. CASE TimePasses
  <2>1. /\ now' \in 0..bound.time /\ now <= now'
        /\ UNCHANGED <<bound, beat, debts, restrictions, rules, failures, limited, restarts>>
    BY <1>1, <1>12 DEF TimePasses
  <2> QED BY <1>1, <2>1, BooksStay
<1>13. CASE UNCHANGED vars
  <2>1. UNCHANGED <<bound, now, beat, debts, restrictions, rules, failures, limited, restarts>>
    BY <1>13 DEF vars
  <2>2. now <= now'
    BY <1>1, <2>1
  <2> QED BY <1>1, <2>1, <2>2, BooksStay
<1> QED BY <1>2, <1>3, <1>4, <1>5, <1>6, <1>7, <1>8, <1>9, <1>10, <1>11, <1>12, <1>13 DEF Next

(* The invariant: the tables are well typed, no caller has two restrictions, *)
(* and what is overdue was due (MarkOverdue only marks what                  *)
(* ListOverdueDebts lists).                                                  *)
THEOREM LedgerInvariant == Spec => []IInv
<1>1. Init => IInv
  BY InitHolds
<1>2. IInv /\ [Next]_vars => IInv'
  BY NextStep DEF GoodStep
<1> QED BY <1>1, <1>2, PTL DEF Spec

(* However the rules change between two ticks, nobody has two restrictions   *)
(* at once (applyRestrictionsIfNeeded), and the tables are well typed.       *)
THEOREM LedgerSound == Spec => []LedgerIsSound
<1>1. ASSUME NEW S, Single(S) PROVE Cardinality(S) <= 1
  <2>1. CASE S = {}
    BY <2>1, FS_EmptySet
  <2>2. CASE S # {}
    <3>1. PICK s : S = {s}
      BY <1>1, <2>2 DEF Single
    <3>2. Cardinality(S) = 1
      BY <3>1, FS_Singleton
    <3> QED BY <3>2
  <2> QED BY <2>1, <2>2
<1>2. IInv => LedgerIsSound
  BY <1>1 DEF IInv, OneScope, LedgerIsSound, OneRestriction
<1> QED BY <1>2, LedgerInvariant, PTL

(* After a tick every caller with as many overdue debts as its rule takes is *)
(* restricted, whatever was marked, collected and written off before it in   *)
(* that tick; and a restriction goes by payment or by hand only.             *)
THEOREM RestrictionsFollow == Spec => RestrictionsFollowDebts
<1>1. IInv /\ [Next]_vars =>
        [beat' /= beat =>
           \A c \in DOMAIN rules :
             CountOverdueDebts(debts', c) >= rules[c].threshold => restrictions'[c] /= {}]_vars
  BY NextStep DEF GoodStep, OverdueRestricted
<1>2. IInv /\ [Next]_vars =>
        [\A c \in Callers, s \in Scopes :
           s \in restrictions[c] /\ s \notin restrictions'[c] =>
             CountOverdueDebts(debts', c) = 0 \/ LiftRestriction(c, s)]_vars
  BY NextStep DEF GoodStep, LiftedRightly
<1> QED BY <1>1, <1>2, LedgerInvariant, PTL DEF Spec, RestrictionsFollowDebts, OverdueIsRestricted,
           LiftedWhenClear

(* A return lowers what is owed to that creditor by exactly what it brings,  *)
(* or to nothing, over however many debts RecordReturn spreads it and in     *)
(* whatever order they come; no other debt changes; and nothing settled is   *)
(* touched again.                                                            *)
THEOREM ReturnsExact == Spec => DebtsAreExact
<1>1. IInv /\ [Next]_vars =>
        [\A c \in Callers, to \in Callers \cup {System}, n \in bound.amounts :
           RecordReturn(c, to, n) =>
             /\ SumOwed(debts', c, to) = Max({0, SumOwed(debts, c, to) - n})
             /\ \A i \in DOMAIN debts :
                  debts[i].debtor /= c \/ debts[i].creditor /= to => debts'[i] = debts[i]]_vars
  <2> SUFFICES ASSUME IInv, NEW c, NEW to, NEW n \in bound.amounts, RecordReturn(c, to, n)
               PROVE  /\ SumOwed(debts', c, to) = Max({0, SumOwed(debts, c, to) - n})
                      /\ \A i \in DOMAIN debts :
                           debts[i].debtor /= c \/ debts[i].creditor /= to => debts'[i] = debts[i]
    OBVIOUS
  <2>1. n \in Nat
    BY LedgerFacts DEF IInv
  <2> QED BY <2>1, ReturnStep
<1>2. IInv /\ [Next]_vars =>
        [\A i \in DOMAIN debts : debts[i].status \notin Open => debts'[i] = debts[i]]_vars
  BY NextStep DEF GoodStep, SettledKept
<1> QED BY <1>1, <1>2, LedgerInvariant, PTL DEF Spec, DebtsAreExact, ReturnsAreExact,
           SettledStaysSettled
=============================================================================
