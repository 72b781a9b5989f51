----------------------------- MODULE DebtLedger -----------------------------
(***************************************************************************)
(* The debt ledger (internal/debt): what callers owe each other and the    *)
(* system, the tick that marks debts overdue, collects them or writes them *)
(* off, and the restrictions it puts on callers with too many of them.     *)
(* Everything is in tables and under one mutex: an operation is an action. *)
(***************************************************************************)
EXTENDS Rows, SequencesExt

CONSTANTS
  Callers, System,  \* the callers; the creditor that is no caller
  Debtors,          \* the callers that get into debt
  Rules,            \* the liquidation rules that may be set
  Graces,           \* the grace periods asked for
  SystemGrace,      \* the grace of debts to the system without a rule
  DefaultRetries,   \* attempts before giving up without a rule: 3
  DefaultProtection, \* failures before giving up without a rule: 5
  Window,           \* the ticks before this one whose failures count: 300 seconds
  Bounds,           \* the bounds a behaviour may keep to
  MaxCount          \* where attempts and failures stop being counted

Scopes == {"lock", "token", "orchestration", "all"}
RestrictionTypes == {"reject", "degrade", "throttle"}
DebtStatuses == {"active", "collected", "overdue", "written_off"}
Open == {"active", "overdue"}

\* A rule: the grace it gives, how many overdue debts it takes, what is then
\* forbidden, and when collecting is given up.
Rule == [grace : Nat \ {0}, threshold : Nat \ {0}, scope : Scopes,
         retries : Nat \ {0}, protection : Nat \ {0}]

\* What a behaviour keeps to: the end of its clock, the debts ever recorded,
\* how often ticks are left out, the amounts.
BoundSet == [time : Nat, debts : Nat, restarts : Nat, amounts : SUBSET (Nat \ {0})]

ASSUME DebtAssumption ==
  /\ Rules \subseteq Rule
  /\ System \notin Callers /\ Debtors \subseteq Callers
  /\ Bounds \subseteq BoundSet /\ Graces \subseteq Nat \ {0} /\ SystemGrace \in Nat
  /\ MaxCount \in Nat /\ Window \in Nat
  /\ DefaultRetries \in 1..MaxCount /\ DefaultProtection \in 1..MaxCount
  /\ \A r \in Rules : r.retries <= MaxCount /\ r.protection <= MaxCount

VARIABLES
  bound,         \* the bounds of this behaviour: they never change
  now,           \* the clock
  beat,          \* changes with every liquidation tick
  debts,         \* the debt records, by id
  restrictions,  \* caller -> the scopes of its active restrictions
  rules,         \* caller -> its rule, in memory and in the table
  failures,      \* caller -> its failed collections, of each tick in the window
  limited,       \* the callers the rate limiter knows
  restarts       \* how often ticks were left out

vars == <<bound, now, beat, debts, restrictions, rules, failures, limited, restarts>>

Debt == [debtor : Callers, creditor : Callers \cup {System}, amount : Nat,
         status : DebtStatuses, due : Nat, attempts : Nat]

Plus1(n) == Min({n + 1, MaxCount})

\* The failures of the latest tick at 0, those of the i-th before it at i.
History == [0..Window -> 0..MaxCount]
NoFailures == [i \in 0..Window |-> 0]

\* What is left of the failures n ticks later: those within the window.
Remembered(n) ==
  [c \in Callers |-> [i \in 0..Window |-> IF i < n THEN 0 ELSE failures[c][i - n]]]

Failed(h) == [h EXCEPT ![0] = Plus1(@)]

CountCollectFailures(h) == SumFunction(h)

-----------------------------------------------------------------------------
\* SELECT ... WHERE debtor = ? AND status = ? ORDER BY id DESC
ListDebtRecords(ds, c, s) ==
  Reverse(Keep([i \in DOMAIN ds |-> i], {i \in DOMAIN ds : ds[i].debtor = c /\ ds[i].status = s}))

\* SELECT ... WHERE status IN ('active', 'overdue') AND due_at <= ? ORDER BY
\* due_at: debts due at the same moment come in any order.
ListOverdueDebts(ds) ==
  {order \in SetToSeqs({i \in DOMAIN ds : ds[i].status \in Open /\ ds[i].due <= now}) :
     \A i, j \in DOMAIN order : i < j => ds[order[i]].due <= ds[order[j]].due}

CountOverdueDebts(ds, c) ==
  Cardinality({i \in DOMAIN ds : ds[i].debtor = c /\ ds[i].status = "overdue"})

SumOwed(ds, c, to) ==
  SumFunctionOnSet([i \in DOMAIN ds |-> ds[i].amount],
    {i \in DOMAIN ds : ds[i].debtor = c /\ ds[i].creditor = to /\ ds[i].status \in Open})

GraceOf(c, asked) == IF c \in DOMAIN rules THEN rules[c].grace ELSE asked

\* A new debt, due when the debtor's grace is over.
CreateDebtRecord(c, to, n, asked) ==
  LET due == now + GraceOf(c, asked)
  IN /\ Len(debts) < bound.debts
     /\ due <= bound.time
     /\ debts' = Append(debts, [debtor |-> c, creditor |-> to, amount |-> n,
                                status |-> "active", due |-> due, attempts |-> 0])
     /\ UNCHANGED <<bound, now, beat, restrictions, rules, failures, limited, restarts>>

RecordBorrow(c, to, n, asked) == CreateDebtRecord(c, to, n, asked)
RecordRollbackFail(c, n) == CreateDebtRecord(c, System, n, SystemGrace)
RecordReservationExpire(c, n) == CreateDebtRecord(c, System, n, SystemGrace)
RecordForceReclaim(c, n) == CreateDebtRecord(c, System, n, 2 * SystemGrace)

\* A lift that only looks at the debts not yet overdue.
LiftWhenNoneActive(rs, ds, c) ==
  IF ListDebtRecords(ds, c, "active") = <<>> THEN [rs EXCEPT ![c] = {}] ELSE rs

\* The restrictions of a caller without an overdue debt go.
TryLiftRestrictions(rs, ds, c) ==
  IF CountOverdueDebts(ds, c) = 0 THEN [rs EXCEPT ![c] = {}] ELSE rs

\* A payment that does not get smaller with what it pays.
PayAgain(to, k, id) ==
  LET d == k.debts[id]
  IN IF k.left = 0 \/ d.creditor /= to THEN k
     ELSE IF d.amount <= k.left
          THEN [k EXCEPT !.debts[id].status = "collected"]
          ELSE [k EXCEPT !.left = 0, !.debts[id].amount = @ - k.left]

\* What is left of a return pays the next debt to that creditor, all of it or
\* a part.
Pay(to, k, id) ==
  LET d == k.debts[id]
  IN IF k.left = 0 \/ d.creditor /= to THEN k
     ELSE IF d.amount <= k.left
          THEN [k EXCEPT !.left = @ - d.amount, !.debts[id].status = "collected"]
          ELSE [k EXCEPT !.left = 0, !.debts[id].amount = @ - k.left]

\* Active debts are paid before overdue ones, the newest first.
RecordReturn(c, to, n) ==
  LET order == ListDebtRecords(debts, c, "active") \o ListDebtRecords(debts, c, "overdue")
      paid == FoldLeft(LAMBDA k, id : Pay(to, k, id), [debts |-> debts, left |-> n], order)
  IN /\ debts' = paid.debts
     /\ restrictions' = TryLiftRestrictions(restrictions, paid.debts, c)
     /\ UNCHANGED <<bound, now, beat, rules, failures, limited, restarts>>

-----------------------------------------------------------------------------
\* The books the tick works on.
Retries(c) == IF c \in DOMAIN rules THEN rules[c].retries ELSE DefaultRetries
Protection(c) == IF c \in DOMAIN rules THEN rules[c].protection ELSE DefaultProtection

MarkOverdue(k, id) ==
  IF k.debts[id].status = "active" THEN [k EXCEPT !.debts[id].status = "overdue"] ELSE k

WriteOffDebt(k, id) == [k EXCEPT !.debts[id].status = "written_off"]

\* The rate limiter gives the tokens back when it knows the debtor; nobody
\* gives anything back to the system.
Collectable(d) == d.creditor /= System /\ d.debtor \in limited

\* A collection that writes nothing off.
TryAgainAndAgain(k, id) ==
  LET d == k.debts[id]
  IN IF Collectable(d)
     THEN [k EXCEPT !.debts[id].attempts = Plus1(@), !.debts[id].status = "collected"]
     ELSE [k EXCEPT !.debts[id].attempts = Plus1(@), !.failures[d.debtor] = Failed(@)]

TryCollectDebt(k, id) ==
  LET d == k.debts[id]
  IN IF /\ d.attempts >= Retries(d.debtor)
        /\ CountCollectFailures(k.failures[d.debtor]) >= Protection(d.debtor)
     THEN WriteOffDebt(k, id)
     ELSE IF Collectable(d)
          THEN [k EXCEPT !.debts[id].attempts = Plus1(@), !.debts[id].status = "collected"]
          ELSE [k EXCEPT !.debts[id].attempts = Plus1(@), !.failures[d.debtor] = Failed(@)]

\* A restriction for a restricted caller too.
RestrictAgain(k, c) ==
  IF /\ c \in DOMAIN rules
     /\ CountOverdueDebts(k.debts, c) >= rules[c].threshold
  THEN [k EXCEPT !.restrictions[c] = @ \cup {rules[c].scope}]
  ELSE k

\* A caller with as many overdue debts as its rule takes is restricted, once.
ApplyRestrictionsIfNeeded(k, c) ==
  IF /\ c \in DOMAIN rules
     /\ CountOverdueDebts(k.debts, c) >= rules[c].threshold
     /\ k.restrictions[c] = {}
  THEN [k EXCEPT !.restrictions[c] = {rules[c].scope}]
  ELSE k

LiquidateDebt(k, id) ==
  ApplyRestrictionsIfNeeded(TryCollectDebt(MarkOverdue(k, id), id), k.debts[id].debtor)

RunLiquidationTick ==
  /\ beat' = ~beat
  /\ \E order \in ListOverdueDebts(debts) :
     \E k \in {FoldLeft(LiquidateDebt,
                 [debts |-> debts, restrictions |-> restrictions, failures |-> Remembered(1)],
                 order)} :
       /\ debts' = k.debts
       /\ restrictions' = k.restrictions
       /\ failures' = k.failures
  /\ UNCHANGED <<bound, now, rules, limited, restarts>>

\* A collection asked for by hand: a debt to the system is simply settled.
ManualCollect(id) ==
  LET d == debts[id]
      done == d.creditor = System \/ Collectable(d)
      ds == [debts EXCEPT ![id].attempts = Plus1(@),
                          ![id].status = IF done THEN "collected" ELSE @]
  IN /\ d.status \in Open
     /\ debts' = ds
     /\ restrictions' = IF done THEN TryLiftRestrictions(restrictions, ds, d.debtor)
                                ELSE restrictions
     /\ UNCHANGED <<bound, now, beat, rules, failures, limited, restarts>>

SetLiquidationRule(c, r) ==
  /\ rules' = [x \in DOMAIN rules \cup {c} |-> IF x = c THEN r ELSE rules[x]]
  /\ UNCHANGED <<bound, now, beat, debts, restrictions, failures, limited, restarts>>

DeleteLiquidationRule(c) ==
  /\ rules' = Restrict(rules, DOMAIN rules \ {c})
  /\ UNCHANGED <<bound, now, beat, debts, restrictions, failures, limited, restarts>>

LiftRestriction(c, s) ==
  /\ restrictions' = [restrictions EXCEPT ![c] = @ \ {s}]
  /\ UNCHANGED <<bound, now, beat, debts, rules, failures, limited, restarts>>

\* What the other parts ask before they let a caller in.
CheckRestriction(c, s) == restrictions[c] \cap {"all", s} /= {}

-----------------------------------------------------------------------------
\* Ticks are left out, one or more: the server was down, or the ticker late.
\* A start reads back the rules, which are all it keeps in memory.
Restart ==
  /\ restarts < bound.restarts
  /\ restarts' = restarts + 1
  /\ \E n \in 1..Window + 1 : failures' = Remembered(n)
  /\ UNCHANGED <<bound, now, beat, debts, restrictions, rules, limited>>

\* The rate limiter binds a caller, for good.
CallerBound(c) ==
  /\ limited' = limited \cup {c}
  /\ UNCHANGED <<bound, now, beat, debts, restrictions, rules, failures, restarts>>

TimePasses ==
  /\ now < bound.time
  /\ now' = now + 1
  /\ UNCHANGED <<bound, beat, debts, restrictions, rules, failures, limited, restarts>>

Init ==
  /\ bound \in Bounds
  /\ now = 0 /\ beat = FALSE
  /\ debts = <<>>
  /\ restrictions = [c \in Callers |-> {}]
  /\ rules = <<>>
  /\ failures = [c \in Callers |-> NoFailures]
  /\ limited = {}
  /\ restarts = 0

\* The requests of the HTTP interface.
PostBorrow ==
  \E c \in Debtors, to \in Callers \cup {System}, n \in bound.amounts, g \in Graces :
    RecordBorrow(c, to, n, g)
PostReturn ==
  \E c \in Debtors, to \in Callers \cup {System}, n \in bound.amounts : RecordReturn(c, to, n)
PostRollbackFail == \E c \in Debtors, n \in bound.amounts : RecordRollbackFail(c, n)
PostReservationExpire == \E c \in Debtors, n \in bound.amounts : RecordReservationExpire(c, n)
PostForceReclaim == \E c \in Debtors, n \in bound.amounts : RecordForceReclaim(c, n)
PostCollect == \E id \in DOMAIN debts : ManualCollect(id)
PostLift == \E c \in Debtors, s \in Scopes : s \in restrictions[c] /\ LiftRestriction(c, s)
PostRule == \E c \in Debtors, r \in Rules : SetLiquidationRule(c, r)
DeleteRule == \E c \in DOMAIN rules : DeleteLiquidationRule(c)

Next ==
  \/ PostBorrow \/ PostReturn \/ PostRollbackFail \/ PostReservationExpire
  \/ PostForceReclaim \/ PostCollect \/ PostLift \/ PostRule \/ DeleteRule
  \/ RunLiquidationTick
  \/ \E c \in Debtors : CallerBound(c)
  \/ Restart
  \/ TimePasses

\* The ticker of one second never stops for good, and time goes on.
TickerRuns == []<>beat /\ []<>~beat

Spec == Init /\ [][Next]_vars /\ TickerRuns /\ WF_vars(TimePasses)

-----------------------------------------------------------------------------
\* The types of the tables.
TypeOK ==
  /\ bound \in Bounds
  /\ now \in 0..bound.time /\ beat \in BOOLEAN /\ restarts \in 0..bound.restarts
  /\ debts \in Seq(Debt) /\ Len(debts) <= bound.debts
  /\ restrictions \in [Callers -> SUBSET Scopes]
  /\ DOMAIN rules \subseteq Callers /\ \A c \in DOMAIN rules : rules[c] \in Rules
  /\ failures \in [Callers -> History]
  /\ limited \subseteq Callers

\* However the rules change between two ticks, nobody has two restrictions at
\* once: one lift frees a caller.
OneRestriction == \A c \in Callers : Cardinality(restrictions[c]) <= 1

\* A return pays exactly what it brings: the debtor owes that creditor so much
\* less, or nothing any more, over however many debts it had to be spread, and
\* nobody else's debts have changed.
ReturnsAreExact ==
  [][\A c \in Callers, to \in Callers \cup {System}, n \in bound.amounts :
       RecordReturn(c, to, n) =>
         /\ SumOwed(debts', c, to) = Max({0, SumOwed(debts, c, to) - n})
         /\ \A i \in DOMAIN debts :
              debts[i].debtor /= c \/ debts[i].creditor /= to => debts'[i] = debts[i]]_vars

\* A debt that was collected or written off is not touched again.
SettledStaysSettled ==
  [][\A i \in DOMAIN debts : debts[i].status \notin Open => debts'[i] = debts[i]]_vars

\* After a tick every caller with as many overdue debts as its rule takes is
\* restricted, also when marking, collecting and writing off of several debts
\* met in that tick.
OverdueIsRestricted ==
  [][beat' /= beat =>
       \A c \in DOMAIN rules :
         CountOverdueDebts(debts', c) >= rules[c].threshold => restrictions'[c] /= {}]_vars

\* A caller gets rid of a restriction by paying all it is overdue with, or by
\* hand, and in no other way.
LiftedWhenClear ==
  [][\A c \in Callers, s \in Scopes :
       s \in restrictions[c] /\ s \notin restrictions'[c] =>
         CountOverdueDebts(debts', c) = 0 \/ LiftRestriction(c, s)]_vars

\* Failures are forgotten while collecting goes on: a rule that asks for more
\* of them than ticks there are in the window may never see so many.
WithinWindow(i) ==
  i \in DOMAIN debts => Protection(debts[i].debtor) <= Window

\* No debt stays open for ever whose debtor's rule does not ask for more
\* failures than one debt has in the window, from some time on: it is paid,
\* collected, or given up, whatever the rules become and although ticks may be
\* left out.
DebtsEnd ==
  \A i \in UNION {1..k.debts : k \in Bounds} :
    <>[]WithinWindow(i) =>
      ((i \in DOMAIN debts /\ debts[i].status \in Open)
         ~> (i \in DOMAIN debts /\ debts[i].status \notin Open))

\* The ledger is well formed and no caller is restricted twice over.
LedgerIsSound == TypeOK /\ OneRestriction

\* A debt goes down by what is returned, and is not touched once it is
\* settled.
DebtsAreExact == ReturnsAreExact /\ SettledStaysSettled

\* A debt is as high as what was not returned, and ends unless its debtor's
\* rule asks for more failures than are remembered.
DebtsAreSettled == DebtsAreExact /\ DebtsEnd

\* Restrictions follow debts: a tick leaves nobody unrestricted who is
\* overdue with too many, and a restriction is lifted when none is overdue
\* or by hand.
RestrictionsFollowDebts == OverdueIsRestricted /\ LiftedWhenClear
=============================================================================
