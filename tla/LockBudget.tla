------------------------------ MODULE LockBudget ------------------------------
(***************************************************************************)
(* Lock budgets (internal/lockbudget) and rate alerts (internal/ratealert):*)
(* every second a caller holds a lock costs it a unit of its budget for    *)
(* the period.  A tick meters what is held; periods end with a bill, and   *)
(* what was overdrawn is taken from the next one or, when that cannot pay  *)
(* it, becomes arrears which bar the caller from new locks.  Callers that  *)
(* use up too much in a short time are frozen.                             *)
(*                                                                         *)
(* One mutex covers every operation, so every operation is one action; but *)
(* the lock manager calls in three steps of a handler of its own, and      *)
(* ticks and requests come between what it did and what it reports.        *)
(***************************************************************************)
EXTENDS Integers, Sequences, FiniteSets, SequencesExt, FiniteSetsExt

CONSTANTS
  Callers,
  NoCaller,         \* the holder of a free lock
  Locks,
  Gold, Bronze,     \* callers of good and of bad reputation
  None,             \* no row, no record
  Bounds            \* the bounds a behaviour may keep to

Budget == [limit : Nat \ {0}, overdraft : Nat, period : Nat \ {0}]
Rule == [window : Nat \ {0}, max : Nat \ {0}, freeze : Nat \ {0}]

\* What a behaviour keeps to: the parts of a second the clock tells apart and
\* where it ends, who asks, the locks, budgets and rules asked for, the seconds
\* of a lease, the amounts moved, how often a change is asked for, and the ends
\* of the process.
BoundSet == [second : Nat \ {0}, time : Nat, callers : SUBSET Callers, locks : SUBSET Locks,
             budgets : SUBSET Budget, rules : SUBSET Rule, secs : SUBSET (Nat \ {0}),
             amounts : SUBSET (Nat \ {0}), requests : Nat, restarts : Nat]

ASSUME LockBudgetAssumption ==
  /\ IsFiniteSet(Callers) /\ IsFiniteSet(Locks)
  /\ NoCaller \notin Callers /\ Gold \subseteq Callers /\ Bronze \subseteq Callers
  /\ Bounds \subseteq BoundSet

VARIABLES
  bound,     \* the bounds of this behaviour: they never change
  beat,      \* changes with every tick of the meter
  now,       \* the clock
  books,     \* caller -> everything that is kept of it
  leases,    \* lock -> its lease, the lock manager's table
  call,      \* what the lock manager did and has yet to report
  requests,  \* requests for a change so far
  restarts   \* ends of the process so far

budgetVars == <<bound, beat, now, books, leases, call, requests, restarts>>

Time == 0..bound.time
Second == bound.second

\* A lock somebody pays for, and up to when it has.
Holding == [expires : Nat, metered : Nat]

Account == [limit : Nat, overdraft : Nat, period : Nat \ {0}, start : Nat, end : Nat,
            consumed : Nat, current : Nat, penalty : Nat, in : Nat, out : Nat]

Alerts == [rule : Rule, window : Seq([at : Nat, units : Nat \ {0}]), count : Nat, last : Int]

\* In memory: the account with its holdings, and the alerts.  In tables: the
\* budget, the rows of the holdings, the arrears (0: none), the end of the
\* newest bill, the rule, the freeze.  charged is kept for the properties: what
\* the caller paid, without penalties, for its last hold of each lock.
Book == [account : Account \cup {None}, holdings : [Locks -> Holding \cup {None}],
         alerts : Alerts \cup {None},
         budget : Budget \cup {None}, rows : [Locks -> Holding \cup {None}], arrears : Nat,
         billed : Nat, rule : Rule \cup {None}, frozen : BOOLEAN,
         charged : [Locks -> [since : Nat, units : Nat]]]

\* None is none of the rows and records.
ASSUME NoneAssumption ==
  None \notin Account \cup Holding \cup Alerts \cup Budget \cup Rule

Larger(a, b) == IF a > b THEN a ELSE b
Orders == SetToSeqs(Locks)   \* the orders in which a map of holdings is walked

NewAccount(b, t) ==
  [limit |-> b.limit, overdraft |-> b.overdraft, period |-> b.period, start |-> t,
   end |-> t + b.period * Second, consumed |-> 0, current |-> 0, penalty |-> 0, in |-> 0, out |-> 0]
NewAlerts(r, t) ==
  [rule |-> r, window |-> << >>, count |-> 0, last |-> t - 2 * r.window * Second]

-----------------------------------------------------------------------------
(* Rate alerts *)

\* What is left of a window when what lies before the cutoff is cut off its
\* front.
From(window, cutoff) ==
  LET late == {i \in DOMAIN window : window[i].at >= cutoff}
  IN IF late = {} THEN << >> ELSE SubSeq(window, Min(late), Len(window))

Alert(b, at) ==
  LET n == b.alerts.count + 1
  IN [b EXCEPT !.alerts.count = n, !.alerts.last = at, !.frozen = n >= b.alerts.rule.freeze]

RecordConsumption(b, n, at) ==
  IF b.alerts = None \/ b.frozen THEN b
  ELSE LET r == b.alerts.rule
           w == From(Append(b.alerts.window, [at |-> at, units |-> n]), at - r.window * Second)
           recorded == [b EXCEPT !.alerts.window = w]
           total == FoldLeft(LAMBDA sum, x : sum + x.units, 0, w)
       IN IF total >= r.max /\ 2 * (at - b.alerts.last) >= r.window * Second
          THEN Alert(recorded, at)
          ELSE recorded

-----------------------------------------------------------------------------
(* Charging and metering, one caller's book at a time *)

\* Half a unit more for each that is overdrawn, rounded up.
Penalty(a, units) ==
  LET over == units - Larger(a.limit - a.consumed, 0)
  IN IF a.overdraft > 0 /\ over > 0 THEN (over + 1) \div 2 ELSE 0

Charge(b, l, units) ==
  LET p == Penalty(b.account, units)
  IN [b EXCEPT !.account.consumed = @ + units + p, !.account.penalty = @ + p,
               !.charged[l].units = @ + units]

Overdraw(b) ==
  IF b.account.consumed > b.account.limit
  THEN [b EXCEPT !.account.current = b.account.consumed - b.account.limit]
  ELSE b

\* Seeded fault: only the memory knows.
MeteredInMemory(b, l, t) == [b EXCEPT !.holdings[l].metered = t]

Metered(b, l, t) == [b EXCEPT !.holdings[l].metered = t, !.rows[l].metered = t]

Drop(b, l) == [b EXCEPT !.holdings[l] = None, !.rows[l] = None]

ChargeAndRecord(b, l, units, at) ==
  RecordConsumption(Overdraw(Charge(b, l, units)), units + Penalty(b.account, units), at)

MeterHolding(b, l, t, inArrears) ==
  LET h == b.holdings[l]
      units == (t - h.metered) \div Second
  IN CASE h = None -> b
       [] h # None /\ h.expires <= t -> Drop(b, l)
       [] h # None /\ h.expires > t /\ inArrears -> Metered(b, l, t)
       [] h # None /\ h.expires > t /\ ~ inArrears /\ units > 0 ->
            Metered(ChargeAndRecord(b, l, units, t), l, h.metered + units * Second)
       [] OTHER -> b

MeterCaller(b, t, order, inArrears) ==
  FoldLeft(LAMBDA x, l : MeterHolding(x, l, t, inArrears), b, order)

\* What is left of a second is dropped, and the last lock of an expired lease
\* is charged as well.
FinalizeHolding(b, l, end, inArrears) ==
  LET h == b.holdings[l]
      units == (end - h.metered) \div Second
  IN CASE h = None -> b
       [] h # None /\ h.metered < end /\ inArrears -> Metered(b, l, end)
       [] h # None /\ ~ inArrears /\ units > 0 -> Metered(Charge(b, l, units), l, end)
       [] OTHER -> b

Carry(a) == Larger(a.consumed + a.out - a.limit - a.in, 0)

Bill(b, end) ==
  LET carry == Carry(b.account)
  IN [b EXCEPT !.billed = end,
               !.arrears = IF carry > b.account.limit THEN carry - b.account.limit ELSE @]

\* Seeded fault: a caller in arrears is charged and billed as any other.
FinalizeAlways(b, end, order, inArrears) ==
  Bill(FoldLeft(LAMBDA x, l : FinalizeHolding(x, l, end, FALSE), b, order), end)

FinalizeCurrentPeriod(b, end, order, inArrears) ==
  LET charged == FoldLeft(LAMBDA x, l : FinalizeHolding(x, l, end, inArrears), b, order)
  IN IF inArrears THEN charged ELSE Bill(charged, end)

\* Holdings are taken to be paid up to t, in memory only.
PaidUpTo(b, t) ==
  [b EXCEPT !.holdings = [l \in Locks |-> IF @[l] = None THEN None ELSE [@[l] EXCEPT !.metered = t]]]

\* The periods that began since the last one ended.
PeriodsToAdvance(a, t) ==
  LET elapsed == (t - a.end) \div Second
  IN IF elapsed > a.period THEN (elapsed + a.period - 1) \div a.period ELSE 1

\* Seeded fault: the next period begins where the last one ended, and ends there.
NextPeriodSameEnd(a, t, carry) == [NewAccount(a, a.end) EXCEPT !.end = a.end, !.consumed = carry]

NextPeriod(a, t, carry) ==
  LET start == a.end + (PeriodsToAdvance(a, t) - 1) * a.period * Second
  IN [NewAccount(a, start) EXCEPT !.consumed = carry]

CheckPeriodReset(b, t, order, inArrears) ==
  IF t < b.account.end THEN b
  ELSE LET f == FinalizeCurrentPeriod(b, b.account.end, order, inArrears)
           carry == IF inArrears THEN 0 ELSE f.account.current + f.account.penalty
       IN PaidUpTo([f EXCEPT !.account = NextPeriod(f.account, t, carry)], t)

RefreshCaller(b, t, order) ==
  LET inArrears == b.arrears > 0
  IN MeterCaller(CheckPeriodReset(b, t, order, inArrears), t, order, inArrears)

-----------------------------------------------------------------------------
(* What the lock manager calls *)

NoLease == [holder |-> NoCaller, until |-> 0]

HasAccount(c) == books[c].account # None

\* One request more.
Asked == requests < bound.requests /\ requests' = requests + 1

\* Looking at a caller brings its book up to date.
Refreshed(c, order) == IF HasAccount(c) THEN RefreshCaller(books[c], now, order) ELSE books[c]

EffectiveOverdraftLimit(c, a) == IF c \in Gold THEN (3 * a.overdraft) \div 2 ELSE a.overdraft

\* Arrears and freezes refuse before the book is brought up to date.
CheckAcquire(c, b) ==
  HasAccount(c) =>
    /\ books[c].arrears = 0 /\ ~ books[c].frozen
    /\ b.account.consumed < b.account.limit + EffectiveOverdraftLimit(c, b.account)

\* The lock manager asks and gives the lock to the caller; that the caller
\* holds it is reported next.
AcquireLease(c, l, secs) ==
  /\ call = None /\ leases[l] = NoLease
  /\ Asked
  /\ \E order \in Orders :
       LET b == Refreshed(c, order)
       IN CheckAcquire(c, b) /\ books' = [books EXCEPT ![c] = b]
  /\ leases' = [leases EXCEPT ![l] = [holder |-> c, until |-> now + secs * Second]]
  /\ call' = [op |-> "start", lock |-> l, at |-> now]
  /\ UNCHANGED <<bound, beat, now, restarts>>

RenewLease(l, secs) ==
  /\ call = None /\ leases[l] # NoLease /\ leases[l].until >= now
  /\ Asked
  /\ leases' = [leases EXCEPT ![l].until = @ + secs * Second]
  /\ call' = [op |-> "renew", lock |-> l, at |-> now]
  /\ UNCHANGED <<bound, beat, now, books, restarts>>

\* A release, or the end of a lease: early or late.
EndLease(l) ==
  /\ call = None /\ leases[l] # NoLease
  /\ call' = [op |-> "stop", lock |-> l, at |-> now]
  /\ UNCHANGED <<bound, beat, now, books, leases, requests, restarts>>

\* What the lock manager reported is done, and its handler over.
Called(op, b) ==
  LET c == leases[call.lock].holder
  IN /\ call # None /\ call.op = op
     /\ books' = [books EXCEPT ![c] = IF HasAccount(c) THEN b ELSE @]
     /\ call' = None
     /\ UNCHANGED <<bound, beat, now, requests, restarts>>

Caller == leases[call.lock].holder

StartHolding ==
  LET l == call.lock
      b == books[Caller]
      h == [expires |-> leases[l].until, metered |-> Larger(call.at, b.account.start)]
  IN /\ Called("start", [b EXCEPT !.holdings[l] = h, !.rows[l] = h,
                                  !.charged[l] = [since |-> call.at, units |-> 0]])
     /\ UNCHANGED leases

RenewHolding ==
  LET l == call.lock
      b == books[Caller]
  IN /\ Called("renew", IF b.holdings[l] = None THEN b
                        ELSE [b EXCEPT !.holdings[l].expires = leases[l].until,
                                       !.rows[l].expires = leases[l].until])
     /\ UNCHANGED leases

\* Charged to the last second that was begun, in arrears as well.
Stopped(b, l, at) ==
  LET units == (at - b.holdings[l].metered + Second - 1) \div Second
  IN IF b.holdings[l] = None THEN b
     ELSE Drop(IF units > 0 THEN ChargeAndRecord(b, l, units, at) ELSE b, l)

StopHolding ==
  /\ Called("stop", Stopped(books[Caller], call.lock, call.at))
  /\ leases' = [leases EXCEPT ![call.lock] = NoLease]

-----------------------------------------------------------------------------
(* Requests *)

MeterTick ==
  /\ \E orders \in [Callers -> Orders] : books' = [c \in Callers |-> Refreshed(c, orders[c])]
  /\ beat' = ~ beat
  /\ UNCHANGED <<bound, now, leases, call, requests, restarts>>

\* Every request that only asks, and a lock that is refused for want of budget.
GetCallerStatus(cs) ==
  /\ \E orders \in [cs -> Orders] :
       books' = [c \in Callers |-> IF c \in cs THEN Refreshed(c, orders[c]) ELSE books[c]]
  /\ UNCHANGED <<bound, beat, now, leases, call, requests, restarts>>

Keeps(c, b) ==
  /\ Asked
  /\ books' = [books EXCEPT ![c] = b]
  /\ UNCHANGED <<bound, beat, now, leases, call, restarts>>

Finalized(c, order) == FinalizeCurrentPeriod(books[c], now, order, books[c].arrears > 0)

SetBudgetWithOverdraft(c, cfg) ==
  \E order \in Orders :
    LET b == IF HasAccount(c) THEN PaidUpTo(Finalized(c, order), now) ELSE books[c]
    IN Keeps(c, [b EXCEPT !.account = NewAccount(cfg, now), !.budget = cfg])

\* Arrears stay, and rows the memory does not have.
DeleteBudget(c) ==
  /\ HasAccount(c)
  /\ \E order \in Orders :
       LET b == Finalized(c, order)
       IN Keeps(c, [b EXCEPT !.account = None, !.budget = None,
                             !.rows = [l \in Locks |-> IF b.holdings[l] = None THEN @[l] ELSE None],
                             !.holdings = [l \in Locks |-> None]])

\* The giver's account and the receiver's after it.
TransferBudget(f, t, n) ==
  /\ f # t /\ f \notin Bronze
  /\ Asked
  /\ HasAccount(f) /\ HasAccount(t)
  /\ \E orders \in [{f, t} -> Orders] :
       LET from == Refreshed(f, orders[f])
           to == Refreshed(t, orders[t])
       IN /\ from.account.limit - from.account.consumed >= n
          /\ books' = [books EXCEPT
               ![f] = [from EXCEPT !.account.consumed = @ + n, !.account.out = @ + n],
               ![t] = Overdraw([to EXCEPT !.account.consumed = Larger(@ - n, 0),
                                          !.account.current = 0, !.account.in = @ + n])]
  /\ UNCHANGED <<bound, beat, now, leases, call, restarts>>

\* Arrears first; the rest makes the budget larger for good.
RechargeBudget(c, n) ==
  LET b == books[c]
      rest == Larger(n - b.arrears, 0)
  IN /\ HasAccount(c)
     /\ Keeps(c, [b EXCEPT !.arrears = Larger(@ - n, 0), !.budget.limit = @ + rest,
                           !.account.limit = @ + rest])

\* A rule that is not enabled is none.
SetRule(c, r) == Keeps(c, [books[c] EXCEPT !.rule = r, !.alerts = NewAlerts(r, now)])

DeleteRule(c) ==
  /\ books[c].alerts # None
  /\ Keeps(c, [books[c] EXCEPT !.rule = None, !.alerts = None])

Unfreeze(c) ==
  /\ books[c].frozen
  /\ Keeps(c, [books[c] EXCEPT !.frozen = FALSE,
                               !.alerts = IF @ = None THEN None ELSE [@ EXCEPT !.count = 0]])

-----------------------------------------------------------------------------
(* Stops and crashes *)

\* What Start makes of the tables, later than everything in them.
Loaded(b, t) ==
  [b EXCEPT !.account = IF b.budget = None THEN None ELSE NewAccount(b.budget, t),
            !.holdings = [l \in Locks |->
               IF b.budget = None \/ b.rows[l] = None THEN None
               ELSE IF b.rows[l].expires < t THEN None ELSE b.rows[l]],
            !.alerts = IF b.rule = None THEN None ELSE NewAlerts(b.rule, t)]

\* A stop settles every account; a crash does not, and cuts the lock manager
\* short.
RestartBudgets(stopped) ==
  /\ restarts < bound.restarts /\ now < bound.time
  /\ stopped => call = None
  /\ \E orders \in [Callers -> Orders], t \in (now + 1)..bound.time :
       /\ books' = [c \in Callers |->
            Loaded(IF stopped /\ HasAccount(c) THEN Finalized(c, orders[c]) ELSE books[c], t)]
       /\ now' = t
  /\ call' = None /\ restarts' = restarts + 1
  /\ UNCHANGED <<bound, beat, leases, requests>>

TimePasses ==
  /\ now < bound.time
  /\ now' = now + 1
  /\ UNCHANGED <<bound, beat, books, leases, call, requests, restarts>>

BudgetInit ==
  /\ bound \in Bounds
  /\ beat = FALSE /\ now = 0 /\ requests = 0 /\ restarts = 0 /\ call = None
  /\ leases = [l \in Locks |-> NoLease]
  /\ books = [c \in Callers |->
       [account |-> None, holdings |-> [l \in Locks |-> None], alerts |-> None,
        budget |-> None, rows |-> [l \in Locks |-> None], arrears |-> 0, billed |-> 0,
        rule |-> None, frozen |-> FALSE,
        charged |-> [l \in Locks |-> [since |-> 0, units |-> 0]]]]

LockManagerStep ==
  \/ \E c \in bound.callers, l \in bound.locks, secs \in bound.secs : AcquireLease(c, l, secs)
  \/ \E l \in bound.locks : EndLease(l) \/ \E secs \in bound.secs : RenewLease(l, secs)
  \/ StartHolding \/ RenewHolding \/ StopHolding

BudgetRequest ==
  \/ \E cs \in {{c} : c \in bound.callers} \cup {bound.callers} : GetCallerStatus(cs)
  \/ \E c \in bound.callers : DeleteBudget(c) \/ \E cfg \in bound.budgets : SetBudgetWithOverdraft(c, cfg)
  \/ \E c \in bound.callers, n \in bound.amounts :
       RechargeBudget(c, n) \/ \E t \in bound.callers : TransferBudget(c, t, n)

AlertRequest ==
  \E c \in bound.callers : DeleteRule(c) \/ Unfreeze(c) \/ \E r \in bound.rules : SetRule(c, r)

BudgetNext ==
  \/ LockManagerStep \/ BudgetRequest \/ AlertRequest
  \/ MeterTick \/ TimePasses
  \/ \E stopped \in BOOLEAN : RestartBudgets(stopped)

\* The ticker never stops for good while there is a server (a tick is always
\* possible: to be fair to it is to see the beat change for ever).
TickerRuns == []<>beat /\ []<>~beat

BudgetSpec == BudgetInit /\ [][BudgetNext]_budgetVars /\ TickerRuns

-----------------------------------------------------------------------------
(* The types of the books, the leases and the clock. *)
BudgetTypes ==
  /\ bound \in Bounds /\ beat \in BOOLEAN /\ now \in Time /\ requests \in 0..bound.requests /\ restarts \in 0..bound.restarts
  /\ \A c \in Callers :
       /\ books[c].account # None => books[c].account \in Account
       /\ \A l \in Locks : /\ books[c].holdings[l] # None => books[c].holdings[l] \in Holding
                           /\ books[c].rows[l] # None => books[c].rows[l] \in Holding
       /\ books[c].arrears \in Nat /\ books[c].billed \in Time
  /\ \A l \in Locks : leases[l].holder \in Callers \cup {NoCaller}

(* What a crash leaves is what was there: the tables know every account,     *)
(* rule and holding, no holding as paid further than the memory has it, and  *)
(* rows nobody remembers are of leases that are over.                        *)
MemoryIsSaved ==
  \A c \in Callers :
    LET b == books[c]
    IN /\ b.budget = IF b.account = None THEN None
                     ELSE [limit |-> b.account.limit, overdraft |-> b.account.overdraft,
                           period |-> b.account.period]
       /\ b.rule = IF b.alerts = None THEN None ELSE b.alerts.rule
       /\ \A l \in Locks :
            IF b.holdings[l] = None THEN b.rows[l] = None \/ b.rows[l].expires < now
            ELSE /\ b.rows[l] # None
                 /\ b.rows[l].expires = b.holdings[l].expires
                 /\ b.rows[l].metered <= b.holdings[l].metered

(* Nobody pays for a lock of another, or for one that was released.          *)
HoldingsAreHeld ==
  \A c \in Callers, l \in Locks :
    books[c].holdings[l] # None => leases[l].holder = c

(* No second is paid for twice: however ticks, ends of periods, new budgets, *)
(* releases, stops and crashes follow each other, a caller has not paid for  *)
(* more seconds than were begun since it got the lock.                       *)
ChargedOnce ==
  \A c \in Callers, l \in Locks :
    LET held == books[c].charged[l]
    IN held.units <= (now - held.since + Second - 1) \div Second

(* Bills do not overlap: the current period began when the last that was     *)
(* billed was over.                                                          *)
BillsFollow == \A c \in Callers : HasAccount(c) => books[c].account.start >= books[c].billed

(* Accounts, holdings and bills are sound, in memory and in what a restart   *)
(* would read.                                                               *)
BudgetIsSound == BudgetTypes /\ MemoryIsSaved /\ HoldingsAreHeld /\ ChargedOnce /\ BillsFollow

(* Arrears outlive ends of periods, new budgets, deletions, stops and        *)
(* crashes and grow by none of them: only what is paid in is taken off, and  *)
(* no further bill is written before all is paid.                            *)
ArrearsArePaid ==
  [][\A c \in Callers :
       books[c].arrears > 0 =>
         /\ books'[c].billed = books[c].billed
         /\ \/ books'[c].arrears = books[c].arrears
            \/ \E n \in bound.amounts : RechargeBudget(c, n)]_budgetVars

(* What a tick has to see to: a period that is over, a lease that is over, a *)
(* whole second that was not metered.                                        *)
Overdue(c) ==
  /\ HasAccount(c)
  /\ \/ now >= books[c].account.end
     \/ \E l \in Locks :
          /\ books[c].holdings[l] # None
          /\ \/ books[c].holdings[l].expires <= now
             \/ now - books[c].holdings[l].metered >= Second

(* With the ticker, every period ends and every holding is paid: a caller is *)
(* never left behind for good, whatever requests come in between.            *)
PeriodsEnd == \A c \in Callers : []<> ~ Overdue(c)

(* No account is left open: periods and holdings are seen to by the ticker,  *)
(* arrears stand until they are paid.                                        *)
AccountsAreSettled == ArrearsArePaid /\ PeriodsEnd
=============================================================================
