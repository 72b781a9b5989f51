# A verification project for the lock server

The server (`src/cmd/lock-server`, `src/internal`) hands out leased locks and
adds wait queues, rate limits, budgets, transactions, topologies, hand-overs,
audit and alerts around them, all of it kept in one SQLite file. This directory
models its concurrent core in TLA+, checks it with TLC and proves part of it
with TLAPS. `PROJECT.json` lists for every definition the lines it stands for,
for every property the seeded fault that breaks it, and the hazards the
properties are aimed at.

## 1. The system

One process. Every manager is a struct with a mutex, maps loaded from tables at
`Start`, and goroutines: HTTP requests, `time.AfterFunc` timers, tickers. The
database has one connection (`SetMaxOpenConns(1)`): statements are serialised,
but a handler of several statements is atomic only against those who take the
same mutex. There are hardly any transactions, so a crash may come between any
two statements.

| part | state | operations | talks to | what is hard |
|---|---|---|---|---|
| lock manager (`lock`) | tables `locks`, `leases`, `wait_queue`; timer map; limited grants | acquire, batch, release, renew, expire, sweep of waits, shorten, cancel waits, start | admission, budget, reputation, fencing, heatmap, all under its mutex | timers that fired and wait for the mutex; hand-off to a queue with time-outs, refusals and gold callers; deadlock search; rebuilding after a stop |
| fencing (`fencing`) | tokens, a counter per path | issue, validate, revoke | called by the lock manager | number and row in separate transactions; validation in two reads |
| resource registry (`resource`, `namespace`) | tables and maps of resources and policies | register, ensure, state, policy, decide | called by the lock manager (`BeforeAcquire`) | table and map written apart |
| maintenance (`maintenance`) | windows | create, cancel, is-blocked | called by the registry | list, then insert |
| recovery (`recovery`) | checkpoints | scan | reads leases and resources | none concurrent |
| control plane (`controlplane`) | – | admission, issue | stands between the lock manager and registry, windows and fence | an admission is as old as the wait that follows it |
| lock budget (`lockbudget`) | budgets, periods, holdings, bills | check, start/stop/renew holding, meter, transfer, recharge | called by the lock manager; calls rate alerts | period boundaries, overdraft and penalties, arrears, restart |
| rate alerts (`ratealert`) | rules, counters, freezes | record, freeze, unfreeze | called by the budget | memory and table apart |
| reputation (`reputation`) | scores | compute | called by the lock manager | statistics only |
| heatmap (`heatmap`) | waits, snapshots, cooldown rows | record, aggregate, start and stop a cooldown | calls the lock manager and is called by it | two mutexes in two orders; rows read before and written after |
| rate limiter (`ratelimit`) | policies, bindings, waits, reservations | request, return, borrow, reserve, tick | called by orchestration, debt, heartbeat | sums of lent, borrowed, reserved; queue; restart |
| orchestration (`orchestration`) | transactions with locks and tokens, timers | create, release, time out, start | calls lock manager and rate limiter under its mutex | rollback after partial success; time-out against release; restart |
| topology (`topology`) | nodes, edges, operation log | declare, remove, cascade acquire and release | calls lock manager and rate limiter without its mutex | everything moves in the middle of a cascade |
| hand-over (`handover`) | hand-overs and their resources | create, precheck, initiate, confirm, cancel, expire | writes the tables of other managers directly | other managers' mutexes are not taken; partial rollback |
| heartbeat (`heartbeat`) | registrations, groups, frozen resources | register, report, check, groups | calls lock manager, rate limiter, orchestration | lost callers, late reports, spreading degradation |
| debt (`debt`) | debts, restrictions | record, collect, write off, restrict, lift | calls the rate limiter | partial collection, restrictions that must end |
| audit (`audit`) | log, circuit breakers | guarded calls, trigger, recover | wraps lock manager and rate limiter | check, then act |
| shadow plans (`shadow`) | plans, overrides | start, cancel, apply, replay | writes configuration of other managers | status read early, written late |
| HTTP API, storage, model, main | – | – | – | wiring |

For each part the properties that make it correct are those of its module
(section 3); `PROJECT.json` lists the hazards they are aimed at, line by line.

## 2. Modules

    LeaseLock            one owner per lock, and what may follow whom
       ^ implemented by
    LockService          the lock manager as the rest of the server sees it
       ^ implemented by        ^ extended by
    LockManager          TopologyCascade, Orchestration
    CycleSearch          the search of LockManager's deadlock check
    ControlPlane         extends ResourceRegistry and FencingTokens
    CooldownControl      heatmap and lock manager, two mutexes
    RateLimit, DebtLedger, LockBudget        what callers owe and may use
    Handover, Heartbeat, AuditBreaker        what watches and moves it
    ShadowPlan           plans that override what others configure
    WaitGraph, Rows      helpers: acyclic relations, rows of a queue
    MC...                instances for TLC
    ...Proofs            theorems: LockManager (with CycleSearch), LockService (with
                         TopologyCascade), ControlPlane,
                         Token (Orchestration, RateLimit),
                         Admission (CooldownControl, LockBudget), DebtLedger,
                         Manager (AuditBreaker, ShadowPlan, Handover); DataProofs has the facts they share

**LockManager** (`lock/manager.go`). `locks`, `leases`, `queue` are the tables
(a row of `wait_queue` per element, in `position` order), `timers` is the map of
armed timers by the time they have left, `firing[l]` counts the goroutines
`expireLock(l)` that wait for the mutex, `orphans[l]` are timers which fire
although `delete(m.timers, …)` forgot them, `accelerated` is the map of limited
grants. Time is relative: `remaining` of a lease and `timeout` of a wait count
down to -1 (over). One action is one handler under the mutex, from its first
statement to its last, `tryGrantNextLocked` included (`Vacate`, with `Grantees`
for what its recursion over timed-out and refused rows arrives at). Admission,
budget, bronze limit and fencing errors are refusals any request may get.
`Restart(down, kept)` is a stop at any moment between handlers, `down` units of
time without timers, `rebuildTimersLocked`, and the cooldowns `kept` by the
heatmap.

**LockService** is LockManager without time: `Granted`, `Queued`, `Refused`,
`Release`, `Lose`, `CancelWaits`, `TimeOutWaits`. It is what the modules of the
managers that call the lock manager extend, so their interleavings include
everything the lock manager may do meanwhile; LockManager is checked to
implement it, and it is proved to keep the promise of **LeaseLock**.

**CycleSearch** (`detectCycle`, and the same search in
`topology.hasCycleDFS`) is the recursion as a machine: `visited`, the path
(`recStack` and `path`), the call stack's open successors, and the order in
which `range` over a map delivers them left open.

**FencingTokens** (`fencing`, `storage/fencing_store.go`) has one action per
SQL transaction: the counter is drawn, the row inserted, a token looked up, the
newest sequence read. `Tick` is the wall clock that expires tokens.

**ResourceRegistry** (`resource`): table and map as two variables, and `calls` at
the statements they have reached. A row that cannot be read is taken for missing,
because `Register` drops the error (`ReadFails`), one that cannot be written ends the
call (`WriteFails`). `overtaken` is history: the paths of which one call is about to
write what another, or an unread row, has made obsolete. `Parent` is the parent of
the path, as `Ensure` uses it; requests that name a different `parent_path` are not
modelled.

**ControlPlane** (`controlplane`, and the order of `lock.AcquireLock`) puts the
two into one process: a path is registered on the way to its first lock, what
was admitted is fenced at any later time, and a stop ends both.

**TopologyCascade** (`topology/manager.go`). `edges` is the list of declared
edges in the order of the map built from them; `calls[c]` is a cascade at work,
with the nodes still to do and those it holds. `AcquireNext` is one round of
the loop, so leases end and edges change between two rounds. Requests are plain or
reentrant (`Modes`), a field the client sets. `bare` is history: the caller came
with nothing, has asked for nothing beside, and its cascade asks for no lock twice
reentrantly.

**Orchestration** (`orchestration/manager.go`). `call` is the one call that holds
the manager's mutex, and each step of it one call to the lock manager or rate
limiter or one row; `Outside` is what others do in between. `timers[t] =
"fired"` is a goroutine that waits for the mutex and cannot be stopped.

**CooldownControl** (`heatmap/manager.go` with its two-way calls into
`lock/manager.go`) models one lock's cooldown statement by statement with both
mutexes as variables. A process waits by having no enabled action. The controllers
are the loop, which limits grants if the configuration says so at that moment, and
requests by hand, which always do (`Accelerate`). `crossed` is history: a stop met the
start of its cooldown, another stop or the next start. `Boot` is `Manager.Start`.

**RateLimit** (`ratelimit/manager.go`). Bindings with quota, use, lent,
borrowed and reserved tokens, the records of borrowing and reservations, the
queue in memory and its table, the refill tick, and `Start` from the tables. A loan
writes the lender's row and then the borrower's, its return the other way round: an
error leaves neither row or the first written and undoes memory only
(`HalfWritten`); a crash between them is the same with a restart behind.

**DebtLedger** (`debt/manager.go`). Debts with their state, amount and age,
restrictions, rules per caller, the liquidation tick in its order (overdue,
collect, retry, write off, restrict), returns and manual collections, restarts.
What a collection gets from the rate limiter is open. `failures` is a history by
ticks, of which the last `Window` before this one count: the 300 seconds of
`CountCollectFailures`. Ticks are a second apart, unless some are left out while the
server is down.

**AuditBreaker** (`audit/manager.go`). A guarded call is three steps: the breaker
is read, the call made, its outcome recorded. Breakers live in memory, in the
table and in a history; rules, resets, the cooldown tick, stops, and a crash
between the two rows of an opening or of a recovery (`CrashBetween`), which `torn`
counts.

**Handover** (`handover/manager.go`, and the rows of five other managers that it
writes). `run` is the execution under the manager's mutex, one resource after the
other and one statement after the other, forth and back; in between the other
managers change the same rows, because their mutexes are not taken.

**Heartbeat** (`heartbeat/manager.go`). Registrations with windows of silence, the
tick, the disposal of a lost caller by its strategy step by step, frozen
resources, and groups with dependencies, degradation and restoration. A
registration writes the caller's row, its old group and its new one, a report the
row and the group; a crash may come between any two (`CrashInRegister`,
`CrashInReport`). A small model of locks, queues, tokens and transactions is what there
is to dispose of.

**LockBudget** (`lockbudget/manager.go`, `ratealert/manager.go`, and the calls of
the lock manager). Consumption is one unit for each second that was
metered, and the penalty half a unit more, rounded up, for each that is overdrawn;
`bound.second` is how many steps of the clock a second has. Holdings, periods, bills,
arrears, transfers and recharges are in memory and in rows, alerts and freezes
beside them. The lease is a row of its own: the lock manager writes it and
reports it in two steps.

**ShadowPlan** (`shadow/manager.go`). `plans` is the table, `planMemory` the map,
`planCalls[c]` a request with its list of overrides and the rows it has saved to
undo them, `applier` who has `applyMu`. An override is two steps, the row is
read and written back as a whole, and so is each undo one step; `config` holds
a row of each kind (rule, quota, node, lock), written meanwhile by the managers
it belongs to. `before` and `touched` record for the properties what the rows
were when the mutex was taken and which of them others wrote since.

A run may have several *scenes*, chosen in the first state, where two questions
need the same modules with different instances: MCControlPlane ("tree":
registrations and states of a chain of paths; "path": registrations, policies and
states of one path; "tokens": issues and validations of its tokens),
MCTopologyCascade ("edges": the graph changes; "plain" and "reentrant": locks change
hands under cascades of plain and of reentrant requests; `WholeSpec` is everything at
once, for the configurations of section 5), MCDeadlocks ("locks" and "search") and
MCAuditBreaker ("breakers" and "plans"). A scene withholds requests of clients and no
step of the server. In the newer modules the variable `bound` does the same for
bounds: each behaviour picks one combination of the limits of its counters and
sets (`TheBounds` in the MC module) and keeps it. What a bound leaves out in one
story another story has.

## 3. What the runs show

| run | instance | properties |
|---|---|---|
| LockManager | 1 lock, 3 callers (1 gold), leases 2, cooldown 1, waits 1, reentry 2, a stop of up to 2 | `LocksAreSound`: tables agree, a free lock has no queue, nobody waits twice or for its own lock, a held lock has a timer or a goroutine on its way; `QueueIsFair`; `LeasesAndWaitsEnd` |
| Deadlocks | 2 locks and 3 callers; every graph of 4 nodes | `CyclesComeFromHandOff`: only a hand-off closes a cycle of waits; `ImplementsLockService`; `AnswerIsRight` and `SearchEnds` for the search |
| ControlPlane | 2 calls at once over a chain of 3 paths, and over 1 path with 2 policies, rows that cannot be read or written, stops between any two statements; 1 path, 2 issuers, 2 checkers, 3 tokens, a restart | `ControlConsistent`: no holes in the tree, fenced paths exist, one valid token; `RestartChangesNothing`: the map is what a restart would load, and `RetiredStaysRetired`, both but for paths that were overtaken; `DeadStaysDead`, `AcceptedInOrder` |
| TopologyCascade | 4 nodes with up to 6 edges; 2 nodes, 2 cascades, 2 callers, plain and reentrant requests | `OrderIsSound`: acyclic, parents first, forced release misses nobody; `LeavesWithNothing`: a caller that came with nothing has at any time only what its cascade has booked and not undone, or the lock it was queued for; `KeepsPromise` |
| Orchestration | 2 transactions, 2 callers, 2 locks, 5 tokens, a stop | `TransactionsAreSound`: tokens add up, committed is watched; `EndsOnceAndSurely` |
| Cooldown | 2 controllers (the loop and a request), 2 clients, restarts, 3 rows | `CooldownIsSound`: limited grants follow the row, unless a stop crossed a start or another stop; `ResolvedStaysResolved`: no counter brings a lifted cooldown back |
| RateLimit | 2 callers; four combinations of lending (with errors and crashes between the rows of a loan), reservations, queue, time and restarts | `QuotaIsSound`: limits hold, no row promises what memory has taken back; `PromisesAreKept`: reservations are kept and end, quota is moved and not made; `QueueIsServed` |
| DebtLedger | 1 debtor, 2 creditors (one the system), 2 rules, one of which asks for more failures than one debt has in the window; two debts, or one and a restart | `LedgerIsSound`; `DebtsAreSettled`: a debt falls by what is returned, stays settled, and ends if the window holds the failures its rule asks for; `RestrictionsFollowDebts` |
| AuditBreaker | 1 caller, 2 requests at a time, 2 rules, a crash, also between the rows of an opening or a recovery; 1 or 2 plans with up to 3 overrides and 2 requests at a time, in six stories | `BreakersAreSound`: memory, table and history agree, but for one row of the history for each such crash; `CooldownIsKept`: served, not extended, and breakers close; `PlansAreSound`: a plan is applied as a whole or undone, whoever else applies one; `PlansEnd`: replays complete and mirrors expire, also after a restart |
| Handover | 1 giver, 2 receivers; three stories, with stops and with others at work | `HandoverIsSound`, `AllOrNothing`, `OnlyTheGiverLoses`, `HandoversEnd` |
| Heartbeat | 2 callers, 2 locks, 3 groups; five stories: disposal, freeze, one group and a crash, a caller that moves to another group and a crash, three groups that depend on each other | `DisposalIsSound`, `OnlyTheLostLose`, `GroupsFollow`, `ChangesAreNoticed` |
| LockBudget | 2 callers, 2 locks; four stories: periods and stops, arrears, overdraft and transfers, freezes | `BudgetIsSound`: no second paid twice, memory and rows agree, nobody pays for a lock it does not hold; `AccountsAreSettled`: arrears outlive everything but payment, and periods end |

Every property is preceded in its module by a comment that says in words what it
promises and about which code.

*Why the bounds are enough.* Each hazard needs two or three actors on one lock:
an owner, one who waits, and one who passes (gold, renewal, timer or client).
Three callers therefore show every order of a queue relative to one pair. Two
locks are needed for cycles, batches and rollbacks. Time bounds of one or two
units separate "over", "this instant" and "left", the only differences the code
makes; LockBudget has up to four, which is a period that ends late and the one
after it, or a lock held through two ends of a period. `MaxCount`, `MaxEdges`,
`MaxRows`, `MaxSequence`, `MaxGeneration`, `MaxStray`, `MaxDowntime`,
`MaxRestarts`, `MaxFailures` and the fields of `bound` bound what the code does
not bound; each is a guard and large enough for the counter to take part in
every property. Where a clock is bounded, its end is a state in which everything
that was due has been done, and the liveness properties speak of what is due
within the bound. Symmetry is used for callers, locks and
cascades where nothing distinguishes them, and not with liveness, except in
Deadlocks: there
`SearchEnds` speaks of a machine that runs down to a state of its own, so that
no cycle of states can be confused with a permutation of itself (the comment in
MCDeadlocks has the argument). `Window` of DebtLedger is one tick and not 300: what
matters is whether a rule asks for more failures than the window can hold, and
`Strict` and `Loose` of MCDebtLedger do not and do. One of LockManager's callers is
gold; that two of them keep their order is left to the theorem `FairQueue`.

*Exceptions.* Some properties say "unless" because the code breaks them otherwise.
The exception is history, which no step of the model reads but to keep it:
`overtaken` (`RestartChangesNothing`, `RetiredStaysRetired`), `crossed`
(`CooldownIsSound`), `bare` (`LeavesWithNothing`), `torn` (`BreakersAreSound`) and
`crashes` (the empty group of `GroupsCatchUp`); or it is a premise about the rules,
`WithinWindow` (`DebtsEnd`), or about the start that notes its row
(`ResolvedStaysResolved`). The cases they except happen in the runs, and section 5 says
what the code does then.

## 4. Fairness

What is assumed, and only this:

- Time goes on and the Go runtime fires due timers: `WF` of `Tick` or
  `TimePasses`, `TimerFires`, `OrphanFires`.
- Tickers run: `WF` of `CheckWaitQueueTimeouts` in LockManager, and in the
  modules with a ticker of their own `TickerRuns`, which says that the ticker
  fires again and again (`beat` changes with each of its runs:
  `[]<>beat /\ []<>~beat`). Weak fairness of the tick would say less: it is
  always enabled but mostly changes nothing, and a step that changes nothing
  is no step. In ShadowPlan no `beat` is needed: `CheckMirrorExpiry` is a step
  only when a mirror is over, and stays one until it has run.
- A goroutine that has a mutex goes on with its statements: `WF` of `Step`,
  `MutexHolder`, `PlanStep`, `CompleteReplay` and `NoteReplay`, and of the steps
  of the search. (A request that waits for `applyMu` has weak fairness only; no
  property needs that it gets it.)
- A goroutine that waits for a mutex gets it: weak fairness where the action
  stays enabled (`ExpireLock`), strong fairness where others can take the mutex
  again and again (`TimeoutTx`): `sync.Mutex` goes into starvation mode after a
  waiter has waited 1 ms and hands over first-in-first-out.
- In Heartbeat, time does not stand still for a caller: it reports or another
  interval passes (`IntervalPasses`), until it is too late.

Clients promise nothing; in particular nobody is assumed to release, to report
or to pay, and no crash is assumed to happen.

## 5. What the code does otherwise

Each of these configurations ends in a counterexample and is run by hand
(`tlc -config X.cfg MC<module>.tla`), with one property, named in the file:

| configuration (module) | property | what it shows |
|---|---|---|
| LockManagerEarlyExpiry (MCLockManager) | `OnlyDeadLeasesExpire` | a timer that fired before a renewal took the mutex ends the renewed lease, or that of the next owner: `expireLockLocked` never looks at `expires_at` |
| LockManagerCooldownRenewal (MCLockManager) | `CooldownLimitsRenewal` | a renewal in cooldown adds the whole cooldown to the lease, also when less was asked for |
| TopologyStranded (MCTopologyCascade) | `NoWaitIsLeft` | a cascade that is rolled back stays in the queue of the lock it could not get, and is granted it later |
| the same | `BooksWhatItHolds` | "budget exhausted" is booked as an acquired lock |
| TopologyReentrant (MCTopologyCascade) | `RollbackReleases` | with two paths to an ancestor, a reentrant cascade acquires it twice and its rollback releases it once |
| OrchestrationFaults (MCOrchestration) | `GivenUpMeansGivenUp` | a transaction rolled back because it "would queue" may end owning the lock |
| the same | `ObtainedIsRecorded` | a lock whose row cannot be written is neither recorded nor released |
| CooldownStop (MCCooldownControl) | `NobodyWaitsInACircle` | lifting a cooldown and acquiring a lock can block each other for ever |
| CooldownStop with `Clients = {}` and `Restarts = TRUE` (MCCooldownControl) | `NobodyWaitsInACircle` | a server that stopped during a cooldown with a long lease blocks itself at the next start |
| CooldownTwo (MCCooldownControl) | `AccelerationFollowsRow`, `NeverRevived` | with two controllers (the loop and a request), a stop that crosses a start leaves its limited grants behind, and the start brings the lifted cooldown back when it notes the shortened lease |
| AuditBreaker with only this property (MCAuditBreaker) | `OwnersStay` | an override of `reentrant` writes the whole row of the lock back, with the owner it had when the row was read |
| the same | `CancelledStaysCancelled` | a replay that finishes, or a start that is late, writes over a cancellation |
| the same | `MirrorsLeaveTheTable` | start and cancellation of a mirror overtake each other: the table says running, the map cancelled, and it does not expire before a restart |
| ControlPlane with only this property | `AlwaysRestorable`, `RetiredForEver` | two registrations, or two policy changes, of one path overtake each other; and a registration whose row cannot be read (`resource/manager.go:65` drops the error) resets the row, a retired one too |
| DebtLedger with `DebtsEnd` without its premise `WithinWindow(i)` | `DebtsEnd` | with `protection_after` above some 300, one debt is never written off: only the failures of the last 300 seconds count (`debt/manager.go:454`), and there is one a second |
| Heartbeat with `GroupsCatchUp` without the second disjunct of its end | `GroupsCatchUp` | the last caller of a group registers in another, a crash after `heartbeat/manager.go:450` and before `:455`: the old group counts it until somebody registers there |

The deadlock of CooldownStop hides the lost update of CooldownTwo between a
controller and a client: the mutant of `Resolve` that gives the mutex up earlier
removes the deadlock and brings the lost update out.

The following is what the modules let happen because the code does, and no
property forbids; no text of the repository promises otherwise.

*Orchestration.* A crash inside `CreateTx` leaves locks and tokens with a
transaction nobody looks at again; one inside `timeoutTx` after the tokens were
returned returns them a second time after the restart (`TokensAddUp` speaks of
the time up to the first restart).

*Control plane.* A queued request is granted without a second admission, however
the resource has changed.

*Rate limits.* A reservation that ended while the server was down is completed in
memory only and its reserved tokens are never given back. An error or a crash
between the two rows of a loan (`ratelimit/manager.go:857`, `:864`) leaves the lender's
row with the loan and the borrower's without, between those of its return (`:925`,
`:934`) the other way round: quota that is lost at the next start. A new binding
forgets what was borrowed, lent and reserved. Returning a borrowing marks the
record of the wrong direction. Rows of waits that timed out before a restart are
never deleted.

*Debts.* Collection by the tick and write-off do not lift a restriction, and one
lifted by hand is applied again at the next tick while the debt is overdue; a
changed rule leaves the scope of a standing restriction as it was.

*Breakers.* Refused calls are recorded as failures, so a breaker that has
recovered opens at the next failure. A crash between the history row and the
status of an opening leaves a history row that nothing ends; one in a recovery
(`audit/manager.go:223`, `:226`) leaves an open breaker without one. Releases, returns and quota
adjustments pass unguarded; `ReturnTokens` of the audit has no caller.

*Handovers.* A failed execution keeps the status it had and may be retried; after a
crash half-way the retry fails for ever with "no longer held by source". The
flags of executed items stay set after a rollback. Quotas are not rolled back.
Only the sweep, not the confirmation, looks at the deadline. A lock below a root
acquired after the hand-over was created passes the precheck but is not moved.

*Heartbeats.* The status "lost" is written first, so a crash during a disposal
leaves the rest undone for ever, and one during a freeze leaves missing rows and
a stale count of the group; one in a registration leaves a group of nobody with a
count (above). A lock held twice is released once. Rows of waits
are removed from the table, while the rate limiter's queue in memory still
grants them. A frozen caller that was released and does not report is lost and
frozen again. Releasing all frozen resources marks any caller as recovered.
Leases of frozen callers go on to expire. Groups degraded by another group do
not degrade those behind them at once, a dependency on a degraded group does
not degrade, and deleting a group restores nobody.

*Lock budgets.* A renewal whose lease a tick has just dropped, or a crash between
the lease and its report, leaves a lock held and not metered. Rows of holdings
whose lease ended while the server was down are never removed. A new budget and
the end of a period set the metering time in memory only, so time forgiven
there can be charged in a later period after a stop; no second is charged
twice. A restart forgets consumption, overdraft and what was carried over. The
carry into the next period counts the penalty twice and may be stale after a
recharge, while the bill states consumption less limit. Transfers count twice in
the balance at the end, so a giver may fall into arrears having hardly overdrawn,
and a receiver's gain is cut off at zero consumption. Deleting the budget lets a
caller in arrears acquire without limit. A renewal is never checked against the
budget; a hand-over leaves the holding with the giver; a shortened lease is not
reported; a late tick charges past the end of the lease.

*Shadow plans.* `ApplyPlan` looks at the status before it waits for the mutex, so a
plan can be applied twice, or after it was cancelled; `RemoveOverride` asks for
no status at all. Overrides of a rate policy (`max_tokens`, `window_sec`,
reservations) are always refused, because `CreatePolicy` refuses a name that
exists, and the whole plan with them. The undo of a quota is refused while the
caller's breaker is open, and then does not happen; tokens that were cut with the
quota do not come back with it. Overrides of topology nodes change the row, which
the topology manager has read at its start. A crash in the middle leaves a plan
half applied, in a status in which it can be applied again. The range of audit
entries that `StartPlan` determines is kept in memory only (the table gets the
status, `storage/sqlite.go:2799`), and `runReplay` reads the plan from the table:
it looks at the entries 0 to 0 and finds nothing.

## 6. Proofs

All theorems hold for every value of the constants that satisfies the named
assumptions of the modules (callers and locks are any sets, bounds any numbers).

| run | invariant proved | action property or refinement proved |
|---|---|---|
| LockManager | `LocksAreSound` | `QueueIsFair` |
| Deadlocks | `AnswerIsRight` | `CyclesComeFromHandOff`, `ImplementsLockService` |
| ControlPlane | `ControlConsistent`, `RestartChangesNothing` | `RetiredStaysRetired`, `DeadStaysDead`, `AcceptedInOrder` |
| TopologyCascade | `OrderIsSound`, `LeavesWithNothing` | `KeepsPromise` |
| Orchestration | `TransactionsAreSound` | of `EndsOnceAndSurely` that nothing ends twice |
| Cooldown | `CooldownIsSound` | `ResolvedStaysResolved` |
| DebtLedger | `LedgerIsSound` | `RestrictionsFollowDebts`, and `DebtsAreSettled` but for its liveness |
| RateLimit | `QuotaIsSound` | `PromisesAreKept` and `QueueIsServed` but for their liveness |
| Heartbeat | `DisposalIsSound` | `OnlyTheLostLose`, `GroupsFollow` |
| LockBudget | `BudgetIsSound` | of `AccountsAreSettled` that arrears are paid (`ArrearsArePaid`) |
| AuditBreaker | `BreakersAreSound`, `PlansAreSound` | `CooldownIsKept` but for its liveness |
| Handover | `HandoverIsSound` | `AllOrNothing`, `OnlyTheGiverLoses`, and `HandoversEnd` but for its liveness |

*LockManagerProofs.* `TypeCorrect`, `TablesAgree`, `NobodyQueuesForNothing`,
`OneWaitPerCaller` and `EveryLeaseIsWatched` are the five parts of the
invariant of the run LockManager, `Sound` is all of them (`LocksAreSound`). None
is inductive alone: a hand-over is only well-typed because the
queue holds waiters once each, the queue is only empty on a free lock because
the tables agree, and so on; the conjunction `IInv` of all five is. The argument is
by lock: `CellOK` states the conjunction for the rows of a single lock
(`CellsAreInvariant`), one lemma shows that handing a lock over leaves a good
cell (`HandedCell`, used by release, expiry, rollback and restart), and each
handler has a lemma of its own that says which cells it writes.
`Implements`: with the lease times forgotten (`SeenQueues`), every handler is one
step of LockService or a stutter. A handler that empties several locks at once, a
restart above all, is the service's `Lose` of a set of locks. `NextMoves` says the
same in the form that the next two theorems need: a handler leaves each lock as it
is, hands it on, or lets some of its waiters go, or it appends one waiter.
`NoRequestClosesACycle`: of these only a hand-over adds an edge that was not asked
for; an appended waiter adds the edge that the search has looked at
(`NewEdgeIsSafe`). `FairQueue`: who is left in a queue is in the order it was
(the rows that remain are embedded in those that were).
The search of CycleSearch is in the same module: `SearchIsRight`, on every graph the
verdict is "cycle" exactly when there is one; `ReportIsGenuine`, what is reported
is one; `AnswerSound` is both (`AnswerIsRight`). Its invariant says that finished
nodes lead only to finished nodes and lie on no cycle, and that the path is a walk.

*LockServiceProofs.* `SoundQueues` and `PromiseKept`: LockService implements LeaseLock
under the mapping of owners and sets of waiters, for any locks, callers and
bound. The invariant is again one of cells (a lock with its queue); each answer
of the service maps to one step of LeaseLock or to a stutter, and a lock that
passes on needs the invariant to know that its next owner waited, once. That the
lock manager is such a service is `Implements`. `CascadesUseTheService`: every step of
TopologyCascade is one of the service or leaves locks and queues alone, so
`QueuesUnderCascades` and `PromiseUnderCascades` follow. `OrderSound` is `OrderIsSound`
for any nodes and any edges. `NoCycles` is its first part: an edge is declared after
a look at the paths from its end, under the mutex. For the other two the recursive
searches of the code are modelled with the list of what their open calls have
yet to do (`todo`): a step does its head. That a walk ends, on every graph, is a
measure: what is to be done and the edges not gone over yet (`ToClimb`, `ToDescend`).
What the steps keep (`ClimbOK`): the parents of a node that was visited are listed,
or are to be listed, and all that is to be done before that is above the node
(`ParentsFollow`). So when a node is listed its parents are: one that was still to do
would have the node, which is done next, above the node itself, and there are no
cycles (`ClimbCollects`). For a forced release (`DescentOK`): the children of what is
listed are listed or to be done, and each node was reached from a parent listed
before it. Where no node has two parents that is its only one, and the reverse
order releases children first; where some have, the code does not promise it
and neither does the property.
`WithNothingLeft` is `LeavesWithNothing`, for plain and reentrant requests. The
invariant is `BareOK`: the cascade of a caller that came with nothing is his only
one; he has what it booked, once, or the lock it is stuck at, and waits for that
one at most; and a lock it asks for reentrantly is not booked already. Then a
release in a rollback lets go, because the count is one, and what others do spares
him (`OthersSpare`: they end his leases and waits, or hand him the lock he waits
for, which is the one he is stuck at).

*ControlPlaneProofs.* For the registry, `NoHoles`, for any tree of paths and any
number of calls at once: the invariant adds what a call in flight relies on,
that the parent it found stays in the table because rows are rewritten and never
removed. `NothingToRestore` and `RetiredForGood` hold for any number of calls, but for
the paths in `overtaken`. Of any other path (`Copies`) all calls that have written a
row and not yet the map have written what the row says now, so whichever comes
last leaves the map with the row; and a registration on its way to write found no
row, so nothing of it was retired. For the fence, `AtMostOneValid`, `DeadForEver` and
`OrderOfAcceptance`, for any number of callers: `CounterInvariant` says that every
sequence in a row or on its way to one is used once and at most the counter.
`ControlPlaneImplements`: a behaviour of the composition is one of the registry and
one of the fence, so the theorems about the parts hold of it. From that, and from
the fact that an admission in flight names a registered path, follow `Consistent`
(`ControlConsistent`) and `FenceHolds`.

*ControlPlaneProofs, heartbeats.* `DisposalSound`, `OnlyTheLostLoses` and
`GroupsAreFollowed`, for any callers, locks, transactions, groups and graph of
dependencies. `HeartbeatInv` says for each stage of a disposal what is done by then
(`Disposing`): once the locks are listed every lock of the caller is on the list or
was got meanwhile, after the list it holds and waits for nothing, and so on.
That this stays so is an argument about others: a step of the lock manager, the
rate limiter or the orchestrator either gives the caller something, which the
model remembers, or gives it nothing (`DisposalStays`, for every such step). A
release in turn takes a lock from its caller only and nobody out of a queue
(`GivenUp`). While something of a caller is frozen so is the caller: rows are only
written after the status, and the last one to go thaws it (`Thawing`: letting go of
all means all that is in the table).
The groups first need that a cascade ends. `TryRestore` walks the graph from a list;
a turn drops a group from the list, or restores it and puts those that depend on
it in front, and then fewer rows of the table name a degraded group (`TurnsEnd`). So
the recursion has a solution (`WalkEnds`, with `DescentIsThere` of DataProofs), also
on a graph with cycles. Every turn keeps two things (`TurnKeepsGroups`): a degraded
group has a reason, or is on the list; and a group with too few alive is not well,
and all that depend on it are degraded. A group that is degraded keeps those behind
it from being restored, so the cascade of a degraded group changes nothing
(`NextDegrades`). A tick updates groups in any order, and each of them, and all
together, keep what `Follows` lists. So do a registration and a report, however many
of their rows a crash lets them write (`TablesKept`). A dependency that is added or removed and a
group that is created or deleted are cases of their own: a deletion may leave a
degraded group without a reason, and `GroupsFollow` does not say otherwise.

*TokenProofs, transactions.* `TransactionsSound`. The tokens in use are a sum over all
transactions, so each step is about the one row it changes (`SumChanges`). The
invariant adds `CallOK`, what the call that holds the mutex relies on: a
transaction being created has in its row what the call was granted, a time-out
has returned the tokens in front and not those behind. `EndedOnce`: no step changes
the row of an ended transaction, although a fired timer may wait for the mutex
while a release ends it.

*TokenProofs, rate limiter.* `QuotaSound`, `PromisesCovered`, `BorrowedIsLent` and
`QueueInTurn`, for any callers, policies, maxima, algorithms and amounts. Memory
and table may differ, but only in what came back by itself and in what half a loan
left: `RowsAgree` says that a row reserves the same as memory and promises no more
(`HalfOfIt`: one row written of two, in the order of the code, only takes away),
which makes a crash harmless, and a reservation in memory is its row, or one that
ended while nobody looked (`ReservationsOK`). `NotOverbooked` speaks of every
instant and not only of those to come, since that is what the sweep of a new
reservation adds to (`SweepMeetsAll`); every other step has fewer live
reservations than before (`StaysWithin`, `LessReserved`). A tick goes through the
reservations in any order, each step of the walk keeps what `Kept` lists
(`ProcessedKeeps`), and then through the queue: `Walked` says after each request
that what stays is of those met, in order, too much for its caller's rest, and that
none was granted which came later and asked for as much. It carries over
because a grant leaves nobody more (`GrantOne`). A loan changes what two
callers have by opposite amounts (`NetMoved`, `BothEnds`), also where both are the
same caller. The invariant has that every waiting request belongs to a caller with
a binding: without it a tick would read a binding that is not there. Each action
keeps the invariant and the three action properties together (`GoodStep`).

*AdmissionProofs, cooldown.* `CooldownSound` and `ResolvedStays`, for any controllers,
clients and restarts. Counters are read before the heatmap's mutex is taken; they
are nevertheless never stale, because who lifts a cooldown keeps that mutex until
the lock manager has answered, and who counts keeps the lock manager's (`Counts`).
Only a start that notes the lease it has shortened writes without that, and
`ResolvedStaysResolved` excepts it. `CooldownInv` says of each statement of a
controller what the table and the limits are there, and `Limits` and `Starts` that,
unless a stop crossed a start, who sets the limits is the first to know of the
cooldown and who lifts them the last.

*AdmissionProofs, budgets.* `BudgetSound` and `ArrearsPaid`. That nobody pays a second
twice (`ChargedOnce`) says nothing of a crash, after which what was metered in
memory is gone: the invariant `BudgetInv` therefore measures by the table. What
was paid for a lock fits between its grant and the moment its *row* is metered up
to; the row is never ahead of the memory, nor the memory of the clock
(`HoldSound`). A bill drops what is left of a second, a release rounds it up: the
only place where more is paid than elapsed, and the holding ends there
(`LastSecond`). A new period, or a new budget, moves the memory's mark and not the
row's, which only costs seconds. Every operation is about one book and keeps
`BookSound` (`MeterHoldingKeeps`, `FinalizedKeeps`, `CheckPeriodResetKeeps`,
`RefreshCallerKeeps`, `LoadedKeeps`); the walks of a tick and of a bill go
through the holdings in any order, by the facts about folds. `LeasesSound` ties the
books to the lock manager, which writes its lease first and reports it later.
`ArrearsPaid` comes with the same steps (`Settles`): whoever is in arrears is
metered without being charged and billed by nobody. Memory and tables are told
apart by `None`, which is assumed to be none of the rows (`NoneAssumption`).

*ManagerProofs, breakers and plans.* `BreakersSound`: `BreakerInvariant` says of each caller that memory and
table agree and how many history rows have no end, one more or less for each crash
between the two rows of that breaker (`Fits`), and that a request under way is somebody's. Every
action does one of a few things to the breakers (recover, open, write back,
start, let time pass); a lemma each says what that does to one breaker.
`CooldownServed` and `CooldownNotExtended` are the two safety halves of `CooldownIsKept`.
`PlansSound`: a plan is applied as a whole or not at all. `PlanInv` adds that one request
at a time applies, that undoing what it has saved, row by row, leads back to the
rows it found, and that what it is about to write is what it read unless others
wrote there.

*ManagerProofs, handovers.* `HandoverInductive` traces every row of the tables. `Given`
says which resources the execution has moved, or has half moved; a row that is not
given is where it was when the execution began (`LocksTraced`, `TxsTraced`,
`ReservationsTraced`, with one clause for a resource between two statements, in either
direction), and a given one was the giver's. That much needs an execution that
nobody disturbs; what holds even of a disturbed one is `Taken`: transactions and
reservations that were moved are the receiver's, and were moved once, because
nobody else writes who holds them. A step is about resources of one type, the other
types are as they were (`Same`), so each statement has a short lemma for what it
writes and borrows the rest. From the invariant follow `HandoverSound` (while a quota
is in both rows the total is too high by what the giver used, `Twice`),
`EverythingOrNothing` (at the end every item of the list is moved, or nothing is left
to bring back: `BackInOrder`), `OnlyTheGiver`, and `EndsForGood`, the safety half of
`HandoversEnd`. A crash leaves a transaction, or a lock and its lease, between two
statements; if a handover later moves it and fails, it comes back whole, not as it
was. So `AllOrNothing` allows that the locks of a transaction, like the lease of a
lock, end with its holder: demanding them exactly where they were is false for
handovers of more resources than the run's.

*DebtLedgerProofs.* A tick and a return go through a list of debts with a fold. Each
is proved about as the states it goes through (`TickFold`, `PayFold`): books,
and the books after each debt. `TickWorks` is then an argument over the
positions of the list: what is not due is as it was, restrictions are only added,
and whoever had a debt treated is restricted if too many of its debts are
overdue; a later debt of another caller does not change that, a later one of
the same caller looks again. So it holds in whatever order debts that are due
at the same moment come. For `RestrictionsFollow` this must reach callers whose debts
were overdue before the tick: they are due too, which is the part `OverdueIsDue`
of the invariant. `ReturnsExact`: the sum owed and what is left of the payment fall
together, debt by debt, and at the end either is nothing (`ReturnWorks`); the list
names every open debt of the debtor once, active ones and overdue ones.

*DataProofs.* The library states induction for an operator given as a parameter, which
these provers cannot instantiate. Here it is stated about sets of numbers and of
finite sets (`NatSetInduction`, `FiniteSetInduction`, `StrongSetInduction`), derived from
the well-foundedness of strict inclusion. From it follow the facts about sums
over a set (`SumOnSet` of the community modules is a recursive function: that it
exists is `SumExists`), sums over sequences, folds from the left (`FoldExists`), the
rows that remain of a queue (`KeepPositions`), paths in a graph, and the existence of
a recursive function whose argument gets smaller (`DescentIsThere`).

Only model-checked: what is about liveness, since liveness under fairness and
`ENABLED` are beyond the prover. These are `LeasesAndWaitsEnd`, `SearchEnds`,
`PlansEnd` and `ChangesAreNoticed` as a whole, and the parts of `EndsOnceAndSurely`,
`DebtsAreSettled`, `AccountsAreSettled`, `PromisesAreKept`, `QueueIsServed`,
`CooldownIsKept` and `HandoversEnd` that say that something ends. Every other property
of a run is a theorem, without hypotheses but the named assumptions.

## 7. Not modelled

- One SQL statement failing inside a handler of the lock manager, and a crash
  between two statements of one handler (planned: LockManagerCrash). SQL errors in
  hand-overs and heartbeats, and the transfer of a single lease holder.
- Reputation: a score computed from counts. What it decides appears as the constant
  sets of gold and bronze callers.
- Maintenance windows: rows inserted by `Create` and ended by `Cancel`. What they
  block is a refusal any request may meet. Two windows created at the same moment
  may overlap, block what either blocks and must both be cancelled; the refresh
  that also writes statuses has no caller in the server.
- In ShadowPlan: what a replay or a mirror would have decided (it is only shown), and
  the tokens cut with a quota.
- Recovery scan: a report.
- In Heartbeat: lease durations, refusals for deadlock, admission and budget, and
  the renewal's test for frozen callers; the updates of the groups of one tick are
  one step, and so is the cascade from one group to those behind it.
- In RateLimit: a crash between the two writes of an activated reservation, and
  errors of single writes other than those of a loan and its return.
- In DebtLedger: ticks that are late without the server being down, and the
  width of the window in seconds.
- In LockBudget: the clean-up tick of the alerts, which cuts from the window what the
  next record cuts; a crash between a bill (`lockbudget/manager.go:370`) and the arrears
  it leaves (`:405`), which loses the arrears before they are on record.
- Of Heartbeat's `OnlyTheLostLose`: the steps that release a transaction, which let go of
  what the transaction has, whoever has it.
- Heat statistics, history, audit entries, events: they are written and shown, and
  nothing decides by them except where stated.
- HTTP decoding, row mapping, the server's `main`, the smoke test, type declarations.

## 8. Plan

*Done*: LockManager, LockService, LeaseLock, CycleSearch, FencingTokens,
ResourceRegistry and their composition, TopologyCascade, Orchestration,
CooldownControl, RateLimit, DebtLedger, AuditBreaker, Handover, Heartbeat,
LockBudget, ShadowPlan; proofs about all of them.

Next, in this order:

1. LockManagerCrash: the handlers of LockManager statement by statement, with
   crashes and failing statements.
