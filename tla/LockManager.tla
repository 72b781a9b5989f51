----------------------------- MODULE LockManager -----------------------------
(****************************************************************************)
(* The lease-lock manager (internal/lock/manager.go) over its SQLite tables *)
(* locks, leases and wait_queue.  Manager.mu serialises every handler, so a *)
(* handler is one action.  What runs outside the mutex has actions of its   *)
(* own: the Go runtime firing a timer, the goroutine it starts waiting for  *)
(* the mutex, the one-second ticker, the clock, and the end of the process. *)
(*                                                                          *)
(* Time is relative: a lease, a timer and a queue row carry the seconds     *)
(* left; Tick takes one away.  -1 stands for "strictly before now", the     *)
(* comparison the code makes with Time.Before; 0 is the deadline itself.    *)
(* A missing lock row and a row that is not held behave alike and are one   *)
(* value, FreeLock.                                                         *)
(****************************************************************************)
EXTENDS Integers, Sequences, FiniteSets, Rows, WaitGraph

CONSTANTS
  Locks,         \* lock names
  Holders,       \* caller ids
  Gold,          \* callers the reputation manager moves to the head of a queue
  Modes,         \* reentrancy clients ask for, a subset of BOOLEAN
  LeaseSecs,     \* lengths clients ask for when they acquire or renew
  CooldownSecs,  \* lengths the heatmap imposes on a hot lock
  WaitTimeout,   \* WaitTimeoutSec
  NoHolder,      \* the empty holder string
  NoTimer,       \* no entry in Manager.timers
  MaxRemaining,  \* bound: no renewal beyond this many seconds
  MaxCount,      \* bound on reentrancy
  MaxStray,      \* bound on expiry goroutines and orphaned timers of one lock
  MaxDowntime    \* bound: seconds between a crash and the restart

ASSUME LockManagerAssumption ==
  /\ Gold \subseteq Holders
  /\ IsFiniteSet(Locks) /\ IsFiniteSet(Holders)
  /\ NoHolder \notin Holders
  /\ Modes \subseteq BOOLEAN
  /\ LeaseSecs \subseteq Nat \ {0}
  /\ CooldownSecs \subseteq Nat \ {0}
  /\ WaitTimeout \in Nat
  /\ NoTimer \notin Nat
  /\ MaxRemaining \in Nat /\ MaxCount \in Nat
  /\ MaxStray \in Nat /\ MaxDowntime \in Nat
  /\ MaxCount >= 1
  /\ \A secs \in LeaseSecs : secs <= MaxRemaining

VARIABLES
  locks,        \* table locks: status, holder, reentrant, count
  leases,       \* table leases: the active row of each lock
  queue,        \* table wait_queue in the order of its ids
  timers,       \* Manager.timers: seconds to the armed expiry, or NoTimer
  firing,       \* expiry goroutines started by a timer, waiting for Manager.mu
  orphans,      \* armed runtime timers that Manager.timers no longer names
  accelerated   \* Manager.acceleratedGrants, 0 when absent

vars == <<locks, leases, queue, timers, firing, orphans, accelerated>>

-----------------------------------------------------------------------------
(* Rows *)

FreeLock == [status |-> "free", holder |-> NoHolder, reentrant |-> FALSE, count |-> 0]
HeldLock(h, re) == [status |-> "held", holder |-> h, reentrant |-> re, count |-> 1]

NoLease == [holder |-> NoHolder, remaining |-> 0]
LeaseOf(h, secs) == [holder |-> h, remaining |-> secs]

WaitRow(h, re, secs) ==
  [holder |-> h, reentrant |-> re, lease |-> secs, timeout |-> WaitTimeout]

Held(l) == locks[l].status = "held"
Waiting(l) == {queue[l][i].holder : i \in DOMAIN queue[l]}

Smaller(a, b) == IF a < b THEN a ELSE b
Larger(a, b) == IF a > b THEN a ELSE b

(* n seconds later: deadlines stop at "past", timers at "due" *)
Later(remaining, n) == Larger(remaining - n, -1)
Sooner(duration, n) == Larger(duration - n, 0)

(* Cooldown caps the lease of a grant that goes through Acquire or the queue. *)
Capped(cap, secs) == IF cap > 0 THEN Smaller(secs, cap) ELSE secs

-----------------------------------------------------------------------------
(* tryGrantNextLocked: rows leave the head of the queue until one has not    *)
(* timed out and the budget manager lets its caller hold another lock.       *)
(* denied is the set of callers the budget manager turns down at that        *)
(* moment; it belongs to another component and may be any set.               *)

Grantable(row, denied) == row.timeout >= 0 /\ row.holder \notin denied

FirstGrantable(q, denied) ==
  LET able == {i \in DOMAIN q : Grantable(q[i], denied)}
  IN  IF able = {} THEN 0 ELSE CHOOSE i \in able : \A j \in able : i <= j

Grantees(q) == {FirstGrantable(q, denied) : denied \in SUBSET Holders}

NextLock(q, i) == IF i = 0 THEN FreeLock ELSE HeldLock(q[i].holder, q[i].reentrant)

(* Seeded fault: the granted row stays. *)
NextQueueKeepsGranted(q, i) == IF i = 0 THEN << >> ELSE SubSeq(q, i, Len(q))

NextQueue(q, i) == IF i = 0 THEN << >> ELSE SubSeq(q, i + 1, Len(q))
NextSecs(cap, q, i) == Capped(cap, q[i].lease)
NextLease(cap, q, i) ==
  IF i = 0 THEN NoLease ELSE LeaseOf(q[i].holder, NextSecs(cap, q, i))
NextTimer(cap, q, i) == IF i = 0 THEN NoTimer ELSE NextSecs(cap, q, i)

(* The locks in S lose their holder; each goes to the row of its queue that  *)
(* is granted, or to nobody.  The other locks keep the rows given here.      *)
Vacate(S, q, lease, timer, cap) ==
  \E next \in [S -> 0..Cardinality(Holders)] :
    /\ \A l \in S : next[l] \in Grantees(q[l])
    /\ locks' = [l \in Locks |-> IF l \in S THEN NextLock(q[l], next[l]) ELSE locks[l]]
    /\ queue' = [l \in Locks |-> IF l \in S THEN NextQueue(q[l], next[l]) ELSE q[l]]
    /\ leases' = [l \in Locks |-> IF l \in S THEN NextLease(cap[l], q[l], next[l]) ELSE lease[l]]
    /\ timers' = [l \in Locks |-> IF l \in S THEN NextTimer(cap[l], q[l], next[l]) ELSE timer[l]]

(* checkDeadlockLocked: the wait-for graph plus the edge about to be added.  *)
WaitEdges ==
  UNION {{<<w, locks[l].holder>> : w \in Waiting(l) \ {locks[l].holder}} :
           l \in {k \in Locks : Held(k)}}
(* Seeded fault: the graph is searched without the new edge. *)
WouldDeadlockAlready(h, l) == HasCycleFrom(WaitEdges, Holders, h)

WouldDeadlock(h, l) ==
  HasCycleFrom(WaitEdges \cup {<<h, locks[l].holder>>}, Holders, h)

-----------------------------------------------------------------------------
Init ==
  /\ locks = [l \in Locks |-> FreeLock]
  /\ leases = [l \in Locks |-> NoLease]
  /\ queue = [l \in Locks |-> << >>]
  /\ timers = [l \in Locks |-> NoTimer]
  /\ firing = [l \in Locks |-> 0]
  /\ orphans = [l \in Locks |-> << >>]
  /\ accelerated = [l \in Locks |-> 0]

(* AcquireLock.  A refusal (admission, budget, bronze limit, deadlock,       *)
(* already queued, already held) changes nothing and is a stuttering step.   *)

AcquireAgain(h, l) ==
  /\ locks[l].holder = h /\ locks[l].reentrant
  /\ locks[l].count < MaxCount
  /\ locks' = [locks EXCEPT ![l].count = @ + 1]
  /\ UNCHANGED <<leases, queue, timers, firing, orphans, accelerated>>

(* Seeded faults: every caller goes to the front of the queue; rows that are *)
(* moved behind a gold caller start to wait anew.                            *)
EnqueueInFront(h, l, secs, re) ==
  /\ Held(l) /\ locks[l].holder # h
  /\ ~ WouldDeadlock(h, l)
  /\ h \notin Waiting(l)
  /\ queue' = [queue EXCEPT ![l] = <<WaitRow(h, re, secs)>> \o @]
  /\ UNCHANGED <<locks, leases, timers, firing, orphans, accelerated>>
EnqueueRenewsWaits(h, l, secs, re) ==
  /\ Held(l) /\ locks[l].holder # h
  /\ ~ WouldDeadlock(h, l)
  /\ h \notin Waiting(l)
  /\ queue' = [queue EXCEPT ![l] =
       IF h \in Gold
       THEN <<WaitRow(h, re, secs)>> \o
              [i \in DOMAIN @ |-> [@[i] EXCEPT !.timeout = WaitTimeout]]
       ELSE Append(@, WaitRow(h, re, secs))]
  /\ UNCHANGED <<locks, leases, timers, firing, orphans, accelerated>>

Enqueue(h, l, secs, re) ==
  /\ Held(l) /\ locks[l].holder # h
  /\ ~ WouldDeadlock(h, l)
  /\ h \notin Waiting(l)
  /\ queue' = [queue EXCEPT ![l] = IF h \in Gold THEN <<WaitRow(h, re, secs)>> \o @
                                                 ELSE Append(@, WaitRow(h, re, secs))]
  /\ UNCHANGED <<locks, leases, timers, firing, orphans, accelerated>>

AcquireFree(h, l, secs, re) ==
  /\ ~ Held(l)
  /\ locks' = [locks EXCEPT ![l] = HeldLock(h, re)]
  /\ leases' = [leases EXCEPT ![l] = LeaseOf(h, Capped(accelerated[l], secs))]
  /\ timers' = [timers EXCEPT ![l] = Capped(accelerated[l], secs)]
  /\ UNCHANGED <<queue, firing, orphans, accelerated>>

AcquireLock(h, l, secs, re) ==
  \/ re /\ AcquireAgain(h, l)
  \/ Enqueue(h, l, secs, re)
  \/ AcquireFree(h, l, secs, re)

(* AcquireLocksBatch: all the locks or none.  When admission or the budget   *)
(* refuses one, those already taken are released again, each through the     *)
(* same path as ReleaseLock.                                                 *)
AcquireLocksBatch(h, names, secs, re) ==
  /\ \A l \in names : ~ Held(l)
  /\ locks' = [l \in Locks |-> IF l \in names THEN HeldLock(h, re) ELSE locks[l]]
  /\ leases' = [l \in Locks |-> IF l \in names THEN LeaseOf(h, secs) ELSE leases[l]]
  /\ timers' = [l \in Locks |-> IF l \in names THEN secs ELSE timers[l]]
  /\ UNCHANGED <<queue, firing, orphans, accelerated>>

RollbackBatch(taken) ==
  /\ \A l \in taken : ~ Held(l)
  /\ Vacate(taken, queue, leases, timers, accelerated)
  /\ UNCHANGED <<firing, orphans, accelerated>>

(* ReleaseLock *)

ReleaseOnce(h, l) ==
  /\ locks[l].holder = h /\ locks[l].reentrant /\ locks[l].count > 1
  /\ locks' = [locks EXCEPT ![l].count = @ - 1]
  /\ UNCHANGED <<leases, queue, timers, firing, orphans, accelerated>>

ReleaseLast(h, l) ==
  /\ locks[l].holder = h /\ ~ (locks[l].reentrant /\ locks[l].count > 1)
  /\ Vacate({l}, queue, leases, timers, accelerated)
  /\ UNCHANGED <<firing, orphans, accelerated>>

ReleaseLock(h, l) == ReleaseOnce(h, l) \/ ReleaseLast(h, l)

(* RenewLease.  On a lock that is being cooled down a request beyond the     *)
(* cooldown is replaced by the whole cooldown, on top of what is left.       *)
Extension(l, secs) ==
  IF accelerated[l] > 0 /\ leases[l].remaining + secs > accelerated[l]
  THEN accelerated[l] ELSE secs

(* Seeded fault: the timer is left as it was. *)
RenewLeaseOnly(h, l, secs) ==
  /\ leases[l].holder = h /\ leases[l].remaining >= 0
  /\ leases[l].remaining + Extension(l, secs) <= MaxRemaining
  /\ leases' = [leases EXCEPT ![l].remaining = @ + Extension(l, secs)]
  /\ UNCHANGED <<locks, queue, timers, firing, orphans, accelerated>>

RenewLease(h, l, secs) ==
  /\ leases[l].holder = h /\ leases[l].remaining >= 0
  /\ LET left == leases[l].remaining + Extension(l, secs)
     IN  /\ left <= MaxRemaining
         /\ leases' = [leases EXCEPT ![l].remaining = left]
         /\ timers' = [timers EXCEPT ![l] = left]
  /\ UNCHANGED <<locks, queue, firing, orphans, accelerated>>

(* ShortenLease, called by the heatmap; a lease is never made longer. *)
ShortenLease(l, secs) ==
  /\ leases[l] # NoLease
  /\ LET left == Smaller(secs, leases[l].remaining)
     IN  /\ leases' = [leases EXCEPT ![l].remaining = left]
         /\ timers' = [timers EXCEPT ![l] = Larger(left, 0)]
  /\ UNCHANGED <<locks, queue, firing, orphans, accelerated>>

SetAcceleratedGrant(l, secs) ==
  /\ accelerated' = [accelerated EXCEPT ![l] = secs]
  /\ UNCHANGED <<locks, leases, queue, timers, firing, orphans>>

(* CancelWaitForHolder: every wait of the caller, on whatever lock. *)
CancelWaitForHolder(h) ==
  /\ queue' = [l \in Locks |-> Without(queue[l], LAMBDA row : row.holder = h)]
  /\ UNCHANGED <<locks, leases, timers, firing, orphans, accelerated>>

(* checkWaitQueueTimeouts, once a second. *)
CheckWaitQueueTimeouts ==
  /\ queue' = [l \in Locks |-> Without(queue[l], LAMBDA row : row.timeout < 0)]
  /\ UNCHANGED <<locks, leases, timers, firing, orphans, accelerated>>

-----------------------------------------------------------------------------
(* The Go runtime starts the goroutine of a due timer.  From here on Stop    *)
(* has no effect: the goroutine waits for Manager.mu.                        *)
Strays(l) == firing[l] + Len(orphans[l])

TimerFires(l) ==
  /\ timers[l] = 0
  /\ Strays(l) < MaxStray
  /\ timers' = [timers EXCEPT ![l] = NoTimer]
  /\ firing' = [firing EXCEPT ![l] = @ + 1]
  /\ UNCHANGED <<locks, leases, queue, orphans, accelerated>>

OrphanFires(l) ==
  /\ \E i \in DOMAIN orphans[l] :
       /\ orphans[l][i] = 0
       /\ orphans' = [orphans EXCEPT ![l] = Keep(@, DOMAIN @ \ {i})]
  /\ firing' = [firing EXCEPT ![l] = @ + 1]
  /\ UNCHANGED <<locks, leases, queue, timers, accelerated>>

(* expireLock.  It looks at the status of the lock and not at the expiry of  *)
(* its lease, and forgets the entry of Manager.timers without stopping it.   *)
Forgotten(l) == IF timers[l] = NoTimer THEN << >> ELSE <<timers[l]>>

(* Seeded fault: a lease exactly at its deadline does not count as expired. *)
ExpireLockPastOnly(l) ==
  /\ firing[l] > 0
  /\ firing' = [firing EXCEPT ![l] = @ - 1]
  /\ IF Held(l) /\ leases[l].remaining < 0
     THEN /\ orphans' = [orphans EXCEPT ![l] = @ \o Forgotten(l)]
          /\ Vacate({l}, queue, leases, timers, accelerated)
     ELSE UNCHANGED <<locks, leases, queue, timers, orphans>>
  /\ UNCHANGED accelerated

ExpireLock(l) ==
  /\ firing[l] > 0
  /\ firing' = [firing EXCEPT ![l] = @ - 1]
  /\ IF Held(l)
     THEN /\ orphans' = [orphans EXCEPT ![l] = @ \o Forgotten(l)]
          /\ Vacate({l}, queue, leases, timers, accelerated)
     ELSE UNCHANGED <<locks, leases, queue, timers, orphans>>
  /\ UNCHANGED accelerated

(* One second passes. *)
AgedLeases(n) ==
  [l \in Locks |-> IF leases[l] = NoLease THEN NoLease
                   ELSE [leases[l] EXCEPT !.remaining = Later(@, n)]]
AgedQueue(n) ==
  [l \in Locks |-> [i \in DOMAIN queue[l] |->
                      [queue[l][i] EXCEPT !.timeout = Later(@, n)]]]

Tick ==
  /\ leases' = AgedLeases(1)
  /\ queue' = AgedQueue(1)
  /\ timers' = [l \in Locks |-> IF timers[l] = NoTimer THEN NoTimer ELSE Sooner(timers[l], 1)]
  /\ orphans' = [l \in Locks |-> [i \in DOMAIN orphans[l] |-> Sooner(orphans[l][i], 1)]]
  /\ UNCHANGED <<locks, firing, accelerated>>

(* The process stops between two handlers and starts again down seconds      *)
(* later: the tables survive, timers, goroutines and acceleratedGrants do    *)
(* not.  heatmap.Start has put back the grants of the cooldowns that are     *)
(* still active (kept) when rebuildTimersLocked expires the leases that ran  *)
(* out and re-arms the others.                                               *)
Restart(down, kept) ==
  LET aged == AgedLeases(down)
      cap == [l \in Locks |-> IF l \in kept THEN accelerated[l] ELSE 0]
      expired == {l \in Locks : aged[l].remaining < 0}
      rebuilt == [l \in Locks |-> IF aged[l] = NoLease THEN NoTimer
                                                     ELSE aged[l].remaining]
  IN  /\ Vacate(expired, AgedQueue(down), aged, rebuilt, cap)
      /\ accelerated' = cap
      /\ firing' = [l \in Locks |-> 0]
      /\ orphans' = [l \in Locks |-> << >>]

-----------------------------------------------------------------------------
ClientStep ==
  \E h \in Holders :
    \/ \E l \in Locks, secs \in LeaseSecs, re \in Modes : AcquireLock(h, l, secs, re)
    \/ \E names \in SUBSET Locks, secs \in LeaseSecs, re \in Modes :
         AcquireLocksBatch(h, names, secs, re)
    \/ \E l \in Locks : ReleaseLock(h, l)
    \/ \E l \in Locks, secs \in LeaseSecs : RenewLease(h, l, secs)
    \/ CancelWaitForHolder(h)

CooldownStep ==
  \E l \in Locks :
    \/ \E secs \in CooldownSecs : ShortenLease(l, secs)
    \/ \E secs \in CooldownSecs \cup {0} : SetAcceleratedGrant(l, secs)

Next ==
  \/ ClientStep
  \/ \E taken \in SUBSET Locks : RollbackBatch(taken)
  \/ CooldownStep
  \/ CheckWaitQueueTimeouts
  \/ \E l \in Locks : TimerFires(l) \/ OrphanFires(l) \/ ExpireLock(l)
  \/ Tick
  \/ \E down \in 0..MaxDowntime, kept \in SUBSET Locks : Restart(down, kept)

(* Time goes on, the runtime fires due timers, a goroutine that waits for    *)
(* the mutex gets it, and the ticker of watchWaitQueue keeps running.        *)
(* Clients promise nothing.                                                  *)
Fairness ==
  /\ WF_vars(Tick)
  /\ WF_vars(CheckWaitQueueTimeouts)
  /\ \A l \in Locks : /\ WF_vars(TimerFires(l))
                      /\ WF_vars(OrphanFires(l))
                      /\ WF_vars(ExpireLock(l))

Spec == Init /\ [][Next]_vars
FairSpec == Spec /\ Fairness

-----------------------------------------------------------------------------
(* Types *)

Lock ==
  [status : {"free", "held"}, holder : Holders \cup {NoHolder},
   reentrant : BOOLEAN, count : 0..MaxCount]
Lease == [holder : Holders \cup {NoHolder}, remaining : -1..MaxRemaining]
Row ==
  [holder : Holders, reentrant : BOOLEAN, lease : LeaseSecs, timeout : -1..WaitTimeout]

(* Every variable keeps its type. *)
TypeOK ==
  /\ locks \in [Locks -> Lock]
  /\ leases \in [Locks -> Lease]
  /\ queue \in [Locks -> Seq(Row)]
  /\ timers \in [Locks -> Nat \cup {NoTimer}]
  /\ firing \in [Locks -> Nat]
  /\ orphans \in [Locks -> Seq(Nat)]
  /\ accelerated \in [Locks -> CooldownSecs \cup {0}]

(* The tables locks and leases, written by separate statements of every      *)
(* handler, agree: a lock has a holder exactly when it has an active lease,  *)
(* the lease is the holder's, and only a reentrant lock is counted up.       *)
LeaseMatchesLock ==
  \A l \in Locks :
    /\ IF Held(l) THEN /\ locks[l].holder \in Holders
                       /\ leases[l].holder = locks[l].holder
                       /\ locks[l].count >= 1
                       /\ locks[l].count > 1 => locks[l].reentrant
                  ELSE locks[l] = FreeLock /\ leases[l] = NoLease

(* Nobody queues for a free lock: whoever frees a lock hands it over, so a   *)
(* newcomer that finds the lock free passes nobody (tryGrantNextLocked,      *)
(* expireLockLocked, rebuildTimersLocked).                                   *)
FreeMeansNoQueue == \A l \in Locks : ~ Held(l) => queue[l] = << >>

(* A caller never waits for a lock it holds, nor twice for one lock: a later *)
(* grant would give it a second lease behind its back.                       *)
WaitsOnce ==
  \A l \in Locks :
    /\ locks[l].holder \notin Waiting(l)
    /\ \A i, j \in DOMAIN queue[l] : queue[l][i].holder = queue[l][j].holder => i = j

(* Every held lock will be expired: its timer is armed for the very instant  *)
(* its lease ends, or the lease has ended and a goroutine is on its way.     *)
LeaseIsWatched ==
  \A l \in Locks :
    IF Held(l) THEN IF timers[l] = NoTimer
                    THEN firing[l] > 0 /\ leases[l].remaining <= 0
                    ELSE timers[l] = Larger(leases[l].remaining, 0)
               ELSE timers[l] = NoTimer

(* Tables, queues and timers are sound together, whatever requests,          *)
(* goroutines, cooldowns and restarts come between each other: they agree,   *)
(* nobody waits for a free lock, for its own, or twice, and no lease goes    *)
(* unwatched.                                                                *)
LocksAreSound ==
  TypeOK /\ LeaseMatchesLock /\ FreeMeansNoQueue /\ WaitsOnce /\ LeaseIsWatched

(* Whoever is in the queue keeps its place.  Of two waiters the later is     *)
(* never served while the earlier stays queued and never moves ahead of it,  *)
(* only a gold caller comes in before those already waiting                  *)
(* (ReorderWaitQueueForGold), and nobody takes the lock past a queue.        *)
Ahead(l, a, b) ==
  \E i, j \in DOMAIN queue[l] :
    i < j /\ queue[l][i].holder = a /\ queue[l][j].holder = b

KeepsPlace(l, a, b) ==
  Ahead(l, a, b) /\ a \in Waiting(l)' =>
    locks'[l].holder # b /\ ~ Ahead(l, b, a)'
EntersBehind(l, a, b) ==
  a \in Waiting(l) /\ b \notin Waiting(l) /\ Ahead(l, b, a)' => b \in Gold
TakesOnlyFree(l, b) ==
  locks'[l].holder = b /\ locks[l].holder # b /\ b \notin Waiting(l) => Waiting(l) = {}

QueueIsFair ==
  [][\A l \in Locks, a, b \in Holders :
       KeepsPlace(l, a, b) /\ EntersBehind(l, a, b) /\ TakesOnlyFree(l, b)]_vars

(* A request never closes a cycle of waits: the check at the door of         *)
(* AcquireLock sees to it.  Only a lock passing from one holder to another,  *)
(* which redirects the waits of those behind, can.                           *)
CyclesComeFromHandOff ==
  [][Acyclic(WaitEdges, Holders) /\ ~ Acyclic(WaitEdges, Holders)' =>
       \E l \in Locks : /\ Held(l) /\ Held(l)'
                        /\ locks[l].holder # locks'[l].holder]_vars

(* What the other managers of the server rely on: whatever leases, timers,   *)
(* cooldowns, sweeps and restarts do, a caller sees the service LockService  *)
(* describes, every step one of its answers or the loss of some locks.       *)
Service == INSTANCE LockService WITH
  queue <- [l \in Locks |-> [i \in DOMAIN queue[l] |->
              [holder |-> queue[l][i].holder, reentrant |-> queue[l][i].reentrant]]]
ImplementsLockService == Service!LockServiceSpec

(* A lease that ran out is ended, whatever renewals, shortenings and         *)
(* restarts happen around it.                                                *)
RanOut(l) == Held(l) /\ leases[l].remaining < 0
ExpiredLeaseEnds == \A l \in Locks : RanOut(l) ~> ~ RanOut(l)

(* Nobody waits for ever: a queued caller gets the lock or leaves the queue, *)
(* even when others keep arriving in front of it.                            *)
EveryWaitEnds ==
  \A l \in Locks, h \in Holders : h \in Waiting(l) ~> h \notin Waiting(l)

(* Neither a lease that ran out nor a wait lasts for ever, whatever clients  *)
(* do in between.                                                            *)
LeasesAndWaitsEnd == ExpiredLeaseEnds /\ EveryWaitEnds

(* A lock is taken from its holder by the clock only when the lease is over  *)
(* ("lease expired" in the history of the lock).                             *)
OnlyDeadLeasesExpire ==
  [][\A l \in Locks : ExpireLock(l) /\ Held(l) => leases[l].remaining <= 0]_vars

(* A renewal while the lock is being cooled down gives no more than was      *)
(* asked for.                                                                *)
CooldownLimitsRenewal ==
  [][\A h \in Holders, l \in Locks, secs \in LeaseSecs :
       RenewLease(h, l, secs) => leases'[l].remaining <= leases[l].remaining + secs]_vars

=============================================================================
