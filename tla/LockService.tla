----------------------------- MODULE LockService -----------------------------
(***************************************************************************)
(* The lock manager as its callers inside the server see it: who holds a   *)
(* lock, how often, and who queues for it.  Leases, timers and cooldowns   *)
(* are gone; what they do to a holder is Lose, which may happen at any     *)
(* time.  LockManager implements this, and the modules of the managers     *)
(* that call the lock manager extend it.  The operators constrain locks    *)
(* and queue only.                                                         *)
(***************************************************************************)
EXTENDS Integers, Sequences, Rows

CONSTANTS Locks, Holders, NoHolder, MaxCount

ASSUME ServiceAssumption ==
  /\ NoHolder \notin Holders
  /\ IsFiniteSet(Holders)
  /\ MaxCount \in Nat \ {0}

VARIABLES locks, queue

FreeLock == [status |-> "free", holder |-> NoHolder, reentrant |-> FALSE, count |-> 0]
HeldLock(h, re) == [status |-> "held", holder |-> h, reentrant |-> re, count |-> 1]

Held(l) == locks[l].status = "held"
Waiting(l) == {queue[l][i].holder : i \in DOMAIN queue[l]}

InitLocks ==
  /\ locks = [l \in Locks |-> FreeLock]
  /\ queue = [l \in Locks |-> << >>]

-----------------------------------------------------------------------------
(* AcquireLock, by what it answers.  It can always answer "refused" (an      *)
(* error or a deadlock) and "rejected" (the budget is spent: no error, and   *)
(* neither queued nor a deadlock).                                           *)
Row(h, re) == [holder |-> h, reentrant |-> re]

(* Seeded fault: the status of the lock is not looked at. *)
GrantedAnyway(h, l, re) ==
  /\ locks' = [locks EXCEPT ![l] = HeldLock(h, re)]
  /\ UNCHANGED queue

Granted(h, l, re) ==
  \/ /\ ~ Held(l)
     /\ locks' = [locks EXCEPT ![l] = HeldLock(h, re)]
     /\ UNCHANGED queue
  \/ /\ locks[l].holder = h /\ locks[l].reentrant /\ re
     /\ locks[l].count < MaxCount
     /\ locks' = [locks EXCEPT ![l].count = @ + 1]
     /\ UNCHANGED queue

Queued(h, l, re) ==
  /\ Held(l) /\ locks[l].holder # h /\ h \notin Waiting(l)
  /\ \/ queue' = [queue EXCEPT ![l] = Append(@, Row(h, re))]
     \/ queue' = [queue EXCEPT ![l] = <<Row(h, re)>> \o @]
  /\ UNCHANGED locks

Refused == UNCHANGED <<locks, queue>>

Acquire(h, l, re, answer) ==
  \/ answer = "granted" /\ Granted(h, l, re)
  \/ answer = "queued" /\ Queued(h, l, re)
  \/ answer \in {"refused", "rejected"} /\ Refused

(* AcquireLocksBatch, when it succeeds. *)
AcquireAll(h, names, re) ==
  /\ \A l \in names : ~ Held(l)
  /\ locks' = [l \in Locks |-> IF l \in names THEN HeldLock(h, re) ELSE locks[l]]
  /\ UNCHANGED queue

(* The locks in S lose their holder: each goes to some row of its queue,     *)
(* those before it being dropped, or to nobody, the queue being dropped.     *)
Successor(l, i) == IF i = 0 THEN FreeLock ELSE HeldLock(queue[l][i].holder, queue[l][i].reentrant)

(* Seeded fault: the row that was granted stays. *)
RestAll(l, i) == IF i = 0 THEN << >> ELSE [n \in 1 .. (Len(queue[l]) + 1 - i) |-> queue[l][n + i - 1]]

Rest(l, i) == IF i = 0 THEN << >> ELSE [n \in 1 .. (Len(queue[l]) - i) |-> queue[l][n + i]]

Lose(S) ==
  \E next \in [S -> 0 .. Cardinality(Holders)] :
    /\ \A l \in S : next[l] <= Len(queue[l])
    /\ locks' = [l \in Locks |-> IF l \in S THEN Successor(l, next[l]) ELSE locks[l]]
    /\ queue' = [l \in Locks |-> IF l \in S THEN Rest(l, next[l]) ELSE queue[l]]

(* ReleaseLock.  A caller that is not the holder is refused. *)
Release(h, l) ==
  IF locks[l].holder # h
  THEN UNCHANGED <<locks, queue>>
  ELSE IF locks[l].reentrant /\ locks[l].count > 1
       THEN locks' = [locks EXCEPT ![l].count = @ - 1] /\ UNCHANGED queue
       ELSE Lose({l})

(* Rows leave a queue: CancelWaitForHolder, or their time is over. *)
CancelWaits(h) ==
  /\ queue' = [l \in Locks |-> Without(queue[l], LAMBDA row : row.holder = h)]
  /\ UNCHANGED locks

TimeOutWaits ==
  /\ \E kept \in [Locks -> SUBSET (1 .. Cardinality(Holders))] :
       queue' = [l \in Locks |-> Keep(queue[l], DOMAIN queue[l] \cap kept[l])]
  /\ UNCHANGED locks

ServiceNext ==
  \/ \E h \in Holders :
       \/ \E l \in Locks, re \in BOOLEAN : Granted(h, l, re) \/ Queued(h, l, re)
       \/ \E l \in Locks : Release(h, l)
       \/ \E names \in SUBSET Locks, re \in BOOLEAN : AcquireAll(h, names, re)
  \/ \E S \in SUBSET Locks : Lose(S)
  \/ TimeOutWaits

LockServiceSpec == InitLocks /\ [][ServiceNext]_<<locks, queue>>

-----------------------------------------------------------------------------
(* The service keeps the promise LeaseLock makes: one owner at a time, who   *)
(* is followed by one of those who waited, and no newcomer in between.       *)
Promise == INSTANCE LeaseLock WITH
  owner <- [l \in Locks |-> locks[l].holder],
  waiters <- [l \in Locks |-> Waiting(l)]
KeepsPromise == Promise!Spec

(* Nobody waits for a lock that is free, that it holds itself, or twice.     *)
QueueIsSound ==
  \A l \in Locks :
    /\ ~ Held(l) => locks[l] = FreeLock /\ queue[l] = << >>
    /\ locks[l].holder \notin Waiting(l)
    /\ \A i, j \in DOMAIN queue[l] : queue[l][i].holder = queue[l][j].holder => i = j

=============================================================================
