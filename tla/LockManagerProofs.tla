-------------------------- MODULE LockManagerProofs --------------------------
(***************************************************************************)
(* Theorems about LockManager and CycleSearch, for every set of locks and  *)
(* callers and every bound: the tables are sound, the search for deadlocks *)
(* is right, the manager is a LockService, no request closes a cycle, and  *)
(* queues are fair.                                                        *)
(*                                                                         *)
(* The invariants are proved together: each handler reads one table and    *)
(* writes another, so none of them is inductive by itself.  CellOK says    *)
(* the same of one lock, as a predicate on its rows, so that what an       *)
(* operation writes for one lock is argued about once.                     *)
(***************************************************************************)
EXTENDS LockManager, CycleSearch, DataProofs

IInv ==
  TypeOK /\ LeaseMatchesLock /\ FreeMeansNoQueue /\ WaitsOnce /\ LeaseIsWatched

WaitersOf(q) == {q[i].holder : i \in DOMAIN q}

QueueOK(q) ==
  /\ q \in Seq(Row)
  /\ \A i, j \in DOMAIN q : q[i].holder = q[j].holder => i = j

CellOK(lk, ls, q, tm, fr) ==
  /\ lk \in Lock /\ ls \in Lease /\ tm \in Nat \cup {NoTimer} /\ fr \in Nat
  /\ QueueOK(q)
  /\ lk.holder \notin WaitersOf(q)
  /\ IF lk.status = "held"
     THEN /\ lk.holder \in Holders
          /\ ls.holder = lk.holder
          /\ lk.count >= 1
          /\ lk.count > 1 => lk.reentrant
          /\ IF tm = NoTimer THEN fr > 0 /\ ls.remaining <= 0
                             ELSE tm = Larger(ls.remaining, 0)
     ELSE lk = FreeLock /\ ls = NoLease /\ q = << >> /\ tm = NoTimer

Cell(l) == CellOK(locks[l], leases[l], queue[l], timers[l], firing[l])

Tables ==
  /\ locks = [l \in Locks |-> locks[l]]
  /\ leases = [l \in Locks |-> leases[l]]
  /\ queue = [l \in Locks |-> queue[l]]
  /\ timers = [l \in Locks |-> timers[l]]
  /\ firing = [l \in Locks |-> firing[l]]
  /\ orphans \in [Locks -> Seq(Nat)]
  /\ accelerated \in [Locks -> CooldownSecs \cup {0}]

CellsOK == Tables /\ \A l \in Locks : Cell(l)

-----------------------------------------------------------------------------
(* The invariant is the conjunction of the cells. *)
LEMMA CellsAreInvariant == IInv <=> CellsOK
<1>1. ASSUME IInv PROVE Tables /\ \A l \in Locks : Cell(l)
  <2>1. Tables
    BY <1>1 DEF IInv, TypeOK, Tables
  <2>2. ASSUME NEW l \in Locks PROVE Cell(l)
    <3>1. /\ locks[l] \in Lock /\ leases[l] \in Lease /\ queue[l] \in Seq(Row)
          /\ timers[l] \in Nat \cup {NoTimer} /\ firing[l] \in Nat
      BY <1>1 DEF IInv, TypeOK
    <3>2. QueueOK(queue[l]) /\ locks[l].holder \notin WaitersOf(queue[l])
      BY <1>1, <3>1 DEF IInv, WaitsOnce, QueueOK, WaitersOf, Waiting
    <3> QED
      BY <1>1, <3>1, <3>2
      DEF IInv, LeaseMatchesLock, FreeMeansNoQueue, LeaseIsWatched, Cell, CellOK, Held
  <2> QED BY <2>1, <2>2
<1>2. ASSUME Tables, \A l \in Locks : Cell(l) PROVE IInv
  <2>1. TypeOK
    BY <1>2 DEF Tables, TypeOK, Cell, CellOK, QueueOK
  <2>2. LeaseMatchesLock
    BY <1>2 DEF LeaseMatchesLock, Cell, CellOK, Held
  <2>3. FreeMeansNoQueue
    BY <1>2 DEF FreeMeansNoQueue, Cell, CellOK, Held
  <2>4. WaitsOnce
    BY <1>2 DEF WaitsOnce, Cell, CellOK, QueueOK, WaitersOf, Waiting
  <2>5. LeaseIsWatched
    BY <1>2 DEF LeaseIsWatched, Cell, CellOK, Held
  <2> QED BY <2>1, <2>2, <2>3, <2>4, <2>5 DEF IInv
<1> QED BY <1>1, <1>2 DEF CellsOK

(* The cap of a cooldown leaves a positive length that is no longer. *)
LEMMA CappedLength ==
  ASSUME NEW cap \in CooldownSecs \cup {0}, NEW secs \in LeaseSecs
  PROVE  Capped(cap, secs) \in 1..MaxRemaining
BY LockManagerAssumption DEF Capped, Smaller

(* A fresh grant leaves a consistent cell. *)
LEMMA GrantedCell ==
  ASSUME NEW h \in Holders, NEW re \in BOOLEAN, NEW secs \in 1..MaxRemaining,
         NEW q, QueueOK(q), h \notin WaitersOf(q), NEW fr \in Nat
  PROVE  CellOK(HeldLock(h, re), LeaseOf(h, secs), q, secs, fr)
BY LockManagerAssumption
DEF CellOK, HeldLock, LeaseOf, Lock, Lease, Larger

(* The row tryGrantNextLocked picks is a row of the queue. *)
LEMMA GranteeIsRow ==
  ASSUME NEW q, QueueOK(q), NEW n \in Grantees(q)
  PROVE  n \in 0..Len(q)
<1>1. Len(q) \in Nat /\ DOMAIN q = 1..Len(q)
  BY LenProperties DEF QueueOK
<1>2. PICK denied \in SUBSET Holders : n = FirstGrantable(q, denied)
  BY DEF Grantees
<1> DEFINE able == {i \in DOMAIN q : Grantable(q[i], denied)}
<1>3. CASE able = {}
  BY <1>1, <1>2, <1>3 DEF FirstGrantable
<1>4. CASE able # {}
  <2>1. able \in SUBSET Nat
    BY <1>1
  <2>2. \E i \in able : \A j \in able : i <= j
    BY <2>1, <1>4, LeastMember
  <2> QED BY <1>1, <1>2, <1>4, <2>2 DEF FirstGrantable
<1> QED BY <1>3, <1>4

(* What handing a lock over leaves behind is a consistent cell: either the   *)
(* granted row became the holder and the rows behind it still wait, or the   *)
(* lock is free and the queue is empty.                                      *)
LEMMA HandedCell ==
  ASSUME NEW q, QueueOK(q), NEW n \in Grantees(q),
         NEW cap \in CooldownSecs \cup {0}, NEW fr \in Nat
  PROVE  CellOK(NextLock(q, n), NextLease(cap, q, n), NextQueue(q, n),
                NextTimer(cap, q, n), fr)
<1>1. Len(q) \in Nat /\ DOMAIN q = 1..Len(q) /\ \A i \in DOMAIN q : q[i] \in Row
  BY LenProperties, ElementOfSeq DEF QueueOK
<1>2. n \in 0..Len(q)
  BY GranteeIsRow
<1>3. CASE n = 0
  <2>1. QueueOK(<< >>) /\ WaitersOf(<< >>) = {}
    BY EmptySeq DEF QueueOK, WaitersOf
  <2> QED
    BY <1>3, <2>1, LockManagerAssumption
    DEF CellOK, NextLock, NextLease, NextQueue, NextTimer, FreeLock, NoLease, Lock, Lease
<1>4. CASE n # 0
  <2> DEFINE rest == SubSeq(q, n + 1, Len(q))
             secs == Capped(cap, q[n].lease)
  <2>1. n \in DOMAIN q /\ q[n] \in Row
    BY <1>1, <1>2, <1>4
  <2>2. /\ rest \in Seq(Row) /\ DOMAIN rest = 1..(Len(q) - n)
        /\ \A i \in DOMAIN rest : n + i \in DOMAIN q /\ rest[i] = q[n + i]
    BY <1>1, <2>1, SubSeqProperties, LenProperties DEF QueueOK
  <2>3. QueueOK(rest) /\ q[n].holder \notin WaitersOf(rest)
    <3>1. \A i, j \in DOMAIN q : q[i].holder = q[j].holder => i = j
      BY DEF QueueOK
    <3>2. \A i, j \in DOMAIN rest : rest[i].holder = rest[j].holder => i = j
      <4> SUFFICES ASSUME NEW i \in DOMAIN rest, NEW j \in DOMAIN rest,
                          rest[i].holder = rest[j].holder
                   PROVE  i = j
        OBVIOUS
      <4>1. n + i = n + j
        BY <2>2, <3>1
      <4>2. i \in Nat /\ j \in Nat /\ n \in Nat
        <5> HIDE DEF rest
        <5> QED BY <1>1, <2>1, <2>2
      <4> QED BY <4>1, <4>2
    <3>3. \A i \in DOMAIN rest : rest[i].holder # q[n].holder
      <4> SUFFICES ASSUME NEW i \in DOMAIN rest, rest[i].holder = q[n].holder
                   PROVE  FALSE
        OBVIOUS
      <4>1. n + i = n
        BY <2>1, <2>2, <3>1
      <4>2. i \in 1..(Len(q) - n) /\ n \in Nat
        BY <1>1, <2>1, <2>2
      <4> QED BY <1>1, <4>1, <4>2
    <3>4. q[n].holder \notin WaitersOf(rest)
      <4> HIDE DEF rest
      <4> QED BY <3>3 DEF WaitersOf
    <3>5. QueueOK(rest)
      <4> HIDE DEF rest
      <4> QED BY <2>2, <3>2 DEF QueueOK
    <3> QED BY <3>4, <3>5
  <2>4. secs \in 1..MaxRemaining
    BY <2>1, CappedLength DEF Row
  <2>5. CellOK(HeldLock(q[n].holder, q[n].reentrant), LeaseOf(q[n].holder, secs), rest, secs, fr)
    BY <2>1, <2>3, <2>4, GrantedCell DEF Row
  <2> QED
    BY <1>4, <2>5 DEF NextLock, NextLease, NextQueue, NextTimer, NextSecs
<1> QED BY <1>3, <1>4

(* Vacate, the common end of release, expiry, rollback and restart, makes    *)
(* the cells of the locks it hands over consistent and leaves the others as  *)
(* they are given.                                                           *)
LEMMA VacateCells ==
  ASSUME NEW S \in SUBSET Locks, NEW q, NEW lease, NEW timer, NEW cap, NEW fr,
         \A l \in S : QueueOK(q[l]) /\ cap[l] \in CooldownSecs \cup {0} /\ fr[l] \in Nat,
         \A l \in Locks \ S : CellOK(locks[l], lease[l], q[l], timer[l], fr[l]),
         Vacate(S, q, lease, timer, cap)
  PROVE  /\ locks' = [l \in Locks |-> locks'[l]]
         /\ leases' = [l \in Locks |-> leases'[l]]
         /\ queue' = [l \in Locks |-> queue'[l]]
         /\ timers' = [l \in Locks |-> timers'[l]]
         /\ \A l \in Locks : CellOK(locks'[l], leases'[l], queue'[l], timers'[l], fr[l])
<1>1. PICK next \in [S -> 0..Cardinality(Holders)] :
        /\ \A l \in S : next[l] \in Grantees(q[l])
        /\ locks' = [l \in Locks |-> IF l \in S THEN NextLock(q[l], next[l]) ELSE locks[l]]
        /\ queue' = [l \in Locks |-> IF l \in S THEN NextQueue(q[l], next[l]) ELSE q[l]]
        /\ leases' = [l \in Locks |-> IF l \in S THEN NextLease(cap[l], q[l], next[l]) ELSE lease[l]]
        /\ timers' = [l \in Locks |-> IF l \in S THEN NextTimer(cap[l], q[l], next[l]) ELSE timer[l]]
  BY DEF Vacate
<1>2. ASSUME NEW l \in S
      PROVE  CellOK(locks'[l], leases'[l], queue'[l], timers'[l], fr[l])
  <2>1. /\ locks'[l] = NextLock(q[l], next[l]) /\ queue'[l] = NextQueue(q[l], next[l])
        /\ leases'[l] = NextLease(cap[l], q[l], next[l])
        /\ timers'[l] = NextTimer(cap[l], q[l], next[l])
    BY <1>1
  <2>2. next[l] \in Grantees(q[l])
    BY <1>1
  <2> QED BY <2>1, <2>2, HandedCell
<1>3. ASSUME NEW l \in Locks \ S
      PROVE  CellOK(locks'[l], leases'[l], queue'[l], timers'[l], fr[l])
  BY <1>1
<1> QED BY <1>1, <1>2, <1>3

-----------------------------------------------------------------------------
(* The invariant holds at the start. *)
LEMMA InitCells == Init => IInv
<1> SUFFICES ASSUME Init PROVE Tables /\ \A l \in Locks : Cell(l)
  BY CellsAreInvariant DEF CellsOK
<1>1. Tables
  BY EmptySeq DEF Init, Tables
<1>2. QueueOK(<< >>) /\ WaitersOf(<< >>) = {}
  BY EmptySeq DEF QueueOK, WaitersOf
<1>3. ASSUME NEW l \in Locks PROVE Cell(l)
  BY <1>2, LockManagerAssumption DEF Init, Cell, CellOK, FreeLock, NoLease, Lock, Lease
<1> QED BY <1>1, <1>3

(* Every lock is given a consistent cell. *)
LEMMA AllCells ==
  ASSUME Tables', \A l \in Locks : Cell(l)'
  PROVE  IInv'
<1>1. CellsOK'
  BY DEF CellsOK
<1> QED BY <1>1, CellsAreInvariant, PTL

(* One lock changes, the rest of the tables do not: the invariant needs only *)
(* the new cell.                                                             *)
LEMMA OneCell ==
  ASSUME IInv, NEW l \in Locks, Tables', Cell(l)',
         \A k \in Locks \ {l} :
           /\ locks'[k] = locks[k] /\ leases'[k] = leases[k] /\ queue'[k] = queue[k]
           /\ timers'[k] = timers[k] /\ firing'[k] = firing[k]
  PROVE  IInv'
<1>1. ASSUME NEW k \in Locks \ {l} PROVE Cell(k)'
  BY CellsAreInvariant DEF CellsOK, Cell
<1> QED BY <1>1, AllCells

(* Nothing but the tables of other components changes. *)
LEMMA SameCells ==
  ASSUME IInv, UNCHANGED <<locks, leases, queue, timers, firing>>,
         orphans' \in [Locks -> Seq(Nat)],
         accelerated' \in [Locks -> CooldownSecs \cup {0}]
  PROVE  IInv'
BY DEF IInv, TypeOK, LeaseMatchesLock, FreeMeansNoQueue, WaitsOnce, LeaseIsWatched,
       Held, Waiting

-----------------------------------------------------------------------------
(* Every step preserves the invariant.  The requests of clients first. *)

(* What the invariant says of one lock. *)
LEMMA CellFacts ==
  ASSUME IInv, NEW l \in Locks
  PROVE  /\ Tables /\ Cell(l)
         /\ locks[l] \in Lock /\ leases[l] \in Lease /\ QueueOK(queue[l])
         /\ timers[l] \in Nat \cup {NoTimer} /\ firing[l] \in Nat
         /\ accelerated[l] \in CooldownSecs \cup {0}
         /\ locks[l].holder \notin WaitersOf(queue[l])
BY CellsAreInvariant DEF CellsOK, Cell, CellOK, Tables

(* A reentrant holder counts once more. *)
LEMMA AcquireAgainSafe ==
  ASSUME IInv, NEW h \in Holders, NEW l \in Locks, AcquireAgain(h, l)
  PROVE  IInv'
<1>1. Tables'
  BY CellFacts DEF Tables, AcquireAgain
<1>2. Cell(l)'
  <2>1. locks'[l] = [locks[l] EXCEPT !.count = @ + 1]
    BY CellFacts DEF Tables, AcquireAgain
  <2>2. locks[l].status = "held"
    BY CellFacts, LockManagerAssumption DEF AcquireAgain, Cell, CellOK, FreeLock
  <2> QED
    BY <2>1, <2>2, CellFacts, LockManagerAssumption DEF AcquireAgain, Cell, CellOK, Lock
<1> QED BY <1>1, <1>2, CellFacts, OneCell DEF AcquireAgain, Tables

(* A release that is not the last counts one less. *)
LEMMA ReleaseOnceSafe ==
  ASSUME IInv, NEW h \in Holders, NEW l \in Locks, ReleaseOnce(h, l)
  PROVE  IInv'
<1>1. Tables'
  BY CellFacts DEF Tables, ReleaseOnce
<1>2. Cell(l)'
  <2>1. locks'[l] = [locks[l] EXCEPT !.count = @ - 1]
    BY CellFacts DEF Tables, ReleaseOnce
  <2>2. locks[l].status = "held"
    BY CellFacts, LockManagerAssumption DEF ReleaseOnce, Cell, CellOK, FreeLock
  <2> QED
    BY <2>1, <2>2, CellFacts, LockManagerAssumption DEF ReleaseOnce, Cell, CellOK, Lock
<1> QED BY <1>1, <1>2, CellFacts, OneCell DEF ReleaseOnce, Tables

(* A free lock is granted with its lease and its timer. *)
LEMMA AcquireFreeSafe ==
  ASSUME IInv, NEW h \in Holders, NEW l \in Locks, NEW secs \in LeaseSecs,
         NEW re \in Modes, AcquireFree(h, l, secs, re)
  PROVE  IInv'
<1>1. Tables'
  BY CellFacts DEF Tables, AcquireFree
<1>2. Cell(l)'
  <2> DEFINE len == Capped(accelerated[l], secs)
  <2>1. /\ locks'[l] = HeldLock(h, re) /\ leases'[l] = LeaseOf(h, len)
        /\ timers'[l] = len /\ queue' = queue /\ firing' = firing
    BY CellFacts DEF Tables, AcquireFree
  <2>2. queue[l] = << >>
    BY CellFacts DEF AcquireFree, Held, Cell, CellOK
  <2>3. QueueOK(queue[l]) /\ h \notin WaitersOf(queue[l]) /\ firing[l] \in Nat
    BY <2>2, CellFacts DEF WaitersOf
  <2>4. re \in BOOLEAN /\ len \in 1..MaxRemaining
    BY CappedLength, CellFacts, LockManagerAssumption
  <2>5. CellOK(HeldLock(h, re), LeaseOf(h, len), queue[l], len, firing[l])
    BY <2>3, <2>4, GrantedCell
  <2> QED BY <2>1, <2>5 DEF Cell
<1> QED BY <1>1, <1>2, CellFacts, OneCell DEF AcquireFree, Tables

(* A caller that does not wait yet may come in at the tail or at the head.   *)
LEMMA QueueGrows ==
  ASSUME NEW q, QueueOK(q), NEW row \in Row, row.holder \notin WaitersOf(q)
  PROVE  /\ QueueOK(Append(q, row)) /\ QueueOK(<<row>> \o q)
         /\ WaitersOf(Append(q, row)) = WaitersOf(q) \cup {row.holder}
         /\ WaitersOf(<<row>> \o q) = WaitersOf(q) \cup {row.holder}
<1>1. /\ q \in Seq(Row) /\ Len(q) \in Nat /\ DOMAIN q = 1..Len(q)
      /\ \A i, j \in 1..Len(q) : q[i].holder = q[j].holder => i = j
      /\ \A i \in 1..Len(q) : q[i].holder # row.holder
  BY LenProperties DEF QueueOK, WaitersOf
<1> DEFINE tail == Append(q, row)
           head == <<row>> \o q
<1>2. /\ tail \in Seq(Row) /\ DOMAIN tail = 1..(Len(q) + 1)
      /\ \A i \in 1..Len(q) : tail[i] = q[i]
      /\ tail[Len(q) + 1] = row
  BY <1>1, AppendProperties, LenProperties
<1>3. /\ head \in Seq(Row) /\ DOMAIN head = 1..(Len(q) + 1)
      /\ head[1] = row
      /\ \A i \in 1..Len(q) : head[i + 1] = q[i]
  <2>1. <<row>> \in Seq(Row) /\ Len(<<row>>) = 1 /\ <<row>>[1] = row
    OBVIOUS
  <2>2. /\ head \in Seq(Row) /\ Len(head) = Len(q) + 1
        /\ \A i \in 1..(Len(q) + 1) :
             head[i] = IF i <= 1 THEN <<row>>[i] ELSE q[i - 1]
    BY <1>1, <2>1, ConcatProperties
  <2>3. DOMAIN head = 1..(Len(q) + 1)
    BY <2>2, LenProperties
  <2>4. \A i \in 1..Len(q) : head[i + 1] = q[i]
    <3> HIDE DEF head
    <3> QED BY <1>1, <2>2
  <2>5. head[1] = row
    <3> HIDE DEF head
    <3> QED BY <1>1, <2>1, <2>2
  <2> QED BY <2>2, <2>3, <2>4, <2>5
<1> HIDE DEF tail, head
<1>4. QueueOK(tail) /\ WaitersOf(tail) = WaitersOf(q) \cup {row.holder}
  <2>1. \A i \in DOMAIN tail : i \in 1..Len(q) \/ i = Len(q) + 1
    BY <1>1, <1>2
  <2>2. \A i, j \in DOMAIN tail : tail[i].holder = tail[j].holder => i = j
    BY <1>1, <1>2, <2>1
  <2>3. \A i \in 1..Len(q) : i \in DOMAIN tail
    BY <1>1, <1>2
  <2>4. Len(q) + 1 \in DOMAIN tail
    BY <1>1, <1>2
  <2> QED BY <1>1, <1>2, <2>1, <2>2, <2>3, <2>4 DEF QueueOK, WaitersOf
<1>5. QueueOK(head) /\ WaitersOf(head) = WaitersOf(q) \cup {row.holder}
  <2>1. \A i \in DOMAIN head : i = 1 \/ (i - 1 \in 1..Len(q) /\ i = (i - 1) + 1)
    BY <1>1, <1>3
  <2>2. \A i \in DOMAIN head : i = 1 \/ (i - 1 \in 1..Len(q) /\ head[i] = q[i - 1])
    BY <1>3, <2>1
  <2>3. \A i, j \in DOMAIN head : head[i].holder = head[j].holder => i = j
    BY <1>1, <1>3, <2>2
  <2>4. 1 \in DOMAIN head /\ \A i \in 1..Len(q) : i + 1 \in DOMAIN head
    BY <1>1, <1>3
  <2>5. QueueOK(head)
    BY <1>3, <2>3 DEF QueueOK
  <2>6. WaitersOf(head) \subseteq WaitersOf(q) \cup {row.holder}
    BY <1>1, <1>3, <2>2 DEF WaitersOf
  <2>7. ASSUME NEW w \in WaitersOf(q) PROVE w \in WaitersOf(head)
    <3>1. PICK i \in 1..Len(q) : w = q[i].holder
      BY <1>1 DEF WaitersOf
    <3>2. head[i + 1].holder = w /\ i + 1 \in DOMAIN head
      BY <1>3, <2>4, <3>1
    <3> QED BY <3>2 DEF WaitersOf
  <2>8. row.holder \in WaitersOf(head)
    BY <1>3, <2>4 DEF WaitersOf
  <2> QED BY <2>5, <2>6, <2>7, <2>8
<1> QED BY <1>4, <1>5 DEF tail, head

(* A new row joins the queue of a lock that is held. *)
LEMMA EnqueueSafe ==
  ASSUME IInv, NEW h \in Holders, NEW l \in Locks, NEW secs \in LeaseSecs,
         NEW re \in Modes, Enqueue(h, l, secs, re)
  PROVE  IInv'
<1> DEFINE row == WaitRow(h, re, secs)
<1>1. row \in Row /\ row.holder = h
  BY LockManagerAssumption DEF WaitRow, Row
<1>2. h \notin WaitersOf(queue[l]) /\ locks[l].holder # h /\ Held(l)
  BY DEF Enqueue, WaitersOf, Waiting
<1>3. queue'[l] = <<row>> \o queue[l] \/ queue'[l] = Append(queue[l], row)
  BY CellFacts DEF Enqueue, Tables
<1>4. QueueOK(queue'[l]) /\ WaitersOf(queue'[l]) = WaitersOf(queue[l]) \cup {h}
  <2> HIDE DEF row
  <2>1. QueueOK(queue[l]) /\ row.holder \notin WaitersOf(queue[l])
    BY <1>1, <1>2, CellFacts
  <2>2. /\ QueueOK(Append(queue[l], row)) /\ QueueOK(<<row>> \o queue[l])
        /\ WaitersOf(Append(queue[l], row)) = WaitersOf(queue[l]) \cup {row.holder}
        /\ WaitersOf(<<row>> \o queue[l]) = WaitersOf(queue[l]) \cup {row.holder}
    BY <1>1, <2>1, QueueGrows
  <2>3. CASE queue'[l] = <<row>> \o queue[l]
    BY <1>1, <2>2, <2>3
  <2>4. CASE queue'[l] = Append(queue[l], row)
    BY <1>1, <2>2, <2>4
  <2> QED BY <1>3, <2>3, <2>4
<1>5. Tables'
  BY CellFacts DEF Tables, Enqueue
<1>6. Cell(l)'
  BY <1>2, <1>4, CellFacts DEF Enqueue, Cell, CellOK, Held
<1> QED BY <1>5, <1>6, CellFacts, OneCell DEF Enqueue, Tables

(* Deleting rows keeps a queue a queue, and makes nobody wait. *)
LEMMA QueueShrinks ==
  ASSUME NEW q, QueueOK(q), NEW K \in SUBSET (DOMAIN q)
  PROVE  /\ QueueOK(Keep(q, K)) /\ WaitersOf(Keep(q, K)) \subseteq WaitersOf(q)
         /\ q = << >> => Keep(q, K) = << >>
<1> DEFINE kept == Keep(q, K)
<1>1. /\ kept \in Seq(Row) /\ DOMAIN kept = 1..Cardinality(K)
      /\ \A n \in DOMAIN kept : Nth(K, n) \in K /\ kept[n] = q[Nth(K, n)]
      /\ \A m, n \in DOMAIN kept : Nth(K, m) = Nth(K, n) => m = n
  BY KeepPositions DEF QueueOK
<1> HIDE DEF kept
<1>2. QueueOK(kept)
  BY <1>1 DEF QueueOK
<1>3. WaitersOf(kept) \subseteq WaitersOf(q)
  BY <1>1 DEF WaitersOf
<1>4. ASSUME q = << >> PROVE kept = << >>
  <2>1. K = {}
    BY <1>4
  <2>2. DOMAIN kept = {}
    BY <1>1, <2>1, FS_EmptySet
  <2> QED BY <1>1, <2>2, EmptySeq, LenProperties
<1> QED BY <1>2, <1>3, <1>4 DEF kept

(* Rows leave the queues, nothing else happens. *)
LEMMA RowsDeleted ==
  ASSUME IInv, NEW K,
         \A l \in Locks : K[l] \in SUBSET (DOMAIN queue[l]),
         queue' = [l \in Locks |-> Keep(queue[l], K[l])],
         UNCHANGED <<locks, leases, timers, firing, orphans, accelerated>>
  PROVE  IInv'
<1>1. Tables'
  BY CellsAreInvariant DEF CellsOK, Tables
<1>2. ASSUME NEW l \in Locks PROVE Cell(l)'
  <2>1. QueueOK(queue[l]) /\ Cell(l)
    BY CellFacts
  <2>2. queue'[l] = Keep(queue[l], K[l])
    OBVIOUS
  <2>3. /\ QueueOK(queue'[l]) /\ WaitersOf(queue'[l]) \subseteq WaitersOf(queue[l])
        /\ queue[l] = << >> => queue'[l] = << >>
    BY <2>1, <2>2, QueueShrinks
  <2> QED BY <2>1, <2>3 DEF Cell, CellOK
<1> QED BY <1>1, <1>2, AllCells

(* A row leaves the queue. *)
LEMMA CancelSafe ==
  ASSUME IInv, NEW h \in Holders, CancelWaitForHolder(h)
  PROVE  IInv'
<1> DEFINE K == [l \in Locks |-> {i \in DOMAIN queue[l] : ~ (queue[l][i].holder = h)}]
<1>1. queue' = [l \in Locks |-> Keep(queue[l], K[l])]
  BY DEF CancelWaitForHolder, Without
<1>2. \A l \in Locks : K[l] \in SUBSET (DOMAIN queue[l])
  OBVIOUS
<1> HIDE DEF K
<1> QED BY <1>1, <1>2, RowsDeleted DEF CancelWaitForHolder

(* The rows that waited too long leave the queue. *)
LEMMA SweepSafe ==
  ASSUME IInv, CheckWaitQueueTimeouts
  PROVE  IInv'
<1> DEFINE K == [l \in Locks |-> {i \in DOMAIN queue[l] : ~ (queue[l][i].timeout < 0)}]
<1>1. queue' = [l \in Locks |-> Keep(queue[l], K[l])]
  BY DEF CheckWaitQueueTimeouts, Without
<1>2. \A l \in Locks : K[l] \in SUBSET (DOMAIN queue[l])
  OBVIOUS
<1> HIDE DEF K
<1> QED BY <1>1, <1>2, RowsDeleted DEF CheckWaitQueueTimeouts

(* Batches take only free locks. *)
LEMMA BatchSafe ==
  ASSUME IInv, NEW h \in Holders, NEW names \in SUBSET Locks, NEW secs \in LeaseSecs,
         NEW re \in Modes, AcquireLocksBatch(h, names, secs, re)
  PROVE  IInv'
<1>1. Tables'
  BY CellsAreInvariant DEF CellsOK, Tables, AcquireLocksBatch
<1>2. ASSUME NEW l \in names PROVE Cell(l)'
  <2>1. /\ locks'[l] = HeldLock(h, re) /\ leases'[l] = LeaseOf(h, secs)
        /\ timers'[l] = secs /\ queue' = queue /\ firing' = firing
    BY DEF AcquireLocksBatch
  <2>2. queue[l] = << >>
    BY CellFacts DEF AcquireLocksBatch, Held, Cell, CellOK
  <2>3. QueueOK(queue[l]) /\ h \notin WaitersOf(queue[l]) /\ firing[l] \in Nat
    BY <2>2, CellFacts DEF WaitersOf
  <2>4. re \in BOOLEAN /\ secs \in 1..MaxRemaining
    BY LockManagerAssumption
  <2>5. CellOK(HeldLock(h, re), LeaseOf(h, secs), queue[l], secs, firing[l])
    BY <2>3, <2>4, GrantedCell
  <2> QED BY <2>1, <2>5 DEF Cell
<1>3. ASSUME NEW l \in Locks \ names PROVE Cell(l)'
  BY CellFacts DEF AcquireLocksBatch, Cell
<1> QED BY <1>1, <1>2, <1>3, AllCells

(* A hand-over of the locks in S, all rows and deadlines being as they are. *)
LEMMA HandOverSafe ==
  ASSUME IInv, NEW S \in SUBSET Locks,
         Vacate(S, queue, leases, timers, accelerated),
         UNCHANGED <<firing, accelerated>>,
         orphans' \in [Locks -> Seq(Nat)]
  PROVE  IInv'
<1>1. \A l \in S : /\ QueueOK(queue[l]) /\ accelerated[l] \in CooldownSecs \cup {0}
                   /\ firing[l] \in Nat
  BY CellFacts
<1>2. \A l \in Locks \ S : CellOK(locks[l], leases[l], queue[l], timers[l], firing[l])
  BY CellFacts DEF Cell
<1>3. /\ locks' = [l \in Locks |-> locks'[l]] /\ leases' = [l \in Locks |-> leases'[l]]
      /\ queue' = [l \in Locks |-> queue'[l]] /\ timers' = [l \in Locks |-> timers'[l]]
      /\ \A l \in Locks : CellOK(locks'[l], leases'[l], queue'[l], timers'[l], firing[l])
  BY <1>1, <1>2, VacateCells
<1>4. Tables'
  BY <1>3, CellsAreInvariant DEF CellsOK, Tables
<1>5. \A l \in Locks : Cell(l)'
  BY <1>3 DEF Cell
<1> QED BY <1>4, <1>5, AllCells

(* A rollback of a batch gives back what the batch got. *)
LEMMA RollbackSafe ==
  ASSUME IInv, NEW taken \in SUBSET Locks, RollbackBatch(taken)
  PROVE  IInv'
BY HandOverSafe, CellsAreInvariant DEF RollbackBatch, CellsOK, Tables

(* The last release passes the lock on. *)
LEMMA ReleaseLastSafe ==
  ASSUME IInv, NEW h \in Holders, NEW l \in Locks, ReleaseLast(h, l)
  PROVE  IInv'
<1>1. {l} \in SUBSET Locks
  OBVIOUS
<1> QED BY <1>1, HandOverSafe, CellsAreInvariant DEF ReleaseLast, CellsOK, Tables

(* A renewal writes lease and timer anew. *)
LEMMA RenewSafe ==
  ASSUME IInv, NEW h \in Holders, NEW l \in Locks, NEW secs \in LeaseSecs,
         RenewLease(h, l, secs)
  PROVE  IInv'
<1> DEFINE left == leases[l].remaining + Extension(l, secs)
<1>1. leases[l].holder = h /\ leases[l].remaining >= 0 /\ left <= MaxRemaining
  BY DEF RenewLease
<1>2. left \in 1..MaxRemaining
  <2>1. Extension(l, secs) \in Nat /\ Extension(l, secs) >= 1
    <3>1. accelerated[l] \in Nat
      <4>1. accelerated[l] \in CooldownSecs \cup {0}
        BY CellFacts
      <4>2. CooldownSecs \subseteq Nat
        BY LockManagerAssumption
      <4>3. CASE accelerated[l] = 0
        BY <4>3
      <4>4. CASE accelerated[l] \in CooldownSecs
        BY <4>2, <4>4
      <4> QED BY <4>1, <4>3, <4>4
    <3>2. secs \in Nat /\ secs >= 1
      BY LockManagerAssumption
    <3>3. Extension(l, secs) = secs \/ (Extension(l, secs) = accelerated[l] /\ accelerated[l] > 0)
      BY DEF Extension
    <3> QED BY <3>1, <3>2, <3>3
  <2>2. leases[l].remaining \in Nat
    BY <1>1, CellFacts DEF Lease
  <2> QED BY <1>1, <2>1, <2>2, LockManagerAssumption
<1>3. /\ leases'[l] = [leases[l] EXCEPT !.remaining = left] /\ timers'[l] = left
      /\ UNCHANGED <<locks, queue, firing>>
  BY CellFacts DEF RenewLease, Tables
<1>4. locks[l].status = "held"
  BY <1>1, CellFacts, LockManagerAssumption DEF Cell, CellOK, NoLease
<1> HIDE DEF left
<1>5. leases'[l] \in Lease /\ leases'[l].holder = leases[l].holder /\ leases'[l].remaining = left
  BY <1>2, <1>3, CellFacts DEF Lease
<1>6. Cell(l)'
  BY <1>2, <1>3, <1>4, <1>5, CellFacts, LockManagerAssumption DEF Cell, CellOK, Larger
<1>7. Tables'
  BY CellFacts DEF Tables, RenewLease
<1> QED BY <1>6, <1>7, CellFacts, OneCell DEF RenewLease, Tables

(* A shortened lease gets a timer of its own. *)
LEMMA ShortenSafe ==
  ASSUME IInv, NEW l \in Locks, NEW secs \in CooldownSecs, ShortenLease(l, secs)
  PROVE  IInv'
<1> DEFINE left == Smaller(secs, leases[l].remaining)
<1>1. left \in -1..MaxRemaining
  BY CellFacts, LockManagerAssumption DEF Lease, Smaller
<1>2. /\ leases'[l] = [leases[l] EXCEPT !.remaining = left] /\ timers'[l] = Larger(left, 0)
      /\ UNCHANGED <<locks, queue, firing>>
  BY CellFacts DEF ShortenLease, Tables
<1>3. locks[l].status = "held"
  BY CellFacts DEF ShortenLease, Cell, CellOK
<1> HIDE DEF left
<1>4. leases'[l] \in Lease /\ leases'[l].holder = leases[l].holder /\ leases'[l].remaining = left
  BY <1>1, <1>2, CellFacts DEF Lease
<1>5. Larger(left, 0) \in Nat
  BY <1>1, LockManagerAssumption DEF Larger
<1>6. Cell(l)'
  BY <1>2, <1>3, <1>4, <1>5, CellFacts, LockManagerAssumption DEF Cell, CellOK
<1>7. Tables'
  BY CellFacts DEF Tables, ShortenLease
<1> QED BY <1>6, <1>7, CellFacts, OneCell DEF ShortenLease, Tables

(* A cooldown begins or ends. *)
LEMMA AcceleratedSafe ==
  ASSUME IInv, NEW l \in Locks, NEW secs \in CooldownSecs \cup {0},
         SetAcceleratedGrant(l, secs)
  PROVE  IInv'
<1>1. accelerated' \in [Locks -> CooldownSecs \cup {0}] /\ orphans' \in [Locks -> Seq(Nat)]
  BY CellsAreInvariant DEF CellsOK, Tables, SetAcceleratedGrant
<1> QED BY <1>1, SameCells DEF SetAcceleratedGrant

-----------------------------------------------------------------------------
(* The steps outside the mutex. *)

(* A timer fires: its goroutine has yet to get the mutex. *)
LEMMA TimerFiresSafe ==
  ASSUME IInv, NEW l \in Locks, TimerFires(l)
  PROVE  IInv'
<1>1. /\ timers[l] = 0 /\ timers'[l] = NoTimer /\ firing'[l] = firing[l] + 1
      /\ UNCHANGED <<locks, leases, queue>>
  BY CellFacts DEF TimerFires, Tables
<1>2. leases[l].remaining \in Int
  BY CellFacts, LockManagerAssumption DEF Lease
<1>3. locks[l].status = "held" /\ leases[l].remaining <= 0
  BY <1>1, <1>2, CellFacts, LockManagerAssumption DEF Cell, CellOK, Larger
<1>4. Cell(l)'
  BY <1>1, <1>3, CellFacts DEF Cell, CellOK
<1>5. Tables'
  BY CellFacts DEF Tables, TimerFires
<1> QED BY <1>4, <1>5, CellFacts, OneCell DEF TimerFires, Tables

(* More goroutines on their way to a lock do no harm. *)
LEMMA OrphanFiresSafe ==
  ASSUME IInv, NEW l \in Locks, OrphanFires(l)
  PROVE  IInv'
<1>1. PICK i \in DOMAIN orphans[l] :
        orphans' = [orphans EXCEPT ![l] = Keep(@, DOMAIN @ \ {i})]
  BY DEF OrphanFires
<1>2. Keep(orphans[l], DOMAIN orphans[l] \ {i}) \in Seq(Nat)
  <2>1. orphans[l] \in Seq(Nat) /\ DOMAIN orphans[l] \ {i} \in SUBSET (DOMAIN orphans[l])
    BY CellFacts DEF Tables
  <2> QED BY <2>1, KeepPositions
<1>3. Tables'
  BY <1>1, <1>2, CellFacts DEF Tables, OrphanFires
<1>4. firing'[l] = firing[l] + 1 /\ UNCHANGED <<locks, leases, queue, timers>>
  BY CellFacts DEF OrphanFires, Tables
<1>5. Cell(l)'
  BY <1>4, CellFacts DEF Cell, CellOK
<1> QED BY <1>3, <1>5, CellFacts, OneCell DEF OrphanFires, Tables

(* The goroutine of a timer finds a lease that has run out, or goes away. *)
LEMMA ExpireSafe ==
  ASSUME IInv, NEW l \in Locks, ExpireLock(l)
  PROVE  IInv'
<1>1. /\ firing' = [firing EXCEPT ![l] = @ - 1] /\ firing'[l] \in Nat
      /\ UNCHANGED accelerated
  BY CellFacts DEF ExpireLock, Tables
<1>2. CASE Held(l)
  <2>1. /\ orphans' = [orphans EXCEPT ![l] = @ \o Forgotten(l)]
        /\ Vacate({l}, queue, leases, timers, accelerated)
    BY <1>2 DEF ExpireLock
  <2>2. orphans' \in [Locks -> Seq(Nat)]
    <3>1. Forgotten(l) \in Seq(Nat)
      BY CellFacts, EmptySeq DEF Forgotten
    <3>2. orphans[l] \in Seq(Nat)
      BY CellFacts DEF Tables
    <3>3. orphans[l] \o Forgotten(l) \in Seq(Nat)
      BY <3>1, <3>2, ConcatProperties
    <3> QED BY <2>1, <3>3, CellFacts DEF Tables
  <2>3. QueueOK(queue[l]) /\ accelerated[l] \in CooldownSecs \cup {0} /\ firing'[l] \in Nat
    BY <1>1, CellFacts
  <2>4. \A k \in Locks \ {l} : CellOK(locks[k], leases[k], queue[k], timers[k], firing'[k])
    BY <1>1, CellFacts DEF Cell, Tables
  <2>5. /\ locks' = [k \in Locks |-> locks'[k]] /\ leases' = [k \in Locks |-> leases'[k]]
        /\ queue' = [k \in Locks |-> queue'[k]] /\ timers' = [k \in Locks |-> timers'[k]]
        /\ \A k \in Locks : CellOK(locks'[k], leases'[k], queue'[k], timers'[k], firing'[k])
    <3> DEFINE fr == firing'
    <3>1. {l} \in SUBSET Locks
      OBVIOUS
    <3>2. /\ \A k \in {l} : /\ QueueOK(queue[k]) /\ accelerated[k] \in CooldownSecs \cup {0}
                            /\ fr[k] \in Nat
          /\ \A k \in Locks \ {l} : CellOK(locks[k], leases[k], queue[k], timers[k], fr[k])
      BY <2>3, <2>4
    <3> HIDE DEF fr
    <3>3. /\ locks' = [k \in Locks |-> locks'[k]] /\ leases' = [k \in Locks |-> leases'[k]]
          /\ queue' = [k \in Locks |-> queue'[k]] /\ timers' = [k \in Locks |-> timers'[k]]
          /\ \A k \in Locks : CellOK(locks'[k], leases'[k], queue'[k], timers'[k], fr[k])
      BY <2>1, <3>1, <3>2, VacateCells
    <3> QED BY <3>3 DEF fr
  <2>6. Tables'
    BY <1>1, <2>2, <2>5, CellFacts DEF Tables
  <2>7. \A k \in Locks : Cell(k)'
    BY <2>5 DEF Cell
  <2> QED BY <2>6, <2>7, AllCells
<1>3. CASE ~ Held(l)
  <2>1. UNCHANGED <<locks, leases, queue, timers, orphans>>
    BY <1>3 DEF ExpireLock
  <2>2. Cell(l)'
    BY <1>1, <1>3, <2>1, CellFacts DEF Cell, CellOK, Held
  <2>3. Tables'
    BY <1>1, <2>1, CellFacts DEF Tables
  <2> QED BY <1>1, <2>1, <2>2, <2>3, CellFacts, OneCell DEF Tables
<1> QED BY <1>2, <1>3

(* A queue some seconds later holds the same callers in the same order. *)
LEMMA AgedRows ==
  ASSUME IInv, NEW l \in Locks, NEW n \in Nat
  PROVE  /\ QueueOK(AgedQueue(n)[l])
         /\ WaitersOf(AgedQueue(n)[l]) = WaitersOf(queue[l])
         /\ queue[l] = << >> => AgedQueue(n)[l] = << >>
<1> DEFINE aged == AgedQueue(n)[l]
<1>1. /\ queue[l] \in Seq(Row) /\ Len(queue[l]) \in Nat
      /\ DOMAIN queue[l] = 1..Len(queue[l])
      /\ \A i \in DOMAIN queue[l] : queue[l][i] \in Row
  BY CellFacts, LenProperties, ElementOfSeq DEF QueueOK
<1>2. /\ aged = [i \in DOMAIN queue[l] |->
                   [queue[l][i] EXCEPT !.timeout = Later(@, n)]]
  BY DEF AgedQueue
<1>3. ASSUME NEW i \in DOMAIN queue[l]
      PROVE  aged[i] \in Row /\ aged[i].holder = queue[l][i].holder
  <2>1. aged[i] = [queue[l][i] EXCEPT !.timeout = Later(@, n)] /\ queue[l][i] \in Row
    BY <1>1, <1>2
  <2>2. Later(queue[l][i].timeout, n) \in -1..WaitTimeout
    BY <2>1, LockManagerAssumption DEF Row, Later, Larger
  <2> HIDE DEF aged
  <2> QED BY <2>1, <2>2 DEF Row
<1> HIDE DEF aged
<1>4. aged \in Seq(Row)
  <2>1. aged \in [1..Len(queue[l]) -> Row]
    BY <1>1, <1>2, <1>3
  <2> QED BY <1>1, <2>1
<1>5. QueueOK(aged)
  BY <1>2, <1>3, <1>4, CellFacts DEF QueueOK
<1>6. WaitersOf(aged) = WaitersOf(queue[l])
  BY <1>2, <1>3 DEF WaitersOf
<1>7. ASSUME queue[l] = << >> PROVE aged = << >>
  BY <1>2, <1>7
<1> QED BY <1>5, <1>6, <1>7 DEF aged

(* So does a lease, with the seconds taken away. *)
LEMMA AgedLease ==
  ASSUME IInv, NEW l \in Locks, NEW n \in Nat
  PROVE  /\ AgedLeases(n)[l] \in Lease
         /\ ~ Held(l) => AgedLeases(n)[l] = NoLease
         /\ Held(l) => /\ AgedLeases(n)[l].holder = locks[l].holder
                       /\ AgedLeases(n)[l] # NoLease
                       /\ AgedLeases(n)[l].remaining = Later(leases[l].remaining, n)
<1>1. leases[l] \in Lease /\ AgedLeases(n)[l] =
        IF leases[l] = NoLease THEN NoLease
        ELSE [leases[l] EXCEPT !.remaining = Later(@, n)]
  BY CellFacts DEF AgedLeases
<1>2. Later(leases[l].remaining, n) \in -1..MaxRemaining
  BY <1>1, LockManagerAssumption DEF Lease, Later, Larger
<1>3. CASE Held(l)
  <2>1. leases[l].holder = locks[l].holder /\ leases[l].holder \in Holders
    BY <1>3, CellFacts DEF Held, Cell, CellOK
  <2>2. leases[l] # NoLease
    BY <2>1, LockManagerAssumption DEF NoLease
  <2>3. AgedLeases(n)[l] = [leases[l] EXCEPT !.remaining = Later(@, n)]
    BY <1>1, <2>2
  <2>4. /\ AgedLeases(n)[l] \in Lease /\ AgedLeases(n)[l].holder = leases[l].holder
        /\ AgedLeases(n)[l].remaining = Later(leases[l].remaining, n)
    BY <1>1, <1>2, <2>3 DEF Lease
  <2>5. AgedLeases(n)[l] # NoLease
    BY <2>1, <2>4, LockManagerAssumption DEF NoLease
  <2> QED BY <1>3, <2>1, <2>4, <2>5
<1>4. CASE ~ Held(l)
  BY <1>1, <1>4, CellFacts DEF Held, Cell, CellOK
<1> QED BY <1>3, <1>4

(* Time passes for leases, timers and rows. *)
LEMMA TickSafe ==
  ASSUME IInv, Tick
  PROVE  IInv'
<1>1. Tables'
  <2>1. ASSUME NEW l \in Locks
        PROVE  [i \in DOMAIN orphans[l] |-> Sooner(orphans[l][i], 1)] \in Seq(Nat)
    <3>1. /\ orphans[l] \in Seq(Nat) /\ Len(orphans[l]) \in Nat
          /\ DOMAIN orphans[l] = 1..Len(orphans[l])
          /\ \A i \in DOMAIN orphans[l] : orphans[l][i] \in Nat
      BY CellFacts, LenProperties, ElementOfSeq DEF Tables
    <3>2. \A i \in DOMAIN orphans[l] : Sooner(orphans[l][i], 1) \in Nat
      BY <3>1 DEF Sooner, Larger
    <3>3. [i \in DOMAIN orphans[l] |-> Sooner(orphans[l][i], 1)]
            \in [1..Len(orphans[l]) -> Nat]
      BY <3>1, <3>2
    <3> QED BY <3>1, <3>3
  <2>2. orphans' \in [Locks -> Seq(Nat)]
    BY <2>1 DEF Tick
  <2> QED BY <2>2, CellsAreInvariant DEF CellsOK, Tables, Tick, AgedLeases, AgedQueue
<1>2. ASSUME NEW l \in Locks PROVE Cell(l)'
  <2>1. /\ leases'[l] = AgedLeases(1)[l] /\ queue'[l] = AgedQueue(1)[l]
        /\ timers'[l] = IF timers[l] = NoTimer THEN NoTimer ELSE Sooner(timers[l], 1)
        /\ locks' = locks /\ firing' = firing
    BY DEF Tick
  <2>2. /\ QueueOK(queue'[l]) /\ WaitersOf(queue'[l]) = WaitersOf(queue[l])
        /\ queue[l] = << >> => queue'[l] = << >>
    BY <2>1, AgedRows
  <2>3. /\ leases'[l] \in Lease
        /\ ~ Held(l) => leases'[l] = NoLease
        /\ Held(l) => /\ leases'[l].holder = locks[l].holder
                      /\ leases'[l].remaining = Later(leases[l].remaining, 1)
    BY <2>1, AgedLease
  <2>4. timers'[l] \in Nat \cup {NoTimer}
    BY <2>1, CellFacts DEF Sooner, Larger
  <2>5. CASE Held(l)
    <3>1. leases[l].remaining \in Int
      BY CellFacts, LockManagerAssumption DEF Lease
    <3>2. IF timers'[l] = NoTimer THEN firing[l] > 0 /\ leases'[l].remaining <= 0
                                  ELSE timers'[l] = Larger(leases'[l].remaining, 0)
      BY <2>1, <2>3, <2>5, <3>1, CellFacts, LockManagerAssumption
      DEF Held, Cell, CellOK, Later, Sooner, Larger
    <3> QED BY <2>1, <2>2, <2>3, <2>4, <2>5, <3>2, CellFacts DEF Held, Cell, CellOK
  <2>6. CASE ~ Held(l)
    BY <2>1, <2>2, <2>3, <2>4, <2>6, CellFacts DEF Held, Cell, CellOK
  <2> QED BY <2>5, <2>6
<1> QED BY <1>1, <1>2, AllCells

(* A restart hands over what ran out in the meantime and re-arms the rest. *)
LEMMA RestartSafe ==
  ASSUME IInv, NEW down \in 0..MaxDowntime, NEW kept \in SUBSET Locks,
         Restart(down, kept)
  PROVE  IInv'
<1> DEFINE aged == AgedLeases(down)
           rows == AgedQueue(down)
           cap == [l \in Locks |-> IF l \in kept THEN accelerated[l] ELSE 0]
           expired == {l \in Locks : aged[l].remaining < 0}
           rebuilt == [l \in Locks |-> IF aged[l] = NoLease THEN NoTimer
                                                         ELSE aged[l].remaining]
           none == [l \in Locks |-> 0]
<1>1. /\ Vacate(expired, rows, aged, rebuilt, cap) /\ accelerated' = cap
      /\ firing' = none /\ orphans' = [l \in Locks |-> << >>]
  BY DEF Restart
<1>2. down \in Nat
  BY LockManagerAssumption
<1>3. ASSUME NEW l \in Locks
      PROVE  /\ QueueOK(rows[l]) /\ WaitersOf(rows[l]) = WaitersOf(queue[l])
             /\ queue[l] = << >> => rows[l] = << >>
             /\ cap[l] \in CooldownSecs \cup {0} /\ none[l] \in Nat
  <2>1. /\ QueueOK(rows[l]) /\ WaitersOf(rows[l]) = WaitersOf(queue[l])
        /\ queue[l] = << >> => rows[l] = << >>
    <3> HIDE DEF rows
    <3> QED BY <1>2, AgedRows DEF rows
  <2>2. cap[l] \in CooldownSecs \cup {0} /\ none[l] \in Nat
    BY CellFacts
  <2> QED BY <2>1, <2>2
<1>4. ASSUME NEW l \in Locks \ expired
      PROVE  CellOK(locks[l], aged[l], rows[l], rebuilt[l], none[l])
  <2>1. /\ aged[l] \in Lease
        /\ ~ Held(l) => aged[l] = NoLease
        /\ Held(l) => aged[l].holder = locks[l].holder /\ aged[l] # NoLease
        /\ ~ (aged[l].remaining < 0)
        /\ rebuilt[l] = IF aged[l] = NoLease THEN NoTimer ELSE aged[l].remaining
    BY <1>2, AgedLease
  <2>2. none[l] = 0 /\ locks[l] \in Lock
    BY CellFacts
  <2>3. Cell(l) /\ locks[l].holder \notin WaitersOf(queue[l])
    BY CellFacts
  <2> HIDE DEF aged, rows, cap, expired, rebuilt, none
  <2>4. aged[l].remaining \in Nat /\ Larger(aged[l].remaining, 0) = aged[l].remaining
    BY <2>1, LockManagerAssumption DEF Lease, Larger
  <2>5. CASE Held(l)
    BY <1>3, <2>1, <2>2, <2>3, <2>4, <2>5, LockManagerAssumption DEF Held, Cell, CellOK
  <2>6. CASE ~ Held(l)
    BY <1>3, <2>1, <2>2, <2>3, <2>6 DEF Held, Cell, CellOK
  <2> QED BY <2>5, <2>6
<1>5. expired \in SUBSET Locks
  OBVIOUS
<1>6. accelerated' \in [Locks -> CooldownSecs \cup {0}] /\ orphans' \in [Locks -> Seq(Nat)]
      /\ firing' = [l \in Locks |-> firing'[l]]
  BY <1>1, <1>3, EmptySeq
<1> HIDE DEF aged, rows, cap, expired, rebuilt, none
<1>7. /\ locks' = [l \in Locks |-> locks'[l]] /\ leases' = [l \in Locks |-> leases'[l]]
      /\ queue' = [l \in Locks |-> queue'[l]] /\ timers' = [l \in Locks |-> timers'[l]]
      /\ \A l \in Locks : CellOK(locks'[l], leases'[l], queue'[l], timers'[l], none[l])
  BY <1>1, <1>3, <1>4, <1>5, VacateCells
<1>8. Tables'
  BY <1>6, <1>7 DEF Tables
<1>9. \A l \in Locks : Cell(l)'
  BY <1>1, <1>7 DEF Cell
<1> QED BY <1>8, <1>9, AllCells

-----------------------------------------------------------------------------
(* Every step preserves the invariant: one step per action. *)
LEMMA NextSafe == IInv /\ [Next]_vars => IInv'
<1> SUFFICES ASSUME IInv, [Next]_vars PROVE IInv'
  OBVIOUS
<1>1. ASSUME NEW h \in Holders, NEW l \in Locks, NEW secs \in LeaseSecs, NEW re \in Modes,
             AcquireLock(h, l, secs, re)
      PROVE  IInv'
  BY <1>1, AcquireAgainSafe, EnqueueSafe, AcquireFreeSafe DEF AcquireLock
<1>2. ASSUME NEW h \in Holders, NEW names \in SUBSET Locks, NEW secs \in LeaseSecs,
             NEW re \in Modes, AcquireLocksBatch(h, names, secs, re)
      PROVE  IInv'
  BY <1>2, BatchSafe
<1>3. ASSUME NEW h \in Holders, NEW l \in Locks, ReleaseLock(h, l) PROVE IInv'
  BY <1>3, ReleaseOnceSafe, ReleaseLastSafe DEF ReleaseLock
<1>4. ASSUME NEW h \in Holders, NEW l \in Locks, NEW secs \in LeaseSecs,
             RenewLease(h, l, secs)
      PROVE  IInv'
  BY <1>4, RenewSafe
<1>5. ASSUME NEW h \in Holders, CancelWaitForHolder(h) PROVE IInv'
  BY <1>5, CancelSafe
<1>6. CASE ClientStep
  BY <1>1, <1>2, <1>3, <1>4, <1>5, <1>6 DEF ClientStep
<1>7. CASE \E taken \in SUBSET Locks : RollbackBatch(taken)
  BY <1>7, RollbackSafe
<1>8. CASE CooldownStep
  BY <1>8, ShortenSafe, AcceleratedSafe DEF CooldownStep
<1>9. CASE CheckWaitQueueTimeouts
  BY <1>9, SweepSafe
<1>10. CASE \E l \in Locks : TimerFires(l) \/ OrphanFires(l) \/ ExpireLock(l)
  BY <1>10, TimerFiresSafe, OrphanFiresSafe, ExpireSafe
<1>11. CASE Tick
  BY <1>11, TickSafe
<1>12. CASE \E down \in 0..MaxDowntime, kept \in SUBSET Locks : Restart(down, kept)
  BY <1>12, RestartSafe
<1>13. CASE UNCHANGED vars
  BY <1>13, SameCells, CellsAreInvariant DEF vars, CellsOK, Tables
<1> QED
  BY <1>6, <1>7, <1>8, <1>9, <1>10, <1>11, <1>12, <1>13 DEF Next

(* The inductive invariant holds in every reachable state. *)
THEOREM Inductive == Spec => []IInv
BY InitCells, NextSafe, PTL DEF Spec

(* Tables, queues and timers are sound together, in every interleaving of    *)
(* requests, timers, sweeps and restarts.                                    *)
THEOREM Sound == Spec => []LocksAreSound
<1>1. IInv => LocksAreSound
  BY DEF IInv, LocksAreSound
<1> QED BY <1>1, Inductive, PTL

(* The tables and the timers keep their types: no count, deadline or queue   *)
(* row ever leaves its range, for every number of locks and callers.         *)
THEOREM TypeCorrect == Spec => []TypeOK
<1>1. IInv => TypeOK
  BY DEF IInv
<1> QED BY <1>1, Inductive, PTL

(* The two tables every handler writes in separate statements never come     *)
(* apart: one active lease for every held lock, in the holder's name.        *)
THEOREM TablesAgree == Spec => []LeaseMatchesLock
<1>1. IInv => LeaseMatchesLock
  BY DEF IInv
<1> QED BY <1>1, Inductive, PTL

(* Whoever frees a lock hands it on: a free lock has no queue. *)
THEOREM NobodyQueuesForNothing == Spec => []FreeMeansNoQueue
<1>1. IInv => FreeMeansNoQueue
  BY DEF IInv
<1> QED BY <1>1, Inductive, PTL

(* No caller waits twice for a lock, or for one it holds. *)
THEOREM OneWaitPerCaller == Spec => []WaitsOnce
<1>1. IInv => WaitsOnce
  BY DEF IInv
<1> QED BY <1>1, Inductive, PTL

(* No lock is held for ever by oversight: every lease has a timer armed for  *)
(* its very end, or an expiry on its way, through renewals, cooldowns, late  *)
(* timers and restarts.                                                      *)
THEOREM EveryLeaseIsWatched == Spec => []LeaseIsWatched
<1>1. IInv => LeaseIsWatched
  BY DEF IInv
<1> QED BY <1>1, Inductive, PTL

-----------------------------------------------------------------------------
(* The search for a deadlock, CycleSearch, is right on every graph.  Nodes   *)
(* whose call has returned lead only to such nodes and lie on no cycle;      *)
(* nodes on the path reach the nodes after them.                             *)

Reach(x) == Reachable(edges, Nodes, x)
Returned == visited \ OnPath

Settled ==
  \A x \in Returned : Successors(x) \subseteq Returned /\ ~ OnCycle(edges, Nodes, x)

PathIsWalk ==
  /\ OnPath \subseteq visited
  /\ path # << >> => path[1] \in roots
  /\ \A i \in DOMAIN path : i + 1 \in DOMAIN path => <<path[i], path[i + 1]>> \in edges
  /\ \A i, j \in DOMAIN path : i <= j => path[j] \in Reach(path[i])

SearchIInv == SearchTyped /\ Settled /\ PathIsWalk /\ VerdictIsRight /\ ReportIsACycle

-----------------------------------------------------------------------------
(* Nodes that have returned reach no others, in particular no cycle. *)
LEMMA SettledReach ==
  ASSUME SearchTyped, Settled, NEW x \in Returned
  PROVE  Reach(x) \subseteq Returned /\ ~ HasCycleFrom(edges, Nodes, x)
<1>1. Returned \in SUBSET Nodes
  BY DEF SearchTyped, Returned
<1>2. \A e \in edges : e[1] \in Returned => e[2] \in Returned
  <2> SUFFICES ASSUME NEW e \in edges, e[1] \in Returned PROVE e[2] \in Returned
    OBVIOUS
  <2>1. e = <<e[1], e[2]>> /\ e[2] \in Nodes
    BY DEF SearchTyped
  <2>2. e[2] \in Successors(e[1])
    BY <2>1 DEF Successors
  <2> QED
    BY <2>2 DEF Settled
<1>3. Reach(x) \subseteq Returned
  BY <1>1, <1>2, ReachesWithin DEF Reach
<1> QED
  BY <1>3 DEF HasCycleFrom, Settled, Reach

(* Nothing is visited at first. *)
LEMMA SearchInitHolds == SearchInit => SearchIInv
<1> SUFFICES ASSUME SearchInit PROVE SearchIInv
  OBVIOUS
<1> USE DEF SearchInit
<1>1. SearchTyped
  BY DEF SearchTyped
<1>2. Settled /\ PathIsWalk
  BY DEF Settled, PathIsWalk, Returned, OnPath
<1> QED
  BY <1>1, <1>2 DEF SearchIInv, VerdictIsRight, ReportIsACycle

(* A call begins: the path is longer by y. *)
LEMMA VisitKeeps ==
  ASSUME SearchIInv, outcome = "searching", NEW y \in Nodes, Visit(y),
         y \notin visited,
         IF path = << >> THEN y \in roots ELSE y \in Successors(Top)
  PROVE  SearchIInv'
<1> USE DEF SearchIInv
<1> DEFINE n == Len(path)
<1>0. /\ path \in Seq(Nodes) /\ n \in Nat /\ DOMAIN path = 1..n
      /\ edges' = edges /\ roots' = roots /\ outcome' = "searching" /\ cycle' = cycle
      /\ visited' = visited \cup {y} /\ path' = Append(path, y)
  BY DEF SearchTyped, Visit
<1>1. SearchTyped'
  BY <1>0 DEF SearchTyped
<1>2. /\ DOMAIN path' = 1..(n + 1) /\ Len(path') = n + 1
      /\ path'[n + 1] = y
      /\ \A i \in 1..n : path'[i] = path[i]
  BY <1>0
<1>3. OnPath' = OnPath \cup {y}
  BY <1>0, <1>2 DEF OnPath
<1>4. Returned' = Returned
  BY <1>0, <1>3 DEF Returned
<1>5. Settled'
  BY <1>0, <1>4 DEF Settled, Successors
<1>6. PathIsWalk'
  <2>1. OnPath' \subseteq visited'
    BY <1>0, <1>3 DEF PathIsWalk
  <2>2. path'[1] \in roots'
    <3>1. CASE path = << >>
      BY <1>0, <1>2, <3>1
    <3>2. CASE path # << >>
      <4>1. n >= 1
        BY <1>0, <3>2
      <4> QED
        BY <4>1, <1>0, <1>2, <3>2 DEF PathIsWalk
    <3> QED
      BY <3>1, <3>2
  <2>3. n > 0 => <<path[n], y>> \in edges
    BY <1>0 DEF Top, Successors
  <2>4. \A i \in DOMAIN path' : i + 1 \in DOMAIN path' => <<path'[i], path'[i + 1]>> \in edges'
    <3> SUFFICES ASSUME NEW i \in 1..n PROVE <<path'[i], path'[i + 1]>> \in edges
      BY <1>0, <1>2
    <3>1. CASE i = n
      <4>1. path'[i] = path[n] /\ path'[i + 1] = y /\ n > 0
        BY <3>1, <1>0, <1>2
      <4> QED
        BY <4>1, <2>3
    <3>2. CASE i < n
      <4>1. i \in DOMAIN path /\ i + 1 \in DOMAIN path /\ i + 1 \in 1..n
        BY <3>2, <1>0
      <4>2. <<path[i], path[i + 1]>> \in edges
        BY <4>1 DEF PathIsWalk
      <4> QED
        BY <4>1, <4>2, <1>2
    <3>3. i = n \/ i < n
      <4> HIDE DEF n
      <4>1. n \in Nat /\ i \in 1..n
        BY <1>0
      <4> QED
        BY <4>1
    <3> QED
      BY <3>1, <3>2, <3>3
  <2>5. ASSUME NEW i \in 1..(n + 1), NEW j \in 1..(n + 1), i <= j
        PROVE  path'[j] \in Reachable(edges, Nodes, path'[i])
    <3>1. CASE j <= n
      <4>1. i \in DOMAIN path /\ j \in DOMAIN path /\ i \in 1..n /\ j \in 1..n
        BY <3>1, <2>5, <1>0
      <4>2. path[j] \in Reachable(edges, Nodes, path[i])
        BY <4>1, <2>5 DEF PathIsWalk, Reach
      <4> QED
        BY <4>1, <4>2, <1>2
    <3>2. CASE j = n + 1 /\ i = n + 1
      BY <3>2, <1>0, <1>2, ReachesItself
    <3>3. CASE j = n + 1 /\ i <= n
      <4>1. i \in DOMAIN path /\ n \in DOMAIN path /\ i <= n
        BY <3>3, <1>0, <1>2, <2>5
      <4>2. path[n] \in Reachable(edges, Nodes, path[i])
        BY <4>1 DEF PathIsWalk, Reach
      <4>3. <<path[n], y>> \in edges
        BY <4>1, <1>0, <2>3
      <4>4. y \in Reachable(edges, Nodes, path[i])
        BY <4>2, <4>3, ReachesFurther
      <4> QED
        BY <4>4, <4>1, <3>3, <1>0, <1>2
    <3> QED
      BY <3>1, <3>2, <3>3, <1>0, <2>5
  <2>6. \A i, j \in DOMAIN path' : i <= j => path'[j] \in Reachable(edges', Nodes, path'[i])
    BY <2>5, <1>0, <1>2
  <2> QED
    BY <2>1, <2>2, <2>4, <2>6 DEF PathIsWalk, Reach
<1> QED
  BY <1>0, <1>1, <1>5, <1>6 DEF VerdictIsRight, ReportIsACycle

(* A node of the path is reached again. *)
LEMMA CloseKeeps ==
  ASSUME SearchIInv, Close
  PROVE  SearchIInv'
<1> USE DEF SearchIInv
<1> DEFINE n == Len(path)
<1>0. /\ path \in Seq(Nodes) /\ n \in Nat /\ DOMAIN path = 1..n /\ n >= 1
      /\ edges' = edges /\ roots' = roots /\ outcome' = "cycle"
      /\ visited' = visited /\ path' = path
  BY DEF SearchTyped, Close
<1>1. PICK i \in 1..n : path[i] \in Back /\ cycle' = SubSeq(path, i, n)
  BY <1>0 DEF Close
<1>2. <<path[n], path[i]>> \in edges /\ path[i] \in Nodes
  BY <1>1 DEF Back, Successors, Top
<1>3. /\ cycle' \in Seq(Nodes) /\ Len(cycle') = n + 1 - i
      /\ \A k \in 1..(n + 1 - i) : cycle'[k] = path[i + k - 1]
  BY <1>0, <1>1
<1>4. SearchTyped'
  BY <1>0, <1>3 DEF SearchTyped
<1>5. Settled' /\ PathIsWalk'
  BY <1>0 DEF Settled, PathIsWalk, Returned, OnPath, Successors, Reach
<1>6. ReportIsACycle'
  <2>1. cycle' # << >>
    BY <1>3, <1>0
  <2>2. ASSUME NEW k \in 1..(Len(cycle') - 1) PROVE <<cycle'[k], cycle'[k + 1]>> \in edges'
    <3>1. i + k - 1 \in DOMAIN path /\ (i + k - 1) + 1 \in DOMAIN path
      BY <1>0, <1>3
    <3>2. <<path[i + k - 1], path[(i + k - 1) + 1]>> \in edges
      BY <3>1 DEF PathIsWalk
    <3>3. cycle'[k] = path[i + k - 1] /\ cycle'[k + 1] = path[(i + k - 1) + 1]
      <4>1. k \in 1..(n + 1 - i) /\ k + 1 \in 1..(n + 1 - i)
        BY <1>0, <1>3
      <4>2. i + (k + 1) - 1 = (i + k - 1) + 1
        BY <1>0
      <4>3. cycle'[k] = path[i + k - 1] /\ cycle'[k + 1] = path[i + (k + 1) - 1]
        BY <4>1, <1>3
      <4> QED
        BY <4>2, <4>3
    <3> QED
      BY <3>2, <3>3, <1>0
  <2>3. cycle'[Len(cycle')] = path[n] /\ cycle'[1] = path[i]
    BY <1>0, <1>3
  <2> QED
    BY <2>1, <2>2, <2>3, <1>0, <1>2 DEF ReportIsACycle
<1>7. VerdictIsRight'
  <2>1. 1 \in DOMAIN path /\ n \in DOMAIN path /\ i \in DOMAIN path
    BY <1>0
  <2>2. path[n] \in Reach(path[1]) /\ path[n] \in Reach(path[i]) /\ path[1] \in roots
    BY <2>1, <1>0 DEF PathIsWalk
  <2>3. OnCycle(edges, Nodes, path[n])
    BY <2>2, <1>2 DEF OnCycle, Reach
  <2>4. HasCycleFrom(edges, Nodes, path[1])
    BY <2>2, <2>3 DEF HasCycleFrom, Reach
  <2> QED
    BY <2>2, <2>4, <1>0 DEF VerdictIsRight
<1> QED
  BY <1>4, <1>5, <1>6, <1>7

(* The call of the last node of the path returns. *)
LEMMA ReturnKeeps ==
  ASSUME SearchIInv, Return
  PROVE  SearchIInv'
<1> USE DEF SearchIInv
<1> DEFINE n == Len(path)
<1>0. /\ path \in Seq(Nodes) /\ n \in Nat /\ DOMAIN path = 1..n /\ n >= 1
      /\ edges' = edges /\ roots' = roots /\ outcome' = "searching"
      /\ visited' = visited /\ cycle' = cycle
      /\ path' = SubSeq(path, 1, n - 1)
      /\ Successors(Top) \subseteq Returned
  BY DEF SearchTyped, Return, Returned
<1>1. /\ path' \in Seq(Nodes) /\ Len(path') = n - 1 /\ DOMAIN path' = 1..(n - 1)
      /\ \A k \in 1..(n - 1) : path'[k] = path[k]
  BY <1>0
<1>2. SearchTyped'
  BY <1>0, <1>1 DEF SearchTyped
<1>3. OnPath' \subseteq OnPath /\ OnPath \subseteq OnPath' \cup {Top}
  <2>1. OnPath' \subseteq OnPath
    BY <1>0, <1>1 DEF OnPath
  <2>2. ASSUME NEW k \in DOMAIN path PROVE path[k] \in OnPath' \cup {Top}
    <3>1. CASE k = n
      BY <3>1 DEF Top
    <3>2. CASE k < n
      <4>1. k \in 1..(n - 1) /\ path'[k] = path[k] /\ k \in DOMAIN path'
        BY <3>2, <1>0, <1>1
      <4> QED
        BY <4>1 DEF OnPath
    <3> QED
      BY <3>1, <3>2, <1>0
  <2> QED
    BY <2>1, <2>2 DEF OnPath
<1>4. Returned \subseteq Returned' /\ Returned' \subseteq Returned \cup {Top}
  BY <1>0, <1>3 DEF Returned
<1>5. ~ OnCycle(edges, Nodes, Top)
  <2> SUFFICES ASSUME NEW y \in Nodes, <<Top, y>> \in edges, Top \in Reach(y)
               PROVE  FALSE
    BY DEF OnCycle, Reach
  <2>1. y \in Returned
    BY <1>0 DEF Successors
  <2>2. Top \in Returned
    BY <2>1, SettledReach
  <2>3. Top \in OnPath
    BY <1>0 DEF Top, OnPath
  <2> QED
    BY <2>2, <2>3 DEF Returned
<1>6. Settled'
  <2> SUFFICES ASSUME NEW x \in Returned'
               PROVE  Successors(x) \subseteq Returned' /\ ~ OnCycle(edges, Nodes, x)
    BY <1>0 DEF Settled, Successors
  <2>1. CASE x \in Returned
    BY <2>1, <1>4 DEF Settled
  <2>2. CASE x = Top
    BY <2>2, <1>0, <1>4, <1>5
  <2> QED
    BY <2>1, <2>2, <1>4
<1>7. PathIsWalk'
  <2>1. OnPath' \subseteq visited'
    BY <1>0, <1>3 DEF PathIsWalk
  <2>2. path' # << >> => path'[1] \in roots'
    BY <1>0, <1>1 DEF PathIsWalk
  <2>3. \A i \in DOMAIN path' : i + 1 \in DOMAIN path' => <<path'[i], path'[i + 1]>> \in edges'
    BY <1>0, <1>1 DEF PathIsWalk
  <2>4. \A i, j \in DOMAIN path' : i <= j => path'[j] \in Reachable(edges', Nodes, path'[i])
    BY <1>0, <1>1 DEF PathIsWalk, Reach
  <2> QED
    BY <2>1, <2>2, <2>3, <2>4 DEF PathIsWalk, Reach
<1> QED
  BY <1>0, <1>2, <1>6, <1>7 DEF VerdictIsRight, ReportIsACycle

(* Every root has been visited and has returned. *)
LEMMA GiveUpKeeps ==
  ASSUME SearchIInv, GiveUp
  PROVE  SearchIInv'
<1> USE DEF SearchIInv
<1>0. /\ path = << >> /\ roots \subseteq visited /\ outcome' = "none"
      /\ UNCHANGED <<edges, roots, visited, path, cycle>>
  BY DEF GiveUp
<1>1. roots \subseteq Returned
  BY <1>0 DEF Returned, OnPath
<1>2. \A x \in roots : ~ HasCycleFrom(edges, Nodes, x)
  BY <1>1, SettledReach
<1>3. SearchTyped'
  BY <1>0 DEF SearchTyped
<1>4. Settled' /\ PathIsWalk'
  BY <1>0 DEF Settled, PathIsWalk, Returned, OnPath, Successors, Reach
<1> QED
  BY <1>0, <1>2, <1>3, <1>4 DEF VerdictIsRight, ReportIsACycle

(* Every step keeps the invariant, so it holds throughout the search. *)
THEOREM SearchInvariant == SearchSpec => []SearchIInv
<1>1. SearchInit => SearchIInv
  BY SearchInitHolds
<1>2. ASSUME SearchIInv, [SearchNext]_searchVars PROVE SearchIInv'
  <2>1. CASE Begin
    <3>1. PICK x \in roots \ visited : Visit(x)
      BY <2>1 DEF Begin
    <3> QED
      BY <1>2, <2>1, <3>1, VisitKeeps DEF Begin, SearchIInv, SearchTyped
  <2>2. CASE Descend
    <3>1. PICK y \in Successors(Top) \ visited : Visit(y)
      BY <2>2 DEF Descend
    <3> QED
      BY <1>2, <2>2, <3>1, VisitKeeps DEF Descend, Successors
  <2>3. CASE Close
    BY <1>2, <2>3, CloseKeeps
  <2>4. CASE Return
    BY <1>2, <2>4, ReturnKeeps
  <2>5. CASE GiveUp
    BY <1>2, <2>5, GiveUpKeeps
  <2>6. CASE UNCHANGED searchVars
    BY <1>2, <2>6 DEF searchVars, SearchIInv, SearchTyped, Settled, PathIsWalk, VerdictIsRight,
                     ReportIsACycle, Returned, OnPath, Successors, Reach
  <2> QED
    BY <1>2, <2>1, <2>2, <2>3, <2>4, <2>5, <2>6 DEF SearchNext
<1> QED
  BY <1>1, <1>2, PTL DEF SearchSpec

(* A deadlock is reported exactly when there is one, on every graph. *)
THEOREM SearchIsRight == SearchSpec => []VerdictIsRight
<1>1. SearchIInv => VerdictIsRight
  BY DEF SearchIInv
<1> QED
  BY <1>1, SearchInvariant, PTL

(* What is reported is a cycle of the graph. *)
THEOREM ReportIsGenuine == SearchSpec => []ReportIsACycle
<1>1. SearchIInv => ReportIsACycle
  BY DEF SearchIInv
<1> QED
  BY <1>1, SearchInvariant, PTL

(* The answer is right in every state of every search: the types hold, the   *)
(* verdict is the right one and the report is a cycle.                       *)
THEOREM AnswerSound == SearchSpec => []AnswerIsRight
<1>1. SearchIInv => AnswerIsRight
  BY DEF SearchIInv, AnswerIsRight
<1> QED
  BY <1>1, SearchInvariant, PTL

-----------------------------------------------------------------------------
(* The refinement: the lock manager is a LockService.  A step maps to the   *)
(* answer it gives, or to nothing when only deadlines change.                *)

(* A queue as LockService has it: without the lease asked for and the time   *)
(* left to wait.                                                             *)
Seen(q) ==
  [i \in DOMAIN q |-> [holder |-> q[i].holder, reentrant |-> q[i].reentrant]]

SeenQueues == [l \in Locks |-> Seen(queue[l])]

(* LockService has a cardinality of its own: it counts the same.             *)
LEMMA SameCount == ASSUME NEW S PROVE Service!Cardinality(S) = Cardinality(S)
BY DEF Service!Cardinality, Cardinality

(* The specification of LockService, over the queues as they are seen.       *)
LEMMA ServiceTerms ==
  /\ Service!LockServiceSpec <=>
       Service!InitLocks /\ [][Service!ServiceNext]_<<locks, SeenQueues>>
BY DEF Service!LockServiceSpec, SeenQueues, Seen

(* A queue and what is seen of it have the same rows.                        *)
LEMMA SeenIsQueue ==
  ASSUME NEW q, QueueOK(q)
  PROVE  /\ Len(q) \in Nat /\ DOMAIN q = 1..Len(q)
         /\ Len(Seen(q)) = Len(q) /\ DOMAIN Seen(q) = 1..Len(q)
         /\ Seen(q) \in Seq([holder : Holders, reentrant : BOOLEAN])
         /\ \A i \in DOMAIN q : /\ q[i] \in Row
                                /\ Seen(q)[i] = [holder |-> q[i].holder, reentrant |-> q[i].reentrant]
<1>1. /\ q \in Seq(Row) /\ Len(q) \in Nat /\ DOMAIN q = 1..Len(q)
      /\ \A i \in DOMAIN q : q[i] \in Row
  BY LenProperties, ElementOfSeq DEF QueueOK
<1>2. \A i \in DOMAIN q : Seen(q)[i] = [holder |-> q[i].holder, reentrant |-> q[i].reentrant]
  BY DEF Seen
<1>3. Seen(q) \in [1..Len(q) -> [holder : Holders, reentrant : BOOLEAN]]
  BY <1>1 DEF Seen, Row
<1>4. Seen(q) \in Seq([holder : Holders, reentrant : BOOLEAN]) /\ Len(Seen(q)) = Len(q)
  <2> HIDE DEF Seen
  <2>1. Seen(q) \in Seq([holder : Holders, reentrant : BOOLEAN])
    <3> DEFINE SeenRow == [holder : Holders, reentrant : BOOLEAN]
    <3>1. Seen(q) \in [1..Len(q) -> SeenRow]
      BY <1>3
    <3> HIDE DEF SeenRow
    <3>2. Seen(q) \in Seq(SeenRow)
      BY <1>1, <3>1, SeqDef
    <3> QED BY <3>2 DEF SeenRow
  <2>2. DOMAIN Seen(q) = 1..Len(q)
    BY <1>3
  <2> QED BY <1>1, <2>1, <2>2, LenProperties
<1> QED BY <1>1, <1>2, <1>3, <1>4

(* No queue is longer than there are callers: nobody is in it twice.         *)
LEMMA QueueFits ==
  ASSUME NEW q, QueueOK(q)
  PROVE  Len(q) <= Cardinality(Holders)
<1>1. /\ Len(q) \in Nat /\ DOMAIN q = 1..Len(q) /\ \A i \in DOMAIN q : q[i] \in Row
  BY SeenIsQueue
<1> DEFINE f == [i \in 1..Len(q) |-> q[i].holder]
<1>2. f \in [1..Len(q) -> Holders]
  BY <1>1 DEF Row
<1>3. f \in Injection(1..Len(q), Holders)
  BY <1>1, <1>2 DEF QueueOK, Injection, IsInjective
<1>4. IsFiniteSet(Holders) /\ Cardinality(Holders) \in Nat
  BY LockManagerAssumption, FS_CardinalityType
<1>5. IsFiniteSet(1..Len(q)) /\ Cardinality(1..Len(q)) = Len(q)
  BY <1>1, FS_Interval
<1>6. Cardinality(1..Len(q)) <= Cardinality(Holders)
  BY <1>3, <1>4, FS_Injection
<1> QED BY <1>5, <1>6

(* Locks that are handed over, with whatever deadlines, are locks that       *)
(* LockService loses.                                                        *)
LEMMA HandOverIsLoss ==
  ASSUME IInv, NEW S \in SUBSET Locks, NEW q, NEW lease, NEW timer, NEW cap,
         \A l \in Locks : QueueOK(q[l]) /\ Seen(q[l]) = Seen(queue[l]),
         Vacate(S, q, lease, timer, cap)
  PROVE  Service!Lose(S)
<1>1. PICK next \in [S -> 0..Cardinality(Holders)] :
        /\ \A l \in S : next[l] \in Grantees(q[l])
        /\ locks' = [l \in Locks |-> IF l \in S THEN NextLock(q[l], next[l]) ELSE locks[l]]
        /\ queue' = [l \in Locks |-> IF l \in S THEN NextQueue(q[l], next[l]) ELSE q[l]]
  BY DEF Vacate
<1>2. ASSUME NEW l \in S
      PROVE  /\ next[l] <= Len(SeenQueues[l])
             /\ NextLock(q[l], next[l]) = Service!Successor(l, next[l])
             /\ Seen(NextQueue(q[l], next[l])) = Service!Rest(l, next[l])
  <2> DEFINE n == next[l]
             p == q[l]
  <2>1. /\ SeenQueues[l] = Seen(p) /\ QueueOK(p)
    BY DEF SeenQueues
  <2>2. n \in 0..Len(p)
    BY <1>1, <2>1, GranteeIsRow
  <2>3. /\ Len(p) \in Nat /\ DOMAIN p = 1..Len(p) /\ p \in Seq(Row)
         /\ Len(Seen(p)) = Len(p) /\ DOMAIN Seen(p) = 1..Len(p)
         /\ \A i \in DOMAIN p : p[i] \in Row /\ Seen(p)[i] = [holder |-> p[i].holder, reentrant |-> p[i].reentrant]
    BY <2>1, SeenIsQueue DEF QueueOK
  <2>4. Service!Successor(l, n) =
          IF n = 0 THEN FreeLock ELSE HeldLock(SeenQueues[l][n].holder, SeenQueues[l][n].reentrant)
    BY DEF Service!Successor, SeenQueues, Seen, FreeLock, HeldLock, Service!FreeLock, Service!HeldLock
  <2>5. Service!Rest(l, n) =
          IF n = 0 THEN << >> ELSE [i \in 1 .. (Len(SeenQueues[l]) - n) |-> SeenQueues[l][i + n]]
    BY DEF Service!Rest, SeenQueues, Seen
  <2> HIDE DEF n, p
  <2>6. n <= Len(SeenQueues[l])
    BY <2>1, <2>2, <2>3
  <2>7. NextLock(p, n) = Service!Successor(l, n)
    BY <2>1, <2>2, <2>3, <2>4 DEF NextLock
  <2>8. Seen(NextQueue(p, n)) = Service!Rest(l, n)
    <3>1. CASE n = 0
      BY <3>1, <2>5 DEF NextQueue, Seen
    <3>2. CASE n # 0
      <4> DEFINE rest == SubSeq(p, n + 1, Len(p))
      <4>1. n \in 1..Len(p)
        BY <3>2, <2>2
      <4>2. /\ DOMAIN rest = 1..(Len(p) - n)
            /\ \A i \in 1..(Len(p) - n) : rest[i] = p[i + n] /\ i + n \in DOMAIN p
        BY <4>1, <2>3, SubSeqProperties, LenProperties
      <4> HIDE DEF rest
      <4>3. Seen(rest) = [i \in 1 .. (Len(p) - n) |-> Seen(p)[i + n]]
        BY <4>2, <2>3 DEF Seen
      <4> QED BY <4>3, <3>2, <2>1, <2>3, <2>5 DEF NextQueue, rest
    <3> QED BY <3>1, <3>2
  <2> QED BY <2>6, <2>7, <2>8 DEF n, p
<1>3. locks' = [l \in Locks |-> IF l \in S THEN Service!Successor(l, next[l]) ELSE locks[l]]
  BY <1>1, <1>2
<1>4. SeenQueues' = [l \in Locks |-> IF l \in S THEN Service!Rest(l, next[l]) ELSE SeenQueues[l]]
  BY <1>1, <1>2 DEF SeenQueues
<1> QED BY <1>1, <1>2, <1>3, <1>4, SameCount DEF Service!Lose, SeenQueues, Seen

(* LockService deletes rows the same way.                                    *)
LEMMA SameKeep == ASSUME NEW s, NEW K PROVE Service!Keep(s, K) = Keep(s, K)
<1>1. \A n : Service!Nth(K, n) = Nth(K, n)
  BY SameCount DEF Service!Nth, Nth
<1> QED BY <1>1, SameCount DEF Service!Keep, Keep

(* Deleting rows and forgetting their deadlines can be done in either order. *)
LEMMA SeenOfKept ==
  ASSUME NEW q, QueueOK(q), NEW K \in SUBSET (DOMAIN q)
  PROVE  Seen(Keep(q, K)) = Keep(Seen(q), K)
<1>1. /\ q \in Seq(Row)
      /\ \A i \in DOMAIN q : Seen(q)[i] = [holder |-> q[i].holder, reentrant |-> q[i].reentrant]
  BY SeenIsQueue DEF QueueOK
<1>2. /\ DOMAIN Keep(q, K) = 1..Cardinality(K)
      /\ \A n \in 1..Cardinality(K) : Nth(K, n) \in DOMAIN q /\ Keep(q, K)[n] = q[Nth(K, n)]
  <2>1. /\ DOMAIN Keep(q, K) = 1..Cardinality(K)
        /\ \A n \in DOMAIN Keep(q, K) : Nth(K, n) \in K /\ Keep(q, K)[n] = q[Nth(K, n)]
    BY <1>1, KeepPositions
  <2> QED BY <2>1
<1> QED BY <1>1, <1>2 DEF Seen, Keep

(* Rows that leave the queues have timed out, for all that LockService can   *)
(* tell.                                                                     *)
LEMMA RowsGone ==
  ASSUME IInv, NEW K,
         \A l \in Locks : K[l] \in SUBSET (DOMAIN queue[l]),
         queue' = [l \in Locks |-> Keep(queue[l], K[l])],
         locks' = locks
  PROVE  Service!TimeOutWaits
<1> DEFINE kept == [l \in Locks |-> K[l]]
<1>1. kept \in [Locks -> SUBSET (1 .. Cardinality(Holders))]
  <2> SUFFICES ASSUME NEW l \in Locks, NEW i \in K[l] PROVE i \in 1..Cardinality(Holders)
    OBVIOUS
  <2>1. /\ Len(queue[l]) \in Nat /\ DOMAIN queue[l] = 1..Len(queue[l])
        /\ Len(queue[l]) <= Cardinality(Holders)
    BY CellFacts, SeenIsQueue, QueueFits
  <2>2. Cardinality(Holders) \in Nat
    BY LockManagerAssumption, FS_CardinalityType
  <2>3. i \in 1..Len(queue[l])
    BY <2>1
  <2> QED BY <2>1, <2>2, <2>3
<1>2. ASSUME NEW l \in Locks
      PROVE  Seen(queue'[l]) = Service!Keep(Seen(queue[l]), DOMAIN Seen(queue[l]) \cap kept[l])
  <2>1. /\ QueueOK(queue[l]) /\ queue'[l] = Keep(queue[l], K[l])
    BY CellFacts
  <2>2. DOMAIN Seen(queue[l]) \cap kept[l] = K[l]
    BY DEF Seen
  <2>3. Seen(queue'[l]) = Keep(Seen(queue[l]), K[l])
    BY <2>1, SeenOfKept
  <2> QED BY <2>2, <2>3, SameKeep
<1> HIDE DEF kept
<1>3. SeenQueues' = [l \in Locks |-> Service!Keep(SeenQueues[l], DOMAIN SeenQueues[l] \cap kept[l])]
  BY <1>2 DEF SeenQueues
<1> QED BY <1>1, <1>3, SameCount DEF Service!TimeOutWaits, SeenQueues, Seen

(* Who holds a lock and who waits is what LockService says it is.            *)
LEMMA SameReading ==
  ASSUME IInv, NEW l \in Locks
  PROVE  /\ Service!Held(l) <=> Held(l)
         /\ Service!Waiting(l) = Waiting(l)
         /\ SeenQueues[l] = Seen(queue[l])
<1>1. SeenQueues[l] = Seen(queue[l])
  BY DEF SeenQueues
<1>2. Service!Waiting(l) = {SeenQueues[l][i].holder : i \in DOMAIN SeenQueues[l]}
  BY DEF Service!Waiting, SeenQueues, Seen
<1>3. \A i \in DOMAIN queue[l] : Seen(queue[l])[i].holder = queue[l][i].holder
  BY DEF Seen
<1>4. DOMAIN Seen(queue[l]) = DOMAIN queue[l]
  BY DEF Seen
<1> QED BY <1>1, <1>2, <1>3, <1>4 DEF Service!Held, Held, Waiting

(* What a row joining a queue looks like from outside. *)
LEMMA SeenOfLonger ==
  ASSUME NEW q, QueueOK(q), NEW row \in Row
  PROVE  LET seen == [holder |-> row.holder, reentrant |-> row.reentrant]
         IN  /\ Seen(Append(q, row)) = Append(Seen(q), seen)
             /\ Seen(<<row>> \o q) = <<seen>> \o Seen(q)
<1> DEFINE seen == [holder |-> row.holder, reentrant |-> row.reentrant]
           SeenRow == [holder : Holders, reentrant : BOOLEAN]
           sq == Seen(q)
<1>1. /\ q \in Seq(Row) /\ Len(q) \in Nat /\ DOMAIN q = 1..Len(q)
      /\ sq \in Seq(SeenRow) /\ Len(sq) = Len(q)
      /\ \A i \in 1..Len(q) : sq[i] = [holder |-> q[i].holder, reentrant |-> q[i].reentrant]
  BY SeenIsQueue DEF QueueOK
<1>2. seen \in SeenRow
  BY DEF Row
<1> HIDE DEF seen, SeenRow, sq
<1>3. Seen(Append(q, row)) = Append(sq, seen)
  <2> DEFINE long == Append(q, row)
             short == Append(sq, seen)
  <2>1. /\ DOMAIN long = 1..(Len(q) + 1)
        /\ \A i \in 1..Len(q) : long[i] = q[i]
        /\ long[Len(q) + 1] = row
    BY <1>1, AppendProperties, LenProperties
  <2>2. /\ short \in Seq(SeenRow) /\ Len(short) = Len(q) + 1
        /\ \A i \in 1..Len(q) : short[i] = sq[i]
        /\ short[Len(q) + 1] = seen
    BY <1>1, <1>2, AppendProperties
  <2>3. short = [i \in 1..(Len(q) + 1) |-> short[i]]
    <3> HIDE DEF short
    <3> QED BY <2>2, LenProperties, SeqDef
  <2> HIDE DEF long, short
  <2>4. \A i \in 1..(Len(q) + 1) : i \in 1..Len(q) \/ i = Len(q) + 1
    BY <1>1
  <2>5. \A i \in 1..(Len(q) + 1) :
          short[i] = [holder |-> long[i].holder, reentrant |-> long[i].reentrant]
    BY <1>1, <2>1, <2>2, <2>4 DEF seen
  <2>6. Seen(long) = short
    BY <2>1, <2>3, <2>5 DEF Seen
  <2> QED BY <2>6 DEF long, short
<1>4. Seen(<<row>> \o q) = <<seen>> \o sq
  <2> DEFINE one == <<row>>
             other == <<seen>>
             long == one \o q
             short == other \o sq
  <2>1. /\ one \in Seq(Row) /\ Len(one) = 1 /\ one[1] = row
        /\ other \in Seq(SeenRow) /\ Len(other) = 1 /\ other[1] = seen
    BY <1>2
  <2> HIDE DEF one, other
  <2>2. /\ long \in Seq(Row) /\ Len(long) = Len(q) + 1
        /\ \A i \in 1..(Len(q) + 1) : long[i] = IF i <= 1 THEN one[i] ELSE q[i - 1]
    <3>1. /\ long \in Seq(Row) /\ Len(long) = Len(one) + Len(q)
          /\ \A i \in 1..(Len(one) + Len(q)) :
               long[i] = IF i <= Len(one) THEN one[i] ELSE q[i - Len(one)]
      BY <1>1, <2>1, ConcatProperties
    <3>2. Len(one) + Len(q) = Len(q) + 1
      BY <1>1, <2>1
    <3> HIDE DEF long
    <3> QED BY <2>1, <3>1, <3>2
  <2>3. /\ short \in Seq(SeenRow) /\ Len(short) = Len(q) + 1
        /\ \A i \in 1..(Len(q) + 1) : short[i] = IF i <= 1 THEN other[i] ELSE sq[i - 1]
    <3>1. /\ short \in Seq(SeenRow) /\ Len(short) = Len(other) + Len(sq)
          /\ \A i \in 1..(Len(other) + Len(sq)) :
               short[i] = IF i <= Len(other) THEN other[i] ELSE sq[i - Len(other)]
      <4>1. sq \in Seq(SeenRow) /\ other \in Seq(SeenRow)
        BY <1>1, <2>1
      <4> QED BY <4>1, ConcatProperties
    <3>2. Len(other) + Len(sq) = Len(q) + 1
      BY <1>1, <2>1
    <3> HIDE DEF short
    <3> QED BY <2>1, <3>1, <3>2
  <2>4. /\ short = [i \in 1..(Len(q) + 1) |-> short[i]]
        /\ DOMAIN long = 1..(Len(q) + 1)
    <3> HIDE DEF short, long
    <3> QED BY <2>2, <2>3, LenProperties, SeqDef
  <2> HIDE DEF long, short
  <2>5. ASSUME NEW i \in 1..(Len(q) + 1)
        PROVE  short[i] = [holder |-> long[i].holder, reentrant |-> long[i].reentrant]
    <3>1. CASE i = 1
      BY <3>1, <1>1, <2>1, <2>2, <2>3 DEF seen
    <3>2. CASE i # 1
      <4>1. i - 1 \in 1..Len(q) /\ ~ (i <= 1)
        BY <3>2, <1>1
      <4>2. long[i] = q[i - 1] /\ short[i] = sq[i - 1]
        BY <4>1, <2>2, <2>3
      <4> QED BY <4>1, <4>2, <1>1
    <3> QED BY <3>1, <3>2
  <2>6. Seen(long) = short
    BY <2>4, <2>5 DEF Seen
  <2> QED BY <2>6 DEF long, short, one, other
<1> QED BY <1>3, <1>4 DEF seen, sq

(* A caller that joins a queue is queued.                                    *)
LEMMA EnqueueIsQueued ==
  ASSUME IInv, NEW h \in Holders, NEW l \in Locks, NEW secs \in LeaseSecs,
         NEW re \in Modes, Enqueue(h, l, secs, re)
  PROVE  Service!Queued(h, l, re)
<1> DEFINE row == WaitRow(h, re, secs)
           seen == Service!Row(h, re)
<1>1. row \in Row /\ seen = [holder |-> row.holder, reentrant |-> row.reentrant]
  BY LockManagerAssumption DEF WaitRow, Row, Service!Row
<1>2. queue' = [queue EXCEPT ![l] = <<row>> \o @] \/ queue' = [queue EXCEPT ![l] = Append(@, row)]
  BY DEF Enqueue
<1> HIDE DEF row, seen
<1>3. /\ Seen(Append(queue[l], row)) = Append(Seen(queue[l]), seen)
      /\ Seen(<<row>> \o queue[l]) = <<seen>> \o Seen(queue[l])
  BY <1>1, CellFacts, SeenOfLonger
<1>4. queue = [k \in Locks |-> queue[k]]
  BY CellFacts DEF Tables
<1>5. \/ SeenQueues' = [SeenQueues EXCEPT ![l] = <<seen>> \o @]
      \/ SeenQueues' = [SeenQueues EXCEPT ![l] = Append(@, seen)]
  <2>1. CASE queue' = [queue EXCEPT ![l] = <<row>> \o @]
    <3>1. queue' = [k \in Locks |-> IF k = l THEN <<row>> \o queue[l] ELSE queue[k]]
      BY <1>4, <2>1
    <3>2. SeenQueues' = [SeenQueues EXCEPT ![l] = <<seen>> \o @]
      BY <3>1, <1>3 DEF SeenQueues
    <3> QED BY <3>2
  <2>2. CASE queue' = [queue EXCEPT ![l] = Append(@, row)]
    <3>1. queue' = [k \in Locks |-> IF k = l THEN Append(queue[l], row) ELSE queue[k]]
      BY <1>4, <2>2
    <3>2. SeenQueues' = [SeenQueues EXCEPT ![l] = Append(@, seen)]
      BY <3>1, <1>3 DEF SeenQueues
    <3> QED BY <3>2
  <2> QED BY <1>2, <2>1, <2>2
<1>6. Held(l) /\ locks[l].holder # h /\ h \notin Waiting(l) /\ locks' = locks
  BY DEF Enqueue
<1> QED BY <1>5, <1>6, SameReading DEF Service!Queued, SeenQueues, Seen, seen

(* AcquireLock gives one of the answers of LockService.                      *)
LEMMA AcquireIsService ==
  ASSUME IInv, NEW h \in Holders, NEW l \in Locks, NEW secs \in LeaseSecs,
         NEW re \in Modes, AcquireLock(h, l, secs, re)
  PROVE  Service!Granted(h, l, re) \/ Service!Queued(h, l, re)
<1>1. CASE re /\ AcquireAgain(h, l)
  BY <1>1 DEF AcquireAgain, Service!Granted, SeenQueues, Seen
<1>2. CASE Enqueue(h, l, secs, re)
  BY <1>2, EnqueueIsQueued
<1>3. CASE AcquireFree(h, l, secs, re)
  BY <1>3, SameReading
  DEF AcquireFree, Service!Granted, HeldLock, Service!HeldLock, SeenQueues, Seen
<1> QED BY <1>1, <1>2, <1>3 DEF AcquireLock

(* AcquireLocksBatch takes all the locks.                                    *)
LEMMA BatchIsService ==
  ASSUME IInv, NEW h \in Holders, NEW names \in SUBSET Locks, NEW secs \in LeaseSecs,
         NEW re \in Modes, AcquireLocksBatch(h, names, secs, re)
  PROVE  Service!AcquireAll(h, names, re)
BY SameReading
DEF AcquireLocksBatch, Service!AcquireAll, HeldLock, Service!HeldLock, SeenQueues, Seen

(* A hand-over at this moment is a loss.                                     *)
LEMMA QueueLossIsService ==
  ASSUME IInv, NEW S \in SUBSET Locks, Vacate(S, queue, leases, timers, accelerated)
  PROVE  Service!Lose(S)
BY CellFacts, HandOverIsLoss

(* ReleaseLock is the release of LockService.                                *)
LEMMA ReleaseIsService ==
  ASSUME IInv, NEW h \in Holders, NEW l \in Locks, ReleaseLock(h, l)
  PROVE  Service!Release(h, l)
<1>1. CASE ReleaseOnce(h, l)
  BY <1>1 DEF ReleaseOnce, Service!Release, SeenQueues, Seen
<1>2. CASE ReleaseLast(h, l)
  BY <1>2, QueueLossIsService DEF ReleaseLast, Service!Release
<1> QED BY <1>1, <1>2 DEF ReleaseLock

(* The time that passes is not seen.                                         *)
LEMMA AgedIsSeenTheSame ==
  ASSUME IInv, NEW l \in Locks, NEW n \in Nat
  PROVE  Seen(AgedQueue(n)[l]) = Seen(queue[l])
<1>1. \A i \in DOMAIN queue[l] : queue[l][i] \in Row
  BY CellFacts, SeenIsQueue
<1>2. AgedQueue(n)[l] = [i \in DOMAIN queue[l] |-> [queue[l][i] EXCEPT !.timeout = Later(@, n)]]
  BY DEF AgedQueue
<1>3. \A i \in DOMAIN queue[l] : /\ AgedQueue(n)[l][i].holder = queue[l][i].holder
                                /\ AgedQueue(n)[l][i].reentrant = queue[l][i].reentrant
  BY <1>1, <1>2 DEF Row
<1> QED BY <1>2, <1>3 DEF Seen

(* A restart loses the locks whose leases ran out in the meantime.           *)
LEMMA RestartIsService ==
  ASSUME IInv, NEW down \in 0..MaxDowntime, NEW kept \in SUBSET Locks,
         Restart(down, kept)
  PROVE  \E S \in SUBSET Locks : Service!Lose(S)
<1>1. PICK S, lease, timer, cap :
        S \in SUBSET Locks /\ Vacate(S, AgedQueue(down), lease, timer, cap)
  BY DEF Restart
<1>2. \A l \in Locks : QueueOK(AgedQueue(down)[l]) /\ Seen(AgedQueue(down)[l]) = Seen(queue[l])
  BY LockManagerAssumption, AgedRows, AgedIsSeenTheSame
<1> QED BY <1>1, <1>2, HandOverIsLoss

(* Seen through the refinement, nothing happens. *)
LEMMA UnseenStep ==
  ASSUME locks' = locks, queue' = queue
  PROVE  UNCHANGED <<locks, SeenQueues>>
BY DEF SeenQueues

(* The clock is not seen.                                                    *)
LEMMA TickUnseen ==
  ASSUME IInv, Tick
  PROVE  UNCHANGED <<locks, SeenQueues>>
<1>1. \A l \in Locks : Seen(queue'[l]) = Seen(queue[l])
  BY AgedIsSeenTheSame DEF Tick
<1> QED BY <1>1 DEF Tick, SeenQueues

(* Every step of the lock manager is a step of LockService, or nothing that  *)
(* can be seen.                                                              *)
LEMMA NextIsService ==
  IInv /\ [Next]_vars => Service!ServiceNext \/ UNCHANGED <<locks, SeenQueues>>
<1> SUFFICES ASSUME IInv, [Next]_vars
             PROVE  Service!ServiceNext \/ UNCHANGED <<locks, SeenQueues>>
  OBVIOUS
<1>0. Modes \subseteq BOOLEAN
  BY LockManagerAssumption
<1>1. ASSUME NEW h \in Holders, NEW l \in Locks, NEW secs \in LeaseSecs, NEW re \in Modes,
             AcquireLock(h, l, secs, re)
      PROVE  Service!ServiceNext
  BY <1>0, <1>1, AcquireIsService DEF Service!ServiceNext
<1>2. ASSUME NEW h \in Holders, NEW names \in SUBSET Locks, NEW secs \in LeaseSecs,
             NEW re \in Modes, AcquireLocksBatch(h, names, secs, re)
      PROVE  Service!ServiceNext
  BY <1>0, <1>2, BatchIsService DEF Service!ServiceNext
<1>3. ASSUME NEW h \in Holders, NEW l \in Locks, ReleaseLock(h, l)
      PROVE  Service!ServiceNext
  BY <1>3, ReleaseIsService DEF Service!ServiceNext
<1>4. ASSUME NEW h \in Holders, CancelWaitForHolder(h)
      PROVE  Service!ServiceNext
  <2> DEFINE K == [l \in Locks |-> {i \in DOMAIN queue[l] : ~ (queue[l][i].holder = h)}]
  <2>1. queue' = [l \in Locks |-> Keep(queue[l], K[l])] /\ locks' = locks
    BY <1>4 DEF CancelWaitForHolder, Without
  <2>2. \A l \in Locks : K[l] \in SUBSET (DOMAIN queue[l])
    OBVIOUS
  <2> HIDE DEF K
  <2> QED BY <2>1, <2>2, RowsGone DEF Service!ServiceNext
<1>5. CASE ClientStep
  BY <1>1, <1>2, <1>3, <1>4, <1>5, UnseenStep DEF ClientStep, RenewLease
<1>6. CASE \E taken \in SUBSET Locks : RollbackBatch(taken)
  BY <1>6, QueueLossIsService DEF RollbackBatch, Service!ServiceNext
<1>7. CASE CooldownStep
  BY <1>7, UnseenStep DEF CooldownStep, ShortenLease, SetAcceleratedGrant
<1>8. CASE CheckWaitQueueTimeouts
  <2> DEFINE K == [l \in Locks |-> {i \in DOMAIN queue[l] : ~ (queue[l][i].timeout < 0)}]
  <2>1. queue' = [l \in Locks |-> Keep(queue[l], K[l])] /\ locks' = locks
    BY <1>8 DEF CheckWaitQueueTimeouts, Without
  <2>2. \A l \in Locks : K[l] \in SUBSET (DOMAIN queue[l])
    OBVIOUS
  <2> HIDE DEF K
  <2> QED BY <2>1, <2>2, RowsGone DEF Service!ServiceNext
<1>9. ASSUME NEW l \in Locks, TimerFires(l) \/ OrphanFires(l) \/ ExpireLock(l)
      PROVE  Service!ServiceNext \/ UNCHANGED <<locks, SeenQueues>>
  <2>1. CASE TimerFires(l) \/ OrphanFires(l)
    BY <2>1, UnseenStep DEF TimerFires, OrphanFires
  <2>2. CASE ExpireLock(l)
    <3>1. \/ Vacate({l}, queue, leases, timers, accelerated)
          \/ locks' = locks /\ queue' = queue
      BY <2>2 DEF ExpireLock
    <3>2. {l} \in SUBSET Locks
      OBVIOUS
    <3> QED BY <3>1, <3>2, QueueLossIsService, UnseenStep DEF Service!ServiceNext
  <2> QED BY <1>9, <2>1, <2>2
<1>10. CASE Tick
  BY <1>10, TickUnseen
<1>11. CASE \E down \in 0..MaxDowntime, kept \in SUBSET Locks : Restart(down, kept)
  BY <1>11, RestartIsService DEF Service!ServiceNext
<1>12. CASE UNCHANGED vars
  BY <1>12, UnseenStep DEF vars
<1> QED
  BY <1>5, <1>6, <1>7, <1>8, <1>9, <1>10, <1>11, <1>12 DEF Next

(* At first all locks are free, here and there.                              *)
LEMMA InitIsService == Init => Service!InitLocks
<1> SUFFICES ASSUME Init PROVE Service!InitLocks
  OBVIOUS
<1>1. SeenQueues = [l \in Locks |-> << >>]
  BY DEF Init, SeenQueues, Seen
<1> QED BY <1>1 DEF Init, Service!InitLocks, FreeLock, Service!FreeLock, SeenQueues, Seen

(* The other managers may rely on LockService: whatever leases, timers,      *)
(* cooldowns, sweeps, late goroutines and restarts do, the lock manager does *)
(* only what it allows.                                                      *)
THEOREM Implements == Spec => ImplementsLockService
<1>1. Init => Service!InitLocks
  BY InitIsService
<1>2. IInv /\ [Next]_vars => [Service!ServiceNext]_<<locks, SeenQueues>>
  BY NextIsService
<1>3. Spec => Service!InitLocks /\ [][Service!ServiceNext]_<<locks, SeenQueues>>
  BY <1>1, <1>2, Inductive, PTL DEF Spec
<1> QED BY <1>3, ServiceTerms DEF ImplementsLockService

-----------------------------------------------------------------------------
(* How a step moves a lock and its queue. *)

(* The callers of r are callers of q behind place n, in the same order. *)
Behind(q, r, n) ==
  \E f \in [DOMAIN r -> DOMAIN q] :
    /\ \A i \in DOMAIN r : f[i] > n /\ r[i].holder = q[f[i]].holder
    /\ \A i, j \in DOMAIN r : i < j => f[i] < f[j]

(* What may become of a lock and its queue, other than that a caller joins   *)
(* the queue.                                                                *)
Stays(lk, q, lk2, q2) ==
  lk2.holder = lk.holder /\ lk2.status = lk.status /\ Behind(q, q2, 0)
IsTaken(lk, q, lk2, q2) == lk.status # "held" /\ q = << >> /\ q2 = << >>
IsFreed(lk, q, lk2, q2) == lk2 = FreeLock /\ q2 = << >>
IsPassed(lk, q, lk2, q2) ==
  \E n \in DOMAIN q : lk2.holder = q[n].holder /\ Behind(q, q2, n)
Moves(lk, q, lk2, q2) ==
  \/ Stays(lk, q, lk2, q2) \/ IsTaken(lk, q, lk2, q2)
  \/ IsFreed(lk, q, lk2, q2) \/ IsPassed(lk, q, lk2, q2)

AllMove == \A l \in Locks : Moves(locks[l], queue[l], locks'[l], queue'[l])

(* A queue with the same callers is behind place 0.                          *)
LEMMA SameCallersStay ==
  ASSUME NEW q, QueueOK(q), NEW r, DOMAIN r = DOMAIN q,
         \A i \in DOMAIN q : r[i].holder = q[i].holder
  PROVE  Behind(q, r, 0)
<1>1. Len(q) \in Nat /\ DOMAIN q = 1..Len(q)
  BY SeenIsQueue
<1> DEFINE f == [i \in DOMAIN r |-> i]
<1>2. f \in [DOMAIN r -> DOMAIN q] /\ \A i \in DOMAIN r : f[i] = i
  OBVIOUS
<1> HIDE DEF f
<1>3. \A i \in DOMAIN r : f[i] > 0 /\ r[i].holder = q[f[i]].holder
  BY <1>1, <1>2
<1>4. \A i, j \in DOMAIN r : i < j => f[i] < f[j]
  BY <1>2
<1> QED BY <1>2, <1>3, <1>4 DEF Behind

(* Rows that are not deleted keep their order.                               *)
LEMMA KeptStay ==
  ASSUME NEW q, QueueOK(q), NEW K \in SUBSET (DOMAIN q)
  PROVE  Behind(q, Keep(q, K), 0)
<1> DEFINE r == Keep(q, K)
           f == [i \in DOMAIN r |-> Nth(K, i)]
<1>1. Len(q) \in Nat /\ DOMAIN q = 1..Len(q)
  BY SeenIsQueue
<1>2. /\ \A n \in DOMAIN r : Nth(K, n) \in K /\ r[n] = q[Nth(K, n)]
      /\ \A m, n \in DOMAIN r : m < n => Nth(K, m) < Nth(K, n)
  BY KeepPositions DEF QueueOK
<1>3. f \in [DOMAIN r -> DOMAIN q] /\ \A i \in DOMAIN r : f[i] = Nth(K, i)
  BY <1>2
<1> HIDE DEF f, r
<1>4. \A i \in DOMAIN r : f[i] > 0 /\ r[i].holder = q[f[i]].holder
  BY <1>1, <1>2, <1>3
<1>5. \A i, j \in DOMAIN r : i < j => f[i] < f[j]
  BY <1>2, <1>3
<1> QED BY <1>3, <1>4, <1>5 DEF Behind, r

(* The rows behind the one that is granted stay as they are. *)
LEMMA RestIsBehind ==
  ASSUME NEW q, QueueOK(q), NEW p, QueueOK(p), DOMAIN p = DOMAIN q,
         \A i \in DOMAIN q : p[i].holder = q[i].holder,
         NEW n \in DOMAIN q
  PROVE  Behind(q, NextQueue(p, n), n)
<1> DEFINE r == NextQueue(p, n)
           f == [i \in DOMAIN r |-> i + n]
<1>1. /\ Len(q) \in Nat /\ DOMAIN q = 1..Len(q)
      /\ Len(p) \in Nat /\ DOMAIN p = 1..Len(p) /\ p \in Seq(Row)
  BY SeenIsQueue DEF QueueOK
<1>2. Len(p) = Len(q) /\ n \in 1..Len(p)
  BY <1>1
<1>3. /\ DOMAIN r = 1..(Len(p) - n)
      /\ \A i \in 1..(Len(p) - n) : r[i] = p[i + n] /\ i + n \in DOMAIN p
  <2> DEFINE rest == SubSeq(p, n + 1, Len(p))
  <2>1. /\ DOMAIN rest = 1..(Len(p) - n)
        /\ \A i \in 1..(Len(p) - n) : rest[i] = p[i + n] /\ i + n \in DOMAIN p
    BY <1>1, <1>2, SubSeqProperties, LenProperties
  <2>2. r = rest
    BY <1>2 DEF NextQueue
  <2> HIDE DEF r, rest
  <2> QED BY <2>1, <2>2
<1>4. f = [i \in DOMAIN r |-> i + n]
  OBVIOUS
<1> HIDE DEF f, r
<1>5. f \in [DOMAIN r -> DOMAIN q] /\ \A i \in DOMAIN r : f[i] = i + n
  BY <1>3, <1>4
<1>6. \A i \in DOMAIN r : f[i] > n /\ r[i].holder = q[f[i]].holder
  BY <1>1, <1>2, <1>3, <1>5
<1>7. \A i, j \in DOMAIN r : i < j => f[i] < f[j]
  BY <1>2, <1>3, <1>5
<1> QED BY <1>5, <1>6, <1>7 DEF Behind, r

(* A hand-over passes a lock to a waiter, those behind it staying in their   *)
(* order, or frees it with its queue.                                        *)
LEMMA VacateMoves ==
  ASSUME IInv, NEW S \in SUBSET Locks, NEW q, NEW lease, NEW timer, NEW cap,
         \A l \in Locks : /\ QueueOK(q[l]) /\ DOMAIN q[l] = DOMAIN queue[l]
                          /\ \A i \in DOMAIN queue[l] : q[l][i].holder = queue[l][i].holder,
         Vacate(S, q, lease, timer, cap)
  PROVE  AllMove
<1>1. PICK next \in [S -> 0..Cardinality(Holders)] :
        /\ \A l \in S : next[l] \in Grantees(q[l])
        /\ locks' = [l \in Locks |-> IF l \in S THEN NextLock(q[l], next[l]) ELSE locks[l]]
        /\ queue' = [l \in Locks |-> IF l \in S THEN NextQueue(q[l], next[l]) ELSE q[l]]
  BY DEF Vacate
<1>2. ASSUME NEW l \in Locks \ S
      PROVE  Stays(locks[l], queue[l], locks'[l], queue'[l])
  <2>1. locks'[l] = locks[l] /\ queue'[l] = q[l]
    BY <1>1
  <2> QED BY <2>1, CellFacts, SameCallersStay DEF Stays
<1>3. ASSUME NEW l \in S
      PROVE  \/ IsFreed(locks[l], queue[l], locks'[l], queue'[l])
             \/ IsPassed(locks[l], queue[l], locks'[l], queue'[l])
  <2>1. /\ locks'[l] = NextLock(q[l], next[l]) /\ queue'[l] = NextQueue(q[l], next[l])
        /\ next[l] \in 0..Len(q[l])
    BY <1>1, GranteeIsRow
  <2>2. CASE next[l] = 0
    BY <2>1, <2>2 DEF NextLock, NextQueue, IsFreed
  <2>3. CASE next[l] # 0
    <3>1. Len(q[l]) \in Nat /\ DOMAIN q[l] = 1..Len(q[l])
      BY SeenIsQueue
    <3>2. next[l] \in DOMAIN queue[l]
      BY <2>1, <2>3, <3>1
    <3>3. Behind(queue[l], queue'[l], next[l])
      BY <2>1, <3>2, RestIsBehind, CellFacts
    <3>4. locks'[l].holder = queue[l][next[l]].holder
      BY <2>1, <2>3, <3>2 DEF NextLock, HeldLock
    <3> QED BY <3>2, <3>3, <3>4 DEF IsPassed
  <2> QED BY <2>2, <2>3
<1> QED BY <1>2, <1>3 DEF AllMove, Moves

(* So does a hand-over at this moment.                                       *)
LEMMA CurrentVacateMoves ==
  ASSUME IInv, NEW S \in SUBSET Locks, Vacate(S, queue, leases, timers, accelerated)
  PROVE  AllMove
BY CellFacts, VacateMoves

(* Rows leave the queues, the others stay in order.                          *)
LEMMA RowsGoneMoves ==
  ASSUME IInv, NEW K,
         \A l \in Locks : K[l] \in SUBSET (DOMAIN queue[l]),
         queue' = [l \in Locks |-> Keep(queue[l], K[l])],
         locks' = locks
  PROVE  AllMove
<1> SUFFICES ASSUME NEW l \in Locks
             PROVE  Stays(locks[l], queue[l], locks'[l], queue'[l])
  BY DEF AllMove, Moves
<1> QED BY CellFacts, KeptStay DEF Stays

(* The queues stay; only a free lock, whose queue is empty, gets a holder.   *)
LEMMA SameQueuesMove ==
  ASSUME IInv, queue' = queue,
         \A l \in Locks :
           \/ locks'[l].holder = locks[l].holder /\ locks'[l].status = locks[l].status
           \/ ~ Held(l)
  PROVE  AllMove
<1> SUFFICES ASSUME NEW l \in Locks
             PROVE  Moves(locks[l], queue[l], locks'[l], queue'[l])
  BY DEF AllMove
<1>1. CASE locks'[l].holder = locks[l].holder /\ locks'[l].status = locks[l].status
  BY <1>1, CellFacts, SameCallersStay DEF Moves, Stays
<1>2. CASE ~ Held(l)
  BY <1>2, CellFacts DEF Moves, IsTaken, Held, Cell, CellOK
<1> QED BY <1>1, <1>2

(* Time does not change who waits.                                           *)
LEMMA AgedCallers ==
  ASSUME IInv, NEW l \in Locks, NEW n \in Nat
  PROVE  /\ QueueOK(AgedQueue(n)[l]) /\ DOMAIN AgedQueue(n)[l] = DOMAIN queue[l]
         /\ \A i \in DOMAIN queue[l] : AgedQueue(n)[l][i].holder = queue[l][i].holder
<1>1. \A i \in DOMAIN queue[l] : queue[l][i] \in Row
  BY CellFacts, SeenIsQueue
<1>2. AgedQueue(n)[l] = [i \in DOMAIN queue[l] |-> [queue[l][i] EXCEPT !.timeout = Later(@, n)]]
  BY DEF AgedQueue
<1>3. \A i \in DOMAIN queue[l] : AgedQueue(n)[l][i].holder = queue[l][i].holder
  BY <1>1, <1>2 DEF Row
<1> QED BY <1>2, <1>3, AgedRows

(* Every step moves all locks in one of these ways, but for a caller that    *)
(* joins a queue.                                                            *)
LEMMA NextMoves ==
  ASSUME IInv, [Next]_vars
  PROVE  \/ AllMove
         \/ \E h \in Holders, l \in Locks, secs \in LeaseSecs, re \in Modes :
              Enqueue(h, l, secs, re)
<1>0. \A l \in Locks : locks[l] \in Lock /\ locks = [k \in Locks |-> locks[k]]
  BY CellFacts DEF Tables
<1>1. ASSUME NEW h \in Holders, NEW l \in Locks, NEW secs \in LeaseSecs, NEW re \in Modes,
             AcquireLock(h, l, secs, re), ~ Enqueue(h, l, secs, re)
      PROVE  AllMove
  <2>1. CASE AcquireAgain(h, l)
    BY <1>0, <2>1, SameQueuesMove DEF AcquireAgain, Lock
  <2>2. CASE AcquireFree(h, l, secs, re)
    BY <1>0, <2>2, SameQueuesMove DEF AcquireFree
  <2> QED BY <1>1, <2>1, <2>2 DEF AcquireLock
<1>2. ASSUME NEW h \in Holders, NEW names \in SUBSET Locks, NEW secs \in LeaseSecs,
             NEW re \in Modes, AcquireLocksBatch(h, names, secs, re)
      PROVE  AllMove
  BY <1>0, <1>2, SameQueuesMove DEF AcquireLocksBatch
<1>3. ASSUME NEW h \in Holders, NEW l \in Locks, ReleaseLock(h, l) PROVE AllMove
  <2>1. CASE ReleaseOnce(h, l)
    BY <1>0, <2>1, SameQueuesMove DEF ReleaseOnce, Lock
  <2>2. CASE ReleaseLast(h, l)
    BY <2>2, CurrentVacateMoves DEF ReleaseLast
  <2> QED BY <1>3, <2>1, <2>2 DEF ReleaseLock
<1>4. ASSUME NEW h \in Holders, CancelWaitForHolder(h) PROVE AllMove
  <2> DEFINE K == [l \in Locks |-> {i \in DOMAIN queue[l] : ~ (queue[l][i].holder = h)}]
  <2>1. queue' = [l \in Locks |-> Keep(queue[l], K[l])] /\ locks' = locks
    BY <1>4 DEF CancelWaitForHolder, Without
  <2>2. \A l \in Locks : K[l] \in SUBSET (DOMAIN queue[l])
    OBVIOUS
  <2> HIDE DEF K
  <2> QED BY <2>1, <2>2, RowsGoneMoves
<1>5. ASSUME locks' = locks, queue' = queue PROVE AllMove
  BY <1>5, SameQueuesMove
<1>6. CASE ClientStep
  BY <1>1, <1>2, <1>3, <1>4, <1>5, <1>6 DEF ClientStep, RenewLease
<1>7. CASE \E taken \in SUBSET Locks : RollbackBatch(taken)
  BY <1>7, CurrentVacateMoves DEF RollbackBatch
<1>8. CASE CooldownStep
  BY <1>5, <1>8 DEF CooldownStep, ShortenLease, SetAcceleratedGrant
<1>9. CASE CheckWaitQueueTimeouts
  <2> DEFINE K == [l \in Locks |-> {i \in DOMAIN queue[l] : ~ (queue[l][i].timeout < 0)}]
  <2>1. queue' = [l \in Locks |-> Keep(queue[l], K[l])] /\ locks' = locks
    BY <1>9 DEF CheckWaitQueueTimeouts, Without
  <2>2. \A l \in Locks : K[l] \in SUBSET (DOMAIN queue[l])
    OBVIOUS
  <2> HIDE DEF K
  <2> QED BY <2>1, <2>2, RowsGoneMoves
<1>10. ASSUME NEW l \in Locks, TimerFires(l) \/ OrphanFires(l) \/ ExpireLock(l)
       PROVE  AllMove
  <2>1. CASE TimerFires(l) \/ OrphanFires(l)
    BY <1>5, <2>1 DEF TimerFires, OrphanFires
  <2>2. CASE ExpireLock(l)
    <3>1. \/ Vacate({l}, queue, leases, timers, accelerated)
          \/ locks' = locks /\ queue' = queue
      BY <2>2 DEF ExpireLock
    <3>2. {l} \in SUBSET Locks
      OBVIOUS
    <3> QED BY <1>5, <3>1, <3>2, CurrentVacateMoves
  <2> QED BY <1>10, <2>1, <2>2
<1>11. CASE Tick
  <2> SUFFICES ASSUME NEW l \in Locks
               PROVE  Stays(locks[l], queue[l], locks'[l], queue'[l])
    BY DEF AllMove, Moves
  <2>1. queue'[l] = AgedQueue(1)[l] /\ locks' = locks
    BY <1>11 DEF Tick
  <2> QED BY <2>1, AgedCallers, CellFacts, SameCallersStay DEF Stays
<1>12. ASSUME NEW down \in 0..MaxDowntime, NEW kept \in SUBSET Locks, Restart(down, kept)
       PROVE  AllMove
  <2>1. PICK S, lease, timer, cap :
          S \in SUBSET Locks /\ Vacate(S, AgedQueue(down), lease, timer, cap)
    BY <1>12 DEF Restart
  <2>2. down \in Nat
    BY LockManagerAssumption
  <2> QED BY <2>1, <2>2, AgedCallers, VacateMoves
<1>13. CASE UNCHANGED vars
  BY <1>5, <1>13 DEF vars
<1> QED
  BY <1>6, <1>7, <1>8, <1>9, <1>10, <1>11, <1>12, <1>13 DEF Next

-----------------------------------------------------------------------------
(* Cycles of waits. *)

(* A new edge whose origin then reaches no cycle makes none. *)
LEMMA NewEdgeIsSafe ==
  ASSUME NEW N, NEW E \in SUBSET (N \X N), NEW h \in N, NEW x \in N,
         Acyclic(E, N), ~ HasCycleFrom(E \cup {<<h, x>>}, N, h)
  PROVE  Acyclic(E \cup {<<h, x>>}, N)
<1> DEFINE D == E \cup {<<h, x>>}
           R == Reachable(D, N, h)
<1> SUFFICES ASSUME NEW z \in N, NEW y \in N, <<z, y>> \in D, z \in Reachable(D, N, y)
             PROVE  FALSE
  BY DEF Acyclic, OnCycle
<1>0. R \in SUBSET N /\ h \in R
  BY ReachesItself DEF Reachable
<1>1. z \notin R
  BY DEF HasCycleFrom, OnCycle
<1>2. <<z, y>> \in E
  BY <1>0, <1>1
<1>3. z \notin Reachable(E, N, y)
  BY <1>2 DEF Acyclic, OnCycle
<1>4. PICK S \in SUBSET N : /\ y \in S /\ \A e \in E : e[1] \in S => e[2] \in S
                            /\ z \notin S
  BY <1>3 DEF Reachable
<1>5. \A e \in D : e[1] \in N /\ e[2] \in N /\ e = <<e[1], e[2]>>
  OBVIOUS
<1>6. \A e \in D : e[1] \in R => e[2] \in R
  <2> SUFFICES ASSUME NEW e \in D, e[1] \in R PROVE e[2] \in R
    OBVIOUS
  <2> HIDE DEF D
  <2>1. <<e[1], e[2]>> \in D /\ e[2] \in N
    BY <1>5
  <2> QED BY <2>1, ReachesFurther
<1>7. \A e \in D : e[1] \in S \cup R => e[2] \in S \cup R
  <2> SUFFICES ASSUME NEW e \in D, e[1] \in S, e \notin E PROVE e[2] \in R
    BY <1>4, <1>6
  <2>1. e = <<h, x>>
    OBVIOUS
  <2> QED BY <1>0, <1>6, <2>1
<1>8. Reachable(D, N, y) \subseteq S \cup R
  <2> HIDE DEF D, R
  <2>1. S \cup R \in SUBSET N /\ y \in S \cup R
    BY <1>0, <1>4
  <2> QED BY <1>7, <2>1, ReachesWithin
<1> QED BY <1>1, <1>4, <1>8

(* The edges of the wait-for graph, lock by lock.                            *)
LEMMA EdgeOf ==
  ASSUME NEW e
  PROVE  e \in WaitEdges <=>
           \E l \in Locks : Held(l) /\ \E w \in Waiting(l) \ {locks[l].holder} :
                              e = <<w, locks[l].holder>>
BY DEF WaitEdges

(* A lock passes from one holder to another.                                 *)
HandsOff == \E l \in Locks : /\ Held(l) /\ Held(l)'
                             /\ locks[l].holder # locks'[l].holder

(* Without a hand-over no wait is redirected: there are at most the edges    *)
(* there were.                                                               *)
LEMMA NoHandOffFewerEdges ==
  ASSUME IInv, AllMove, ~ HandsOff
  PROVE  WaitEdges' \subseteq WaitEdges
<1> SUFFICES ASSUME NEW l \in Locks, Held(l)', NEW w \in Waiting(l)' \ {locks'[l].holder}
             PROVE  <<w, locks'[l].holder>> \in WaitEdges
  BY DEF WaitEdges
<1>1. Moves(locks[l], queue[l], locks'[l], queue'[l])
  BY DEF AllMove
<1>2. PICK i \in DOMAIN queue'[l] : w = queue'[l][i].holder
  BY DEF Waiting
<1>3. CASE Stays(locks[l], queue[l], locks'[l], queue'[l])
  <2>1. PICK f \in [DOMAIN queue'[l] -> DOMAIN queue[l]] :
          \A k \in DOMAIN queue'[l] : queue'[l][k].holder = queue[l][f[k]].holder
    BY <1>3 DEF Stays, Behind
  <2>2. w \in Waiting(l)
    BY <1>2, <2>1 DEF Waiting
  <2>3. Held(l) /\ locks'[l].holder = locks[l].holder
    BY <1>3 DEF Stays, Held
  <2> QED BY <2>2, <2>3, EdgeOf
<1>4. CASE IsTaken(locks[l], queue[l], locks'[l], queue'[l])
  BY <1>2, <1>4 DEF IsTaken
<1>5. CASE IsFreed(locks[l], queue[l], locks'[l], queue'[l])
  BY <1>2, <1>5 DEF IsFreed
<1>6. CASE IsPassed(locks[l], queue[l], locks'[l], queue'[l])
  <2>1. PICK n \in DOMAIN queue[l] : locks'[l].holder = queue[l][n].holder
    BY <1>6 DEF IsPassed
  <2>2. locks'[l].holder # locks[l].holder
    BY <2>1, CellFacts DEF WaitersOf
  <2>3. Held(l)
    BY <2>1, CellFacts DEF Cell, CellOK, Held
  <2> QED BY <2>2, <2>3 DEF HandsOff
<1> QED BY <1>1, <1>3, <1>4, <1>5, <1>6 DEF Moves

(* Whoever joins a queue has been looked for on a cycle, and no other edge   *)
(* is new.                                                                   *)
LEMMA EnqueueClosesNoCycle ==
  ASSUME IInv, NEW h \in Holders, NEW l \in Locks, NEW secs \in LeaseSecs,
         NEW re \in Modes, Enqueue(h, l, secs, re), Acyclic(WaitEdges, Holders)
  PROVE  Acyclic(WaitEdges', Holders)
<1> DEFINE x == locks[l].holder
           row == WaitRow(h, re, secs)
<1>1. /\ Held(l) /\ x # h /\ ~ HasCycleFrom(WaitEdges \cup {<<h, x>>}, Holders, h)
      /\ locks' = locks
  BY DEF Enqueue, WouldDeadlock
<1>2. \A k \in Locks : Held(k) => locks[k].holder \in Holders
  BY CellFacts DEF Held, Cell, CellOK
<1>3. \A k \in Locks : Waiting(k) \subseteq Holders
  <2> SUFFICES ASSUME NEW k \in Locks, NEW i \in DOMAIN queue[k]
               PROVE  queue[k][i].holder \in Holders
    BY DEF Waiting
  <2> QED BY CellFacts, SeenIsQueue DEF Row
<1>4. WaitEdges \in SUBSET (Holders \X Holders)
  <2> SUFFICES ASSUME NEW e \in WaitEdges PROVE e \in Holders \X Holders
    OBVIOUS
  <2> QED BY <1>2, <1>3, EdgeOf
<1>5. /\ \A k \in Locks \ {l} : queue'[k] = queue[k]
      /\ WaitersOf(queue'[l]) = WaitersOf(queue[l]) \cup {h}
  <2>1. row \in Row /\ row.holder = h
    BY LockManagerAssumption DEF WaitRow, Row
  <2>2. queue'[l] = <<row>> \o queue[l] \/ queue'[l] = Append(queue[l], row)
    BY CellFacts DEF Enqueue, Tables
  <2>3. QueueOK(queue[l]) /\ h \notin WaitersOf(queue[l])
    BY CellFacts DEF Enqueue, Waiting, WaitersOf
  <2> HIDE DEF row
  <2>4. WaitersOf(queue'[l]) = WaitersOf(queue[l]) \cup {h}
    BY <2>1, <2>2, <2>3, QueueGrows
  <2> QED BY <2>4, CellFacts DEF Enqueue, Tables
<1> HIDE DEF x
<1>6. WaitEdges' \subseteq WaitEdges \cup {<<h, x>>}
  <2> SUFFICES ASSUME NEW k \in Locks, Held(k)', NEW w \in Waiting(k)' \ {locks'[k].holder}
               PROVE  <<w, locks'[k].holder>> \in WaitEdges \cup {<<h, x>>}
    BY DEF WaitEdges
  <2>1. Held(k) /\ locks'[k].holder = locks[k].holder
    BY <1>1 DEF Held
  <2>2. w \in Waiting(k) \/ (k = l /\ w = h)
    BY <1>5 DEF Waiting, WaitersOf
  <2>3. CASE w \in Waiting(k)
    BY <2>1, <2>3, EdgeOf
  <2>4. CASE k = l /\ w = h
    BY <2>1, <2>4 DEF x
  <2> QED BY <2>2, <2>3, <2>4
<1>7. Acyclic(WaitEdges \cup {<<h, x>>}, Holders)
  <2>1. x \in Holders
    BY <1>1, <1>2 DEF x
  <2> QED BY <1>1, <1>4, <2>1, NewEdgeIsSafe
<1> QED BY <1>6, <1>7, FewerEdges

(* No request closes a cycle of waits: if one appears, a lock was handed     *)
(* from one holder to another in that very step, for every set of locks and  *)
(* callers.                                                                  *)
THEOREM NoRequestClosesACycle == Spec => CyclesComeFromHandOff
<1>1. ASSUME IInv, [Next]_vars, Acyclic(WaitEdges, Holders), ~ HandsOff
      PROVE  Acyclic(WaitEdges', Holders)
  BY <1>1, NextMoves, NoHandOffFewerEdges, FewerEdges, EnqueueClosesNoCycle
<1>2. IInv /\ [Next]_vars =>
        [Acyclic(WaitEdges, Holders) /\ ~ Acyclic(WaitEdges, Holders)' =>
           \E l \in Locks : /\ Held(l) /\ Held(l)'
                            /\ locks[l].holder # locks'[l].holder]_vars
  BY <1>1 DEF HandsOff
<1> QED BY <1>2, Inductive, PTL DEF Spec, CyclesComeFromHandOff

-----------------------------------------------------------------------------
(* The order of the queue. *)

(* Two callers of a queue have one order in it. *)
LEMMA OneOrder ==
  ASSUME IInv, NEW l \in Locks, NEW a, NEW b, Ahead(l, a, b), Ahead(l, b, a)
  PROVE  FALSE
<1>1. DOMAIN queue[l] \subseteq Nat
  BY CellFacts, SeenIsQueue
<1> QED BY <1>1, CellFacts DEF Ahead, QueueOK

(* Who is left behind a place was there, in that order.                      *)
LEMMA BehindKeepsOrder ==
  ASSUME NEW l \in Locks, NEW n, Behind(queue[l], queue'[l], n), NEW a, NEW b
  PROVE  /\ Waiting(l)' \subseteq Waiting(l)
         /\ Ahead(l, a, b)' => Ahead(l, a, b)
         /\ a \in Waiting(l)' => \E i \in DOMAIN queue[l] : i > n /\ queue[l][i].holder = a
<1>1. PICK f \in [DOMAIN queue'[l] -> DOMAIN queue[l]] :
        /\ \A i \in DOMAIN queue'[l] : f[i] > n /\ queue'[l][i].holder = queue[l][f[i]].holder
        /\ \A i, j \in DOMAIN queue'[l] : i < j => f[i] < f[j]
  BY DEF Behind
<1>2. Waiting(l)' \subseteq Waiting(l)
  BY <1>1 DEF Waiting
<1>3. Ahead(l, a, b)' => Ahead(l, a, b)
  BY <1>1 DEF Ahead
<1>4. ASSUME a \in Waiting(l)'
      PROVE  \E i \in DOMAIN queue[l] : i > n /\ queue[l][i].holder = a
  BY <1>1, <1>4 DEF Waiting
<1> QED BY <1>2, <1>3, <1>4

(* Who is ahead of somebody waits.                                           *)
LEMMA AheadWait ==
  ASSUME NEW l \in Locks, NEW a, NEW b
  PROVE  /\ Ahead(l, a, b) => a \in Waiting(l) /\ b \in Waiting(l)
         /\ Ahead(l, a, b)' => a \in Waiting(l)' /\ b \in Waiting(l)'
BY DEF Ahead, Waiting

(* However a lock moves, the order of its waiters is respected.              *)
LEMMA MoveIsFair ==
  ASSUME IInv, NEW l \in Locks, Moves(locks[l], queue[l], locks'[l], queue'[l]),
         NEW a \in Holders, NEW b \in Holders
  PROVE  KeepsPlace(l, a, b) /\ EntersBehind(l, a, b) /\ TakesOnlyFree(l, b)
<1>0. locks[l].holder \notin Waiting(l)
  BY CellFacts DEF Waiting, WaitersOf
<1>1. CASE Stays(locks[l], queue[l], locks'[l], queue'[l])
  BY <1>0, <1>1, BehindKeepsOrder, OneOrder, AheadWait
  DEF Stays, KeepsPlace, EntersBehind, TakesOnlyFree
<1>2. CASE IsTaken(locks[l], queue[l], locks'[l], queue'[l])
  <2>1. Waiting(l) = {} /\ Waiting(l)' = {}
    BY <1>2 DEF IsTaken, Waiting
  <2> QED BY <2>1, AheadWait DEF KeepsPlace, EntersBehind, TakesOnlyFree
<1>3. CASE IsFreed(locks[l], queue[l], locks'[l], queue'[l])
  <2>1. Waiting(l)' = {} /\ locks'[l].holder = NoHolder
    BY <1>3 DEF IsFreed, Waiting, FreeLock
  <2> QED
    BY <2>1, AheadWait, LockManagerAssumption DEF KeepsPlace, EntersBehind, TakesOnlyFree
<1>4. CASE IsPassed(locks[l], queue[l], locks'[l], queue'[l])
  <2>1. PICK n \in DOMAIN queue[l] : /\ locks'[l].holder = queue[l][n].holder
                                     /\ Behind(queue[l], queue'[l], n)
    BY <1>4 DEF IsPassed
  <2>2. queue[l][n].holder \in Waiting(l)
    BY DEF Waiting
  <2>3. ASSUME Ahead(l, a, b), a \in Waiting(l)', b = queue[l][n].holder PROVE FALSE
    <3>1. PICK i \in DOMAIN queue[l] : i > n /\ queue[l][i].holder = a
      BY <2>1, <2>3, BehindKeepsOrder
    <3>2. PICK j, k \in DOMAIN queue[l] :
            j < k /\ queue[l][j].holder = a /\ queue[l][k].holder = b
      BY <2>3 DEF Ahead
    <3>3. j = i /\ k = n
      BY <2>3, <3>1, <3>2, CellFacts DEF QueueOK
    <3>4. DOMAIN queue[l] \subseteq Nat
      BY CellFacts, SeenIsQueue
    <3> QED BY <3>1, <3>2, <3>3, <3>4
  <2> QED
    BY <2>1, <2>2, <2>3, BehindKeepsOrder, OneOrder, AheadWait
    DEF KeepsPlace, EntersBehind, TakesOnlyFree
<1> QED BY <1>1, <1>2, <1>3, <1>4 DEF Moves

(* A caller that joins at the tail comes behind all others; at the head,     *)
(* before them.  The others keep their order.                                *)
InOrder(q, c, d) ==
  \E m, n \in DOMAIN q : m < n /\ q[m].holder = c /\ q[n].holder = d

LEMMA TailKeepsOrder ==
  ASSUME NEW q, QueueOK(q), NEW row \in Row, NEW c, NEW d,
         InOrder(Append(q, row), c, d)
  PROVE  d = row.holder \/ InOrder(q, c, d)
<1>1. /\ q \in Seq(Row) /\ Len(q) \in Nat /\ DOMAIN q = 1..Len(q)
  BY SeenIsQueue DEF QueueOK
<1> DEFINE r == Append(q, row)
<1>2. /\ DOMAIN r = 1..(Len(q) + 1)
      /\ \A i \in 1..Len(q) : r[i] = q[i]
      /\ r[Len(q) + 1] = row
  BY <1>1, AppendProperties, LenProperties
<1>3. PICK i, j \in DOMAIN r : i < j /\ r[i].holder = c /\ r[j].holder = d
  BY DEF InOrder
<1> HIDE DEF r
<1>4. i \in 1..Len(q) /\ (j \in 1..Len(q) \/ j = Len(q) + 1)
  BY <1>1, <1>2, <1>3
<1> QED BY <1>1, <1>2, <1>3, <1>4 DEF InOrder

LEMMA HeadKeepsOrder ==
  ASSUME NEW q, QueueOK(q), NEW row \in Row, NEW c, NEW d,
         InOrder(<<row>> \o q, c, d)
  PROVE  c = row.holder \/ InOrder(q, c, d)
<1>1. /\ q \in Seq(Row) /\ Len(q) \in Nat /\ DOMAIN q = 1..Len(q)
  BY SeenIsQueue DEF QueueOK
<1> DEFINE one == <<row>>
           r == one \o q
<1>2. one \in Seq(Row) /\ Len(one) = 1 /\ one[1] = row
  OBVIOUS
<1> HIDE DEF one
<1>3. /\ r \in Seq(Row) /\ Len(r) = Len(one) + Len(q)
      /\ \A i \in 1..(Len(one) + Len(q)) : r[i] = IF i <= Len(one) THEN one[i] ELSE q[i - Len(one)]
  BY <1>1, <1>2, ConcatProperties
<1>4. PICK i, j \in DOMAIN r : i < j /\ r[i].holder = c /\ r[j].holder = d
  BY DEF InOrder, one
<1> HIDE DEF r
<1>5. DOMAIN r = 1..(Len(q) + 1)
  BY <1>1, <1>2, <1>3, LenProperties
<1>6. CASE i = 1
  BY <1>1, <1>2, <1>3, <1>4, <1>6
<1>7. CASE i # 1
  <2>1. /\ i - 1 \in 1..Len(q) /\ j - 1 \in 1..Len(q) /\ i - 1 < j - 1
        /\ ~ (i <= 1) /\ ~ (j <= 1)
    BY <1>1, <1>4, <1>5, <1>7
  <2>2. r[i] = q[i - 1] /\ r[j] = q[j - 1]
    BY <1>1, <1>2, <1>3, <1>5, <2>1
  <2> QED BY <1>1, <1>4, <2>1, <2>2 DEF InOrder
<1> QED BY <1>6, <1>7

(* So it is when a caller joins a queue.                                     *)
LEMMA EnqueueIsFair ==
  ASSUME IInv, NEW h \in Holders, NEW k \in Locks, NEW secs \in LeaseSecs,
         NEW re \in Modes, Enqueue(h, k, secs, re),
         NEW l \in Locks, NEW a \in Holders, NEW b \in Holders
  PROVE  KeepsPlace(l, a, b) /\ EntersBehind(l, a, b) /\ TakesOnlyFree(l, b)
<1>0. locks' = locks /\ locks[l].holder \notin Waiting(l)
  BY CellFacts DEF Enqueue, Waiting, WaitersOf
<1>1. CASE l # k
  <2>1. queue'[l] = queue[l]
    BY <1>1, CellFacts DEF Enqueue, Tables
  <2>2. Moves(locks[l], queue[l], locks'[l], queue'[l])
    BY <1>0, <2>1, CellFacts, SameCallersStay DEF Moves, Stays
  <2> QED BY <2>2, MoveIsFair
<1>2. CASE l = k
  <2> DEFINE row == WaitRow(h, re, secs)
  <2>1. /\ row \in Row /\ row.holder = h
    BY LockManagerAssumption DEF WaitRow, Row
  <2>2. /\ h \in Gold => queue'[l] = <<row>> \o queue[l]
        /\ h \notin Gold => queue'[l] = Append(queue[l], row)
    BY <1>2, CellFacts DEF Enqueue, Tables
  <2>3. /\ QueueOK(queue[l]) /\ h \notin Waiting(l) /\ Waiting(l) = WaitersOf(queue[l])
        /\ Waiting(l)' = WaitersOf(queue'[l])
    BY <1>2, CellFacts DEF Enqueue, Waiting, WaitersOf
  <2> HIDE DEF row
  <2>4. \A c, d : /\ Ahead(l, c, d) <=> InOrder(queue[l], c, d)
                  /\ Ahead(l, c, d)' <=> InOrder(queue'[l], c, d)
    BY DEF Ahead, InOrder
  <2>5. ASSUME NEW c, NEW d, Ahead(l, c, d)'
        PROVE  \/ Ahead(l, c, d)
               \/ d = h
               \/ c = h /\ h \in Gold
    <3>1. CASE h \in Gold
      <4>1. InOrder(<<row>> \o queue[l], c, d)
        BY <2>2, <2>4, <2>5, <3>1
      <4> QED BY <2>1, <2>3, <2>4, <3>1, <4>1, HeadKeepsOrder
    <3>2. CASE h \notin Gold
      <4>1. InOrder(Append(queue[l], row), c, d)
        BY <2>2, <2>4, <2>5, <3>2
      <4> QED BY <2>1, <2>3, <2>4, <3>2, <4>1, TailKeepsOrder
    <3> QED BY <3>1, <3>2
  <2>6. KeepsPlace(l, a, b)
    <3> SUFFICES ASSUME Ahead(l, a, b), a \in Waiting(l)'
                 PROVE  locks'[l].holder # b /\ ~ Ahead(l, b, a)'
      BY DEF KeepsPlace
    <3>1. a # h /\ b # h
      BY <2>3, AheadWait
    <3> QED BY <1>0, <2>5, <3>1, OneOrder, AheadWait
  <2>7. EntersBehind(l, a, b)
    <3> SUFFICES ASSUME a \in Waiting(l), b \notin Waiting(l), Ahead(l, b, a)'
                 PROVE  b \in Gold
      BY DEF EntersBehind
    <3>1. a # h
      BY <2>3
    <3> QED BY <2>5, <3>1, AheadWait
  <2>8. TakesOnlyFree(l, b)
    BY <1>0 DEF TakesOnlyFree
  <2> QED BY <2>6, <2>7, <2>8
<1> QED BY <1>1, <1>2

(* Whoever waits keeps its place, behind gold callers at most, and nobody    *)
(* takes a lock past its queue, for every set of locks and callers.          *)
THEOREM FairQueue == Spec => QueueIsFair
<1>1. ASSUME IInv, [Next]_vars, NEW l \in Locks, NEW a \in Holders, NEW b \in Holders
      PROVE  KeepsPlace(l, a, b) /\ EntersBehind(l, a, b) /\ TakesOnlyFree(l, b)
  BY <1>1, NextMoves, MoveIsFair, EnqueueIsFair DEF AllMove
<1>2. IInv /\ [Next]_vars =>
        [\A l \in Locks, a, b \in Holders :
           KeepsPlace(l, a, b) /\ EntersBehind(l, a, b) /\ TakesOnlyFree(l, b)]_vars
  BY <1>1
<1> QED BY <1>2, Inductive, PTL DEF Spec, QueueIsFair

=============================================================================
