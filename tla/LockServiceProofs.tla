-------------------------- MODULE LockServiceProofs --------------------------
(***************************************************************************)
(* The lock service has sound queues and keeps the promise LeaseLock       *)
(* makes, for any locks and callers.  The cascades of the topology do to   *)
(* locks and queues only what the service allows, so this holds of them    *)
(* too.  The edges they walk along never make a cycle, the walks meet      *)
(* parents first and leave out no descendant, and a caller who came with   *)
(* nothing has no lock but what his cascade booked or was stuck at.        *)
(***************************************************************************)
EXTENDS TopologyCascade, DataProofs

WaitRow == [holder : Holders, reentrant : BOOLEAN]
ServiceRow ==
  [status : {"free", "held"}, holder : Holders \cup {NoHolder}, reentrant : BOOLEAN, count : Nat]

WaitersOf(q) == {q[i].holder : i \in DOMAIN q}
QueueOK(q) ==
  /\ q \in Seq(WaitRow)
  /\ \A i, j \in DOMAIN q : q[i].holder = q[j].holder => i = j

(* One lock and its queue. *)
CellOK(lock, q) ==
  /\ lock \in ServiceRow /\ QueueOK(q)
  /\ lock.status = "free" => lock = FreeLock /\ q = << >>
  /\ lock.status = "held" => lock.holder \in Holders \ WaitersOf(q)

IInv ==
  /\ locks \in [Locks -> ServiceRow]
  /\ queue \in [Locks -> Seq(WaitRow)]
  /\ \A l \in Locks : CellOK(locks[l], queue[l])

(* What the invariant says of one lock. *)
LEMMA CellFacts ==
  ASSUME IInv, NEW l \in Locks
  PROVE  /\ CellOK(locks[l], queue[l]) /\ Waiting(l) = WaitersOf(queue[l])
         /\ Held(l) <=> locks[l].holder # NoHolder
         /\ ~ Held(l) => locks[l] = FreeLock /\ queue[l] = << >> /\ Waiting(l) = {}
         /\ locks[l].holder \in Holders \cup {NoHolder} /\ Waiting(l) \subseteq Holders
<1>1. CellOK(locks[l], queue[l]) /\ Waiting(l) = WaitersOf(queue[l])
  BY DEF IInv, Waiting, WaitersOf
<1>2. \A i \in DOMAIN queue[l] : queue[l][i] \in WaitRow
  BY <1>1, ElementOfSeq DEF CellOK, QueueOK
<1>3. queue[l] = << >> => Waiting(l) = {}
  BY DEF Waiting
<1>4. Waiting(l) \subseteq Holders
  BY <1>2 DEF Waiting, WaitRow
<1> QED
  BY <1>1, <1>3, <1>4, ServiceAssumption DEF CellOK, ServiceRow, FreeLock, Held, ServiceAssumption

(* The rows that are written have their types. *)
LEMMA RowFacts ==
  ASSUME NEW h \in Holders, NEW re \in BOOLEAN
  PROVE  /\ FreeLock \in ServiceRow /\ FreeLock.holder = NoHolder /\ FreeLock.status = "free"
         /\ HeldLock(h, re) \in ServiceRow /\ HeldLock(h, re).holder = h
         /\ HeldLock(h, re).status = "held"
         /\ Row(h, re) \in WaitRow /\ Row(h, re).holder = h
BY DEF FreeLock, HeldLock, ServiceRow, Row, WaitRow

(* An empty queue is sound. *)
LEMMA EmptyQueue == QueueOK(<< >>) /\ WaitersOf(<< >>) = {}
BY DEF QueueOK, WaitersOf

(* And so is a free lock that nobody waits for. *)
LEMMA FreeCell == CellOK(FreeLock, << >>)
BY EmptyQueue DEF CellOK, FreeLock, ServiceRow

(* The invariant holds when each lock is fine after the step. *)
LEMMA AllCells ==
  ASSUME NEW L, NEW Q, locks' = [l \in Locks |-> L[l]], queue' = [l \in Locks |-> Q[l]],
         \A l \in Locks : CellOK(L[l], Q[l])
  PROVE  IInv'
<1>1. \A l \in Locks : L[l] \in ServiceRow /\ Q[l] \in Seq(WaitRow)
  BY DEF CellOK, QueueOK
<1> QED
  BY <1>1 DEF IInv

(* Some free locks are taken at once. *)
LEMMA Taken ==
  ASSUME IInv, NEW h \in Holders, NEW re \in BOOLEAN, NEW S \in SUBSET Locks,
         \A l \in S : ~ Held(l),
         locks' = [l \in Locks |-> IF l \in S THEN HeldLock(h, re) ELSE locks[l]],
         queue' = queue
  PROVE  IInv' /\ Promise!Take(h, S)
<1>1. \A l \in S : locks[l].holder = NoHolder /\ Waiting(l) = {} /\ queue[l] = << >>
  BY CellFacts
<1>2. \A l \in Locks : locks'[l] = IF l \in S THEN HeldLock(h, re) ELSE locks[l]
  OBVIOUS
<1>3. IInv'
  <2>1. \A l \in S : CellOK(HeldLock(h, re), queue[l])
    BY <1>1, EmptyQueue, RowFacts DEF CellOK
  <2>2. \A l \in Locks : CellOK(locks'[l], queue[l])
    BY <1>2, <2>1, CellFacts
  <2>3. locks' = [l \in Locks |-> locks'[l]] /\ queue' = [l \in Locks |-> queue[l]]
    BY DEF IInv
  <2>4. \A l \in Locks : locks'[l] \in ServiceRow /\ queue[l] \in Seq(WaitRow)
    BY <2>2 DEF CellOK, QueueOK
  <2> QED
    BY <2>2, <2>3, <2>4 DEF IInv
<1>4. [l \in Locks |-> locks'[l].holder]
        = [l \in Locks |-> IF l \in S THEN h ELSE [k \in Locks |-> locks[k].holder][l]]
  BY <1>2, RowFacts
<1>5. Promise!Take(h, S)
  BY <1>1, <1>4 DEF Promise!Take, Promise!Idle, Waiting
<1> QED
  BY <1>3, <1>5

(* A newcomer joins at either end of a queue it is not in. *)
LEMMA Joined ==
  ASSUME NEW q, QueueOK(q), NEW row \in WaitRow, row.holder \notin WaitersOf(q),
         NEW r, r = Append(q, row) \/ r = <<row>> \o q
  PROVE  QueueOK(r) /\ WaitersOf(r) = WaitersOf(q) \cup {row.holder}
<1>1. /\ q \in Seq(WaitRow) /\ Len(q) \in Nat /\ DOMAIN q = 1 .. Len(q)
      /\ \A i \in 1 .. Len(q) : q[i] \in WaitRow /\ q[i].holder # row.holder
  BY DEF QueueOK, WaitersOf
<1>2. CASE r = Append(q, row)
  <2>1. /\ r \in Seq(WaitRow) /\ DOMAIN r = 1 .. Len(q) + 1
        /\ \A i \in 1 .. Len(q) : r[i] = q[i]
        /\ r[Len(q) + 1] = row
    BY <1>1, <1>2
  <2> QED
    BY <1>1, <2>1 DEF QueueOK, WaitersOf
<1>3. CASE r = <<row>> \o q
  <2>1. /\ r \in Seq(WaitRow) /\ DOMAIN r = 1 .. Len(q) + 1
        /\ \A i \in 2 .. Len(q) + 1 : r[i] = q[i - 1]
        /\ r[1] = row
    BY <1>1, <1>3
  <2>2. \A i \in DOMAIN r : i = 1 \/ (i - 1 \in DOMAIN q /\ r[i] = q[i - 1])
    BY <1>1, <2>1
  <2>3. \A i \in DOMAIN q : i + 1 \in DOMAIN r /\ r[i + 1] = q[i]
    BY <1>1, <2>1
  <2>4. \A i, j \in DOMAIN r : r[i].holder = r[j].holder => i = j
    BY <1>1, <2>1, <2>2 DEF QueueOK
  <2>5. WaitersOf(r) \subseteq WaitersOf(q) \cup {row.holder}
    BY <2>1, <2>2 DEF WaitersOf
  <2>6. row.holder \in WaitersOf(r) /\ WaitersOf(q) \subseteq WaitersOf(r)
    <3>1. 1 \in DOMAIN r
      BY <1>1, <2>1
    <3> QED
      BY <2>1, <2>3, <3>1 DEF WaitersOf
  <2> QED
    BY <2>1, <2>4, <2>5, <2>6 DEF QueueOK
<1> QED
  BY <1>2, <1>3

(* Who queues joins at either end. *)
LEMMA QueuedStep ==
  ASSUME IInv, NEW h \in Holders, NEW l \in Locks, NEW re \in BOOLEAN, Queued(h, l, re)
  PROVE  IInv' /\ Promise!Join(h, l)
<1>1. PICK r \in {Append(queue[l], Row(h, re)), <<Row(h, re)>> \o queue[l]} :
        queue' = [queue EXCEPT ![l] = r]
  BY DEF Queued
<1>2. /\ Held(l) /\ locks[l].holder # h /\ h \notin WaitersOf(queue[l])
      /\ QueueOK(queue[l]) /\ locks' = locks
  BY CellFacts DEF Queued, CellOK
<1>3. QueueOK(r) /\ WaitersOf(r) = WaitersOf(queue[l]) \cup {h}
  <2>0. PICK row, q : row = Row(h, re) /\ q = queue[l]
    OBVIOUS
  <2>1. row \in WaitRow /\ row.holder = h
    BY <2>0, RowFacts
  <2>2. QueueOK(q) /\ h \notin WaitersOf(q) /\ (r = Append(q, row) \/ r = <<row>> \o q)
    BY <1>1, <1>2, <2>0
  <2>3. row.holder \notin WaitersOf(q)
    BY <2>1, <2>2
  <2>4. QueueOK(r) /\ WaitersOf(r) = WaitersOf(q) \cup {row.holder}
    BY <2>1, <2>2, <2>3, Joined
  <2> QED
    BY <2>0, <2>1, <2>4
<1>4. \A k \in Locks : queue'[k] = IF k = l THEN r ELSE queue[k]
  BY <1>1 DEF IInv
<1>5. IInv'
  <2>1. CellOK(locks[l], r)
    BY <1>2, <1>3, CellFacts DEF CellOK, Held
  <2>2. \A k \in Locks : CellOK(locks'[k], queue'[k])
    BY <1>2, <1>4, <2>1, CellFacts
  <2>3. r \in Seq(WaitRow)
    BY <1>3 DEF QueueOK
  <2> QED
    BY <1>1, <1>2, <2>2, <2>3 DEF IInv
<1>6. \A k \in Locks : Waiting(k)' = IF k = l THEN Waiting(l) \cup {h} ELSE Waiting(k)
  BY <1>3, <1>4, CellFacts DEF Waiting, WaitersOf
<1>7. [k \in Locks |-> Waiting(k)'] = [[k \in Locks |-> Waiting(k)] EXCEPT ![l] = @ \cup {h}]
  BY <1>6
<1>8. Promise!Join(h, l)
  BY <1>2, <1>7, CellFacts DEF Promise!Join
<1> QED
  BY <1>5, <1>8

(* What is left behind the row that is granted. *)
LEMMA Behind ==
  ASSUME NEW q, QueueOK(q), NEW i \in DOMAIN q,
         NEW rest, rest = [n \in 1 .. (Len(q) - i) |-> q[n + i]]
  PROVE  QueueOK(rest) /\ WaitersOf(rest) \subseteq WaitersOf(q) \ {q[i].holder}
<1>1. /\ q \in Seq(WaitRow) /\ Len(q) \in Nat /\ i \in 1 .. Len(q) /\ DOMAIN q = 1 .. Len(q)
      /\ \A j \in DOMAIN q : q[j] \in WaitRow
  BY DEF QueueOK
<1>2. DOMAIN rest = 1 .. (Len(q) - i) /\ Len(q) - i \in Nat
  BY <1>1
<1>3. \A n \in DOMAIN rest : n + i \in DOMAIN q /\ n + i # i /\ rest[n] = q[n + i]
  BY <1>1, <1>2
<1>4. rest \in Seq(WaitRow)
  BY <1>1, <1>2, <1>3
<1>5. \A m, n \in DOMAIN rest : rest[m].holder = rest[n].holder => m = n
  <2> SUFFICES ASSUME NEW m \in DOMAIN rest, NEW n \in DOMAIN rest,
                      rest[m].holder = rest[n].holder
               PROVE  m = n
    OBVIOUS
  <2>1. m + i = n + i
    BY <1>3 DEF QueueOK
  <2> QED
    BY <1>1, <1>2, <2>1
<1>6. WaitersOf(rest) \subseteq WaitersOf(q) \ {q[i].holder}
  BY <1>3 DEF WaitersOf, QueueOK
<1> QED
  BY <1>4, <1>5, <1>6 DEF QueueOK

(* A lock loses its holder: the next one waited for it, and those who still  *)
(* wait did so before; or nobody waits any more and the lock is free.        *)
LEMMA Succeeded ==
  ASSUME IInv, NEW l \in Locks, NEW i \in 0 .. Len(queue[l])
  PROVE  /\ CellOK(Successor(l, i), Rest(l, i))
         /\ i = 0 => Successor(l, i).holder = NoHolder /\ WaitersOf(Rest(l, i)) = {}
         /\ i # 0 => /\ Successor(l, i).holder \in Waiting(l)
                     /\ WaitersOf(Rest(l, i)) \subseteq Waiting(l) \ {Successor(l, i).holder}
<1>1. CASE i = 0
  BY <1>1, FreeCell, EmptyQueue DEF Successor, Rest, FreeLock
<1>2. CASE i # 0
  <2> DEFINE row == queue[l][i]
  <2>1. QueueOK(queue[l]) /\ Waiting(l) = WaitersOf(queue[l])
    BY CellFacts DEF CellOK
  <2>2. i \in DOMAIN queue[l] /\ row \in WaitRow
    BY <1>2, <2>1 DEF QueueOK
  <2>3. row.holder \in Holders /\ row.reentrant \in BOOLEAN
    BY <2>2 DEF WaitRow
  <2>4. Successor(l, i) = HeldLock(row.holder, row.reentrant)
    BY <1>2 DEF Successor
  <2>5. QueueOK(Rest(l, i)) /\ WaitersOf(Rest(l, i)) \subseteq WaitersOf(queue[l]) \ {row.holder}
    BY <1>2, <2>1, <2>2, Behind DEF Rest
  <2>6. row.holder \in Waiting(l)
    BY <2>2 DEF Waiting
  <2> HIDE DEF row
  <2> QED
    BY <1>2, <2>1, <2>3, <2>4, <2>5, <2>6, RowFacts DEF CellOK
<1> QED
  BY <1>1, <1>2

(* Losing a lock that nobody holds changes nothing, losing others passes     *)
(* them on.                                                                  *)
LEMMA LoseStep ==
  ASSUME IInv, NEW S \in SUBSET Locks, Lose(S)
  PROVE  IInv' /\ \E T \in SUBSET Locks : Promise!Pass(T)
<1>1. PICK next \in [S -> 0 .. Cardinality(Holders)] :
        /\ \A l \in S : next[l] <= Len(queue[l])
        /\ locks' = [l \in Locks |-> IF l \in S THEN Successor(l, next[l]) ELSE locks[l]]
        /\ queue' = [l \in Locks |-> IF l \in S THEN Rest(l, next[l]) ELSE queue[l]]
  BY DEF Lose
<1>2. \A l \in S : next[l] \in 0 .. Len(queue[l])
  <2>1. \A l \in S : Len(queue[l]) \in Nat
    BY DEF IInv
  <2>2. IsFiniteSet(Holders) /\ Cardinality(Holders) \in Nat
    BY ServiceAssumption, FS_CardinalityType DEF ServiceAssumption
  <2> QED
    BY <1>1, <2>1, <2>2
<1>3. \A l \in Locks :
        /\ locks'[l] = IF l \in S THEN Successor(l, next[l]) ELSE locks[l]
        /\ queue'[l] = IF l \in S THEN Rest(l, next[l]) ELSE queue[l]
  BY <1>1
<1>4. \A l \in Locks : CellOK(locks'[l], queue'[l])
  BY <1>2, <1>3, Succeeded, CellFacts
<1>5. \A l \in Locks : locks'[l] \in ServiceRow /\ queue'[l] \in Seq(WaitRow)
  BY <1>4 DEF CellOK, QueueOK
<1>6. IInv'
  BY <1>1, <1>4, <1>5 DEF IInv
<1>7. ASSUME NEW l \in S, ~ Held(l)
      PROVE  locks'[l].holder = locks[l].holder /\ Waiting(l)' = Waiting(l)
  <2>1. locks[l] = FreeLock /\ queue[l] = << >> /\ Waiting(l) = {}
    BY <1>7, CellFacts
  <2>2. next[l] = 0
    BY <1>2, <2>1
  <2>3. locks'[l] = FreeLock /\ queue'[l] = << >>
    BY <1>3, <2>2 DEF Successor, Rest
  <2>4. Waiting(l)' = {}
    BY <2>3 DEF Waiting
  <2> QED
    BY <2>1, <2>3, <2>4
<1>8. ASSUME NEW l \in Locks, l \notin S
      PROVE  locks'[l].holder = locks[l].holder /\ Waiting(l)' = Waiting(l)
  BY <1>3, <1>8 DEF Waiting
<1>9. ASSUME NEW l \in S, Held(l)
      PROVE  /\ locks[l].holder # NoHolder
             /\ \/ locks'[l].holder \in Waiting(l) /\ Waiting(l)' \subseteq Waiting(l) \ {locks'[l].holder}
                \/ locks'[l].holder = NoHolder /\ Waiting(l)' = {}
  <2>1. Waiting(l)' = WaitersOf(Rest(l, next[l])) /\ locks'[l] = Successor(l, next[l])
    BY <1>3 DEF Waiting, WaitersOf
  <2> QED
    BY <1>2, <1>9, <2>1, Succeeded, CellFacts
<1>10. \A l \in Locks : locks'[l].holder \in Holders \cup {NoHolder} /\ Waiting(l)' \in SUBSET Holders
  <2> SUFFICES ASSUME NEW l \in Locks
               PROVE  locks'[l].holder \in Holders \cup {NoHolder} /\ Waiting(l)' \in SUBSET Holders
    OBVIOUS
  <2>1. locks'[l] \in ServiceRow /\ queue'[l] \in Seq(WaitRow)
    BY <1>5
  <2>2. \A i \in DOMAIN queue'[l] : queue'[l][i].holder \in Holders
    <3>1. \A i \in DOMAIN queue'[l] : queue'[l][i] \in WaitRow
      BY <2>1
    <3> QED
      BY <3>1 DEF WaitRow
  <2> QED
    BY <2>1, <2>2 DEF Waiting, ServiceRow
<1>11. PICK T \in SUBSET Locks : T = {l \in S : Held(l)}
  OBVIOUS
<1>12. Promise!Pass(T)
  BY <1>7, <1>8, <1>9, <1>10, <1>11 DEF Promise!Pass, Promise!Passed
<1> QED
  BY <1>6, <1>12

(* Some rows leave every queue. *)
LEMMA TimeOutStep ==
  ASSUME IInv, TimeOutWaits
  PROVE  IInv' /\ Promise!Leave
<1>1. PICK kept \in [Locks -> SUBSET (1 .. Cardinality(Holders))] :
        queue' = [l \in Locks |-> Keep(queue[l], DOMAIN queue[l] \cap kept[l])]
  BY DEF TimeOutWaits
<1>2. locks' = locks
  BY DEF TimeOutWaits
<1>3. ASSUME NEW l \in Locks
      PROVE  /\ QueueOK(queue'[l]) /\ WaitersOf(queue'[l]) \subseteq WaitersOf(queue[l])
             /\ queue[l] = << >> => queue'[l] = << >>
  <2> DEFINE K == DOMAIN queue[l] \cap kept[l]
             q == Keep(queue[l], K)
  <2>1. QueueOK(queue[l]) /\ queue[l] \in Seq(WaitRow) /\ K \in SUBSET (DOMAIN queue[l])
    BY CellFacts DEF CellOK, QueueOK
  <2>2. queue'[l] = q
    BY <1>1
  <2> HIDE DEF K
  <2>3. /\ q \in Seq(WaitRow) /\ DOMAIN q = 1 .. Cardinality(K)
        /\ \A n \in DOMAIN q : Nth(K, n) \in K /\ q[n] = queue[l][Nth(K, n)]
        /\ \A m, n \in DOMAIN q : Nth(K, m) = Nth(K, n) => m = n
    BY <2>1, KeepPositions
  <2> HIDE DEF q
  <2>4. QueueOK(q)
    BY <2>1, <2>3 DEF QueueOK
  <2>5. WaitersOf(q) \subseteq WaitersOf(queue[l])
    BY <2>1, <2>3 DEF WaitersOf
  <2>6. queue[l] = << >> => q = << >>
    <3>1. queue[l] = << >> => Cardinality(K) = 0
      BY FS_EmptySet DEF K
    <3> QED
      BY <2>3, <3>1
  <2> QED
    BY <2>2, <2>4, <2>5, <2>6
<1>4. \A l \in Locks : CellOK(locks'[l], queue'[l])
  BY <1>2, <1>3, CellFacts DEF CellOK
<1>5. \A l \in Locks : queue'[l] \in Seq(WaitRow)
  BY <1>3 DEF QueueOK
<1>6. IInv'
  BY <1>1, <1>2, <1>4, <1>5 DEF IInv
<1>7. \A l \in Locks : Waiting(l)' \subseteq Waiting(l) /\ Waiting(l)' \in SUBSET Holders
  BY <1>3, CellFacts DEF Waiting, WaitersOf
<1> QED
  BY <1>2, <1>6, <1>7 DEF Promise!Leave

(* A lock is taken, or its owner enters it again. *)
LEMMA GrantedStep ==
  ASSUME IInv, NEW h \in Holders, NEW l \in Locks, NEW re \in BOOLEAN, Granted(h, l, re)
  PROVE  IInv' /\ (Promise!Take(h, {l})
                   \/ ([k \in Locks |-> locks'[k].holder] = [k \in Locks |-> locks[k].holder]
                       /\ queue' = queue))
<1>1. CASE ~ Held(l) /\ locks' = [locks EXCEPT ![l] = HeldLock(h, re)] /\ queue' = queue
  <2>1. locks' = [k \in Locks |-> IF k \in {l} THEN HeldLock(h, re) ELSE locks[k]]
    BY <1>1 DEF IInv
  <2> QED
    BY <1>1, <2>1, Taken
<1>2. CASE locks[l].holder = h /\ locks' = [locks EXCEPT ![l].count = @ + 1] /\ queue' = queue
  <2>1. CellOK(locks[l], queue[l]) /\ Held(l)
    BY <1>2, CellFacts, ServiceAssumption DEF ServiceAssumption
  <2> DEFINE lock == [locks[l] EXCEPT !.count = @ + 1]
  <2>2. lock \in ServiceRow /\ lock.holder = locks[l].holder /\ lock.status = "held"
    BY <2>1 DEF CellOK, ServiceRow, Held
  <2>3. \A k \in Locks : locks'[k] = IF k = l THEN lock ELSE locks[k]
    BY <1>2 DEF IInv
  <2> HIDE DEF lock
  <2>4. \A k \in Locks : CellOK(locks'[k], queue[k])
    BY <2>1, <2>2, <2>3, CellFacts DEF CellOK, Held
  <2>5. \A k \in Locks : locks'[k] \in ServiceRow
    BY <2>4 DEF CellOK
  <2>6. IInv'
    BY <1>2, <2>4, <2>5 DEF IInv
  <2> QED
    BY <1>2, <2>2, <2>3, <2>6
<1> QED
  BY <1>1, <1>2 DEF Granted

(* A release counts down, or passes the lock on. *)
LEMMA ReleaseStep ==
  ASSUME IInv, NEW h \in Holders, NEW l \in Locks, Release(h, l)
  PROVE  IInv' /\ ((\E T \in SUBSET Locks : Promise!Pass(T))
                   \/ ([k \in Locks |-> locks'[k].holder] = [k \in Locks |-> locks[k].holder]
                       /\ queue' = queue))
<1>1. CASE UNCHANGED <<locks, queue>>
  BY <1>1 DEF IInv
<1>2. CASE /\ locks[l].holder = h /\ locks[l].count > 1
           /\ locks' = [locks EXCEPT ![l].count = @ - 1] /\ queue' = queue
  <2>1. CellOK(locks[l], queue[l]) /\ Held(l)
    BY <1>2, CellFacts, ServiceAssumption DEF ServiceAssumption
  <2> DEFINE lock == [locks[l] EXCEPT !.count = @ - 1]
  <2>2. lock \in ServiceRow /\ lock.holder = locks[l].holder /\ lock.status = "held"
    BY <1>2, <2>1 DEF CellOK, ServiceRow, Held
  <2>3. \A k \in Locks : locks'[k] = IF k = l THEN lock ELSE locks[k]
    BY <1>2 DEF IInv
  <2> HIDE DEF lock
  <2>4. \A k \in Locks : CellOK(locks'[k], queue[k])
    BY <2>1, <2>2, <2>3, CellFacts DEF CellOK, Held
  <2>5. \A k \in Locks : locks'[k] \in ServiceRow
    BY <2>4 DEF CellOK
  <2>6. IInv'
    BY <1>2, <2>4, <2>5 DEF IInv
  <2> QED
    BY <1>2, <2>2, <2>3, <2>6
<1>3. CASE Lose({l})
  <2>1. {l} \in SUBSET Locks
    OBVIOUS
  <2> QED
    BY <1>3, <2>1, LoseStep
<1> QED
  BY <1>1, <1>2, <1>3 DEF Release

(* Every step of the service keeps the queues sound and the promise. *)
LEMMA ServiceStep ==
  ASSUME IInv, [ServiceNext]_<<locks, queue>>
  PROVE  /\ IInv'
         /\ [Promise!Next]_<<[l \in Locks |-> locks[l].holder], [l \in Locks |-> Waiting(l)]>>
<1> DEFINE Stutter ==
             /\ [k \in Locks |-> locks'[k].holder] = [k \in Locks |-> locks[k].holder]
             /\ queue' = queue
           Good == IInv' /\ (Promise!Next \/ Stutter)
<1>1. ASSUME NEW h \in Holders, NEW l \in Locks, NEW re \in BOOLEAN, Granted(h, l, re) PROVE Good
  BY <1>1, GrantedStep DEF Promise!Next
<1>2. ASSUME NEW h \in Holders, NEW l \in Locks, NEW re \in BOOLEAN, Queued(h, l, re) PROVE Good
  BY <1>2, QueuedStep DEF Promise!Next
<1>3. ASSUME NEW h \in Holders, NEW l \in Locks, Release(h, l) PROVE Good
  BY <1>3, ReleaseStep DEF Promise!Next
<1>4. ASSUME NEW h \in Holders, NEW names \in SUBSET Locks, NEW re \in BOOLEAN, AcquireAll(h, names, re)
      PROVE  Good
  <2>1. IInv' /\ Promise!Take(h, names)
    BY <1>4, Taken DEF AcquireAll
  <2> QED
    BY <2>1 DEF Promise!Next
<1>5. ASSUME NEW S \in SUBSET Locks, Lose(S) PROVE Good
  BY <1>5, LoseStep DEF Promise!Next
<1>6. ASSUME TimeOutWaits PROVE Good
  BY <1>6, TimeOutStep DEF Promise!Next
<1>7. ASSUME UNCHANGED <<locks, queue>> PROVE Good
  BY <1>7 DEF IInv
<1>8. Good
  <2> HIDE DEF Good
  <2> QED
    BY <1>1, <1>2, <1>3, <1>4, <1>5, <1>6, <1>7 DEF ServiceNext
<1> QED
  BY <1>8 DEF Waiting

(* At first all locks are free. *)
LEMMA ServiceInit ==
  ASSUME InitLocks
  PROVE  IInv /\ Promise!Init
<1>1. \A l \in Locks : CellOK(locks[l], queue[l])
  BY FreeCell DEF InitLocks
<1>2. \A l \in Locks : locks[l] \in ServiceRow /\ queue[l] \in Seq(WaitRow)
  BY <1>1 DEF CellOK, QueueOK
<1>3. \A l \in Locks : locks[l].holder = NoHolder /\ Waiting(l) = {}
  BY DEF InitLocks, FreeLock, Waiting
<1>4. locks = [l \in Locks |-> locks[l]] /\ queue = [l \in Locks |-> queue[l]]
  BY DEF InitLocks
<1> QED
  BY <1>1, <1>2, <1>3, <1>4 DEF IInv, Promise!Init

(* Queues hold callers once each, and never the owner; a free lock has none. *)
THEOREM ServiceInvariant == LockServiceSpec => []IInv
BY ServiceInit, ServiceStep, PTL DEF LockServiceSpec

(* Nobody waits twice, for a lock he holds, or for one that is free.         *)
THEOREM SoundQueues == LockServiceSpec => []QueueIsSound
<1>1. IInv => QueueIsSound
  <2> SUFFICES ASSUME IInv, NEW l \in Locks
               PROVE  /\ ~ Held(l) => locks[l] = FreeLock /\ queue[l] = << >>
                      /\ locks[l].holder \notin Waiting(l)
                      /\ \A i, j \in DOMAIN queue[l] : queue[l][i].holder = queue[l][j].holder => i = j
    BY DEF QueueIsSound
  <2> QED
    BY CellFacts, ServiceAssumption DEF CellOK, QueueOK, Held, ServiceAssumption
<1> QED
  BY <1>1, ServiceInvariant, PTL

(* The service keeps the promise: whoever may call it, and whatever the      *)
(* loss of leases does, each step takes idle locks, joins or leaves queues,  *)
(* or passes locks on to those who waited.                                   *)
THEOREM PromiseKept == LockServiceSpec => KeepsPromise
BY ServiceInit, ServiceStep, PTL DEF LockServiceSpec, KeepsPromise, Promise!Spec

-----------------------------------------------------------------------------
(******************************* cascades **********************************)

(* A call of the service for a lock there is not does nothing. *)
LEMMA NoSuchLock ==
  ASSUME IInv, NEW h \in Holders, NEW l, l \notin Locks, NEW re \in BOOLEAN, NEW answer,
         Acquire(h, l, re, answer) \/ Release(h, l)
  PROVE  UNCHANGED <<locks, queue>>
<1>1. locks = [k \in Locks |-> locks[k]] /\ queue = [k \in Locks |-> queue[k]]
  BY DEF IInv
<1>2. CASE Acquire(h, l, re, answer)
  BY <1>1, <1>2 DEF Acquire, Granted, Queued, Refused
<1>3. CASE Release(h, l)
  <2>1. CASE Lose({l})
    BY <1>1, <2>1 DEF Lose
  <2>2. CASE ~ Lose({l})
    BY <1>1, <1>3, <2>2 DEF Release
  <2> QED BY <2>1, <2>2
<1> QED BY <1>2, <1>3

(* Any call of the service by a caller is a step of the service, or none. *)
LEMMA CallIsServiceStep ==
  ASSUME IInv, NEW h \in Holders, NEW l, NEW re \in BOOLEAN, NEW answer,
         Acquire(h, l, re, answer) \/ Release(h, l)
  PROVE  [ServiceNext]_<<locks, queue>>
<1>1. CASE l \in Locks
  BY <1>1 DEF Acquire, Refused, ServiceNext
<1>2. CASE l \notin Locks
  BY <1>2, NoSuchLock
<1> QED BY <1>1, <1>2

(* A cascade is done for a caller, with his choice of reentrancy. *)
Fields == {"op", "holder", "reentrant", "target", "todo", "got", "bare"}
CallerOK(call) ==
  /\ call = [x \in Fields |-> call[x]]
  /\ call.holder \in Holders /\ call.reentrant \in BOOLEAN
CallersOK ==
  /\ calls = [c \in Calls |-> calls[c]]
  /\ \A c \in Calls : calls[c] # None => CallerOK(calls[c])

(* Whatever the cascades, the leases and the graph do, the locks see steps   *)
(* of the service.                                                           *)
LEMMA CascadeIsServiceStep ==
  ASSUME IInv, CallersOK, [Next]_vars
  PROVE  [ServiceNext]_<<locks, queue>>
<1>1. ASSUME NEW c \in Calls, AcquireNext(c) PROVE [ServiceNext]_<<locks, queue>>
  <2>1. PICK answer : Acquire(calls[c].holder, LockOf[Head(calls[c].todo)], calls[c].reentrant, answer)
    BY <1>1 DEF AcquireNext
  <2>2. calls[c].holder \in Holders /\ calls[c].reentrant \in BOOLEAN
    BY <1>1 DEF AcquireNext, CallersOK, CallerOK
  <2> QED BY <2>1, <2>2, CallIsServiceStep
<1>2. ASSUME NEW c \in Calls, RollbackNext(c) \/ ReleaseNext(c) PROVE [ServiceNext]_<<locks, queue>>
  <2>1. \/ UNCHANGED <<locks, queue>>
        \/ \E l : Release(calls[c].holder, l)
    BY <1>2 DEF RollbackNext, ReleaseNext
  <2>2. calls[c].holder \in Holders
    BY <1>2 DEF RollbackNext, ReleaseNext, CallersOK, CallerOK
  <2> QED BY <2>1, <2>2, CallIsServiceStep
<1>3. CASE LocksMove
  <2>1. \A l \in Locks : {l} \in SUBSET Locks
    OBVIOUS
  <2> QED BY <1>3, <2>1 DEF LocksMove, ServiceNext
<1>4. ASSUME NEW c \in Calls,
             \/ \E n \in Nodes, h \in Holders, re \in Modes : CascadeAcquire(c, n, h, re)
             \/ \E n \in Nodes, h \in Holders, force \in BOOLEAN : CascadeRelease(c, n, h, force)
             \/ ConsumeTokens(c) \/ CheckChild(c) \/ Finish(c)
      PROVE  UNCHANGED <<locks, queue>>
  BY <1>4 DEF CascadeAcquire, CascadeRelease, Begin, ConsumeTokens, CheckChild, Finish
<1>5. GraphStep \/ Restart \/ UNCHANGED vars => UNCHANGED <<locks, queue>>
  BY DEF GraphStep, DeclareEdge, RemoveEdge, Restart, vars
<1> QED BY <1>1, <1>2, <1>3, <1>4, <1>5 DEF Next, CascadeStep

(* A cascade that goes on is for the same caller. *)
LEMMA OfTheSameCaller ==
  ASSUME NEW r, CallerOK(r), NEW op, NEW todo, NEW got
  PROVE  /\ CallerOK([r EXCEPT !.op = op])
         /\ CallerOK([r EXCEPT !.todo = todo])
         /\ CallerOK([r EXCEPT !.got = got])
         /\ CallerOK([r EXCEPT !.op = op, !.todo = todo])
         /\ CallerOK([r EXCEPT !.op = op, !.todo = todo, !.got = got])
BY DEF CallerOK, Fields

(* A cascade begins: the lists and the locks wait, and of the other cascades *)
(* none changes but in what is remembered of its beginning.                  *)
LEMMA Begun ==
  ASSUME NEW c \in Calls, NEW call, CallerOK(call), NEW bare, Begin(c, call, bare)
  PROVE  /\ UNCHANGED <<locks, queue, edges>>
         /\ calls' = [d \in Calls |-> calls'[d]]
         /\ calls[c] = None
         /\ calls'[c] = [call EXCEPT !.bare = bare]
         /\ \A d \in Calls \ {c} :
              calls'[d] = IF calls[d] # None /\ calls[d].holder = call.holder
                          THEN [calls[d] EXCEPT !.bare = FALSE] ELSE calls[d]
BY DEF Begin, Others

(* A cascade keeps its caller to the end. *)
LEMMA CallersStay ==
  ASSUME CallersOK, [Next]_vars
  PROVE  CallersOK'
<1>1. ASSUME NEW c \in Calls, NEW call, calls' = [calls EXCEPT ![c] = call],
             call = None \/ CallerOK(call)
      PROVE  CallersOK'
  BY <1>1 DEF CallersOK
<1>2. ASSUME NEW h \in Holders, NEW re \in BOOLEAN, NEW op, NEW n, NEW todo
      PROVE  CallerOK(Call(op, h, re, n, todo))
  BY DEF Call, CallerOK, Fields
<1>a. ASSUME NEW r, CallerOK(r), NEW b PROVE CallerOK([r EXCEPT !.bare = b])
  BY <1>a DEF CallerOK, Fields
<1>b. ASSUME NEW c \in Calls, NEW call, CallerOK(call), NEW bare, Begin(c, call, bare)
      PROVE  CallersOK'
  <2>0. calls' = [d \in Calls |-> calls'[d]] /\ calls'[c] = [call EXCEPT !.bare = bare]
    BY <1>b, Begun
  <2>1. CallerOK([call EXCEPT !.bare = bare])
    BY <1>a, <1>b
  <2>2. ASSUME NEW d \in Calls \ {c}, calls'[d] # None PROVE CallerOK(calls'[d])
    <3>1. calls'[d] = calls[d] \/ (calls[d] # None /\ calls'[d] = [calls[d] EXCEPT !.bare = FALSE])
      BY <1>b, Begun
    <3>2. calls[d] # None => CallerOK(calls[d])
      BY DEF CallersOK
    <3> QED BY <1>a, <2>2, <3>1, <3>2
  <2> QED BY <2>0, <2>1, <2>2 DEF CallersOK
<1>3. ASSUME NEW c \in Calls, NEW n \in Nodes, NEW h \in Holders, NEW re \in Modes,
             CascadeAcquire(c, n, h, re)
      PROVE  CallersOK'
  <2> DEFINE todo == Append(Ancestors(n), n)
             call == Call("acquire", h, re, n, todo)
  <2>1. Begin(c, call, ComesBare(c, call)) /\ re \in BOOLEAN
    BY <1>3, TopologyAssumption DEF CascadeAcquire
  <2> HIDE DEF todo
  <2>2. CallerOK(call)
    BY <1>2, <2>1
  <2> QED BY <1>b, <2>1, <2>2
<1>4. ASSUME NEW c \in Calls, NEW n \in Nodes, NEW h \in Holders, NEW force \in BOOLEAN,
             CascadeRelease(c, n, h, force)
      PROVE  CallersOK'
  <2> DEFINE todo == IF force THEN Append(Reverse(Descendants(n)), n) ELSE Children(n)
             op == IF force THEN "release" ELSE "check"
             call == Call(op, h, FALSE, n, todo)
  <2>1. Begin(c, call, FALSE)
    BY <1>4 DEF CascadeRelease
  <2> HIDE DEF todo, op
  <2>2. CallerOK(call)
    BY <1>2
  <2> QED BY <1>b, <2>1, <2>2
<1>5. ASSUME NEW c \in Calls, CascadeStep(c) PROVE CallersOK'
  <2>1. calls[c] # None
    BY <1>5 DEF CascadeStep, AcquireNext, ConsumeTokens, RollbackNext, CheckChild, ReleaseNext, Finish
  <2>2. CallerOK(calls[c]) /\ DOMAIN calls = Calls
    BY <2>1 DEF CallersOK
  <2>3. ASSUME NEW op, NEW todo, NEW got
        PROVE  /\ CallerOK([calls[c] EXCEPT !.op = op])
               /\ CallerOK([calls[c] EXCEPT !.todo = todo])
               /\ CallerOK([calls[c] EXCEPT !.got = got])
               /\ CallerOK([calls[c] EXCEPT !.op = op, !.todo = todo])
               /\ CallerOK([calls[c] EXCEPT !.op = op, !.todo = todo, !.got = got])
    BY <2>2, OfTheSameCaller
  <2>4. ASSUME NEW call, CallerOK(call) \/ call = None, calls' = [calls EXCEPT ![c] = call]
        PROVE  CallersOK'
    BY <1>1, <2>4
  <2>5. CASE AcquireNext(c)
    <3> DEFINE n == Head(calls[c].todo)
    <3>1. PICK answer : calls' = IF answer \in {"granted", "rejected"}
                       THEN [calls EXCEPT ![c].op = IF n \in Costly THEN "tokens" ELSE @,
                                          ![c].todo = Tail(@),
                                          ![c].got = Append(@, Item(n, answer))]
                       ELSE [calls EXCEPT ![c].op = "rollback"]
      BY <2>5 DEF AcquireNext
    <3> QED BY <2>2, <2>3, <2>4, <3>1
  <2>6. CASE ConsumeTokens(c)
    BY <2>2, <2>3, <2>4, <2>6 DEF ConsumeTokens
  <2>7. CASE RollbackNext(c)
    BY <2>2, <2>3, <2>4, <2>7 DEF RollbackNext
  <2>8. CASE CheckChild(c)
    <3> DEFINE new == IF calls[c].todo = << >> THEN [calls[c] EXCEPT !.op = "release", !.todo = <<calls[c].target>>]
                      ELSE IF locks[LockOf[Head(calls[c].todo)]].holder = calls[c].holder THEN None
                      ELSE [calls[c] EXCEPT !.todo = Tail(@)]
    <3>1. calls' = [calls EXCEPT ![c] = new]
      BY <2>8 DEF CheckChild
    <3>2. CallerOK(new) \/ new = None
      BY <2>3
    <3> HIDE DEF new
    <3> QED BY <2>4, <3>1, <3>2
  <2>9. CASE ReleaseNext(c)
    BY <2>2, <2>3, <2>4, <2>9 DEF ReleaseNext
  <2>10. CASE Finish(c)
    BY <2>4, <2>10 DEF Finish
  <2> QED BY <1>5, <2>5, <2>6, <2>7, <2>8, <2>9, <2>10 DEF CascadeStep
<1>6. CASE Restart
  BY <1>6 DEF Restart, CallersOK
<1>7. CASE GraphStep \/ LocksMove \/ UNCHANGED vars
  BY <1>7 DEF GraphStep, DeclareEdge, RemoveEdge, LocksMove, vars, CallersOK
<1> QED BY <1>3, <1>4, <1>5, <1>6, <1>7 DEF Next

(* Cascades, changes of the graph, leases that run out and restarts leave    *)
(* the queues of the lock manager sound: cascades use the locks only as      *)
(* other callers do.                                                         *)
THEOREM CascadesUseTheService == Spec => LockServiceSpec /\ []IInv
<1>1. Init => InitLocks /\ IInv /\ CallersOK
  BY ServiceInit DEF Init, CallersOK
<1>2. IInv /\ CallersOK /\ [Next]_vars =>
        IInv' /\ CallersOK' /\ [ServiceNext]_<<locks, queue>>
  BY CascadeIsServiceStep, CallersStay, ServiceStep
<1> QED BY <1>1, <1>2, PTL DEF Spec, LockServiceSpec

(* No cascade leaves a queue behind in which somebody waits twice, for what  *)
(* he holds or for what is free.                                             *)
THEOREM QueuesUnderCascades == Spec => []QueueIsSound
BY CascadesUseTheService, SoundQueues, PTL

(* And the locks change hands under cascades as LeaseLock promises. *)
THEOREM PromiseUnderCascades == Spec => KeepsPromise
BY CascadesUseTheService, PromiseKept, PTL

-----------------------------------------------------------------------------
(****************************** the topology *******************************)

EdgesOK == edges \in Seq([from : Nodes, to : Nodes]) /\ TopologyIsAcyclic

(* A declared edge is looked at before, and a removed one leaves fewer. *)
LEMMA EdgesStay ==
  ASSUME EdgesOK, [Next]_vars
  PROVE  EdgesOK'
<1>1. edges \in Seq([from : Nodes, to : Nodes]) /\ Acyclic(Pairs(edges), Nodes)
  BY DEF EdgesOK, TopologyIsAcyclic
<1>2. ASSUME NEW a \in Nodes, NEW b \in Nodes, DeclareEdge(a, b) PROVE EdgesOK'
  <2>1. edges' = Append(edges, Edge(a, b)) /\ Edge(a, b) \in [from : Nodes, to : Nodes]
    BY <1>2 DEF DeclareEdge, Edge
  <2>2. /\ edges' \in Seq([from : Nodes, to : Nodes]) /\ DOMAIN edges' = DOMAIN edges \cup {Len(edges) + 1}
        /\ Len(edges) \in Nat /\ DOMAIN edges = 1 .. Len(edges)
        /\ \A i \in DOMAIN edges : edges'[i] = edges[i]
        /\ edges'[Len(edges) + 1] = Edge(a, b)
    BY <1>1, <2>1, LenProperties
  <2>3. Pairs(edges') = Pairs(edges) \cup {<<a, b>>}
    <3>1. ASSUME NEW i \in DOMAIN edges'
          PROVE  <<edges'[i].from, edges'[i].to>> \in Pairs(edges) \cup {<<a, b>>}
      BY <2>2 DEF Pairs, Edge
    <3>2. <<a, b>> \in Pairs(edges')
      BY <2>2 DEF Pairs, Edge
    <3>3. Pairs(edges) \subseteq Pairs(edges')
      BY <2>2 DEF Pairs
    <3>4. Pairs(edges') \subseteq Pairs(edges) \cup {<<a, b>>}
      BY <3>1 DEF Pairs
    <3> QED BY <3>2, <3>3, <3>4
  <2>4. Acyclic(Pairs(edges) \cup {<<a, b>>}, Nodes)
    BY <1>2 DEF DeclareEdge
  <2> QED BY <2>2, <2>3, <2>4 DEF EdgesOK, TopologyIsAcyclic
<1>3. ASSUME NEW a \in Nodes, NEW b \in Nodes, RemoveEdge(a, b) PROVE EdgesOK'
  <2> DEFINE K == {i \in DOMAIN edges : ~ (edges[i] = Edge(a, b))}
  <2>1. edges' = Keep(edges, K) /\ K \in SUBSET (DOMAIN edges)
    BY <1>3 DEF RemoveEdge, Without
  <2> HIDE DEF K
  <2>2. /\ edges' \in Seq([from : Nodes, to : Nodes])
        /\ \A i \in DOMAIN edges' : \E j \in DOMAIN edges : edges'[i] = edges[j]
    BY <1>1, <2>1, KeepPositions
  <2>3. Pairs(edges') \subseteq Pairs(edges)
    BY <2>2 DEF Pairs
  <2> QED BY <1>1, <2>2, <2>3, FewerEdges DEF EdgesOK, TopologyIsAcyclic
<1>4. ASSUME edges' = edges PROVE EdgesOK'
  BY <1>4 DEF EdgesOK, TopologyIsAcyclic
<1>5. ASSUME NEW c \in Calls, CascadeStep(c) PROVE edges' = edges
  BY <1>5 DEF CascadeStep, AcquireNext, ConsumeTokens, RollbackNext, CheckChild, ReleaseNext, Finish
<1> QED BY <1>2, <1>3, <1>4, <1>5
        DEF Next, GraphStep, CascadeAcquire, CascadeRelease, Begin, LocksMove, Restart, vars

(* There is no edge to begin with.                                           *)
LEMMA NoEdges == edges = << >> => EdgesOK
<1> SUFFICES ASSUME edges = << >> PROVE EdgesOK
  OBVIOUS
<1>1. Pairs(edges) = {}
  BY DEF Pairs
<1>2. Acyclic({}, Nodes)
  BY DEF Acyclic, OnCycle
<1>3. edges \in Seq([from : Nodes, to : Nodes])
  OBVIOUS
<1> QED BY <1>1, <1>2, <1>3 DEF EdgesOK, TopologyIsAcyclic

(* Whatever is declared and removed, by whom and in the middle of which      *)
(* cascades, the topology has no cycle: DeclareEdge refuses an edge that     *)
(* "would create a cycle" (topology/manager.go:152), so the walks end.       *)
THEOREM NoCycles == Spec => []TopologyIsAcyclic
<1>1. Init => EdgesOK
  BY NoEdges DEF Init
<1>2. EdgesOK /\ [Next]_vars => EdgesOK'
  BY EdgesStay
<1>3. EdgesOK => TopologyIsAcyclic
  BY DEF EdgesOK
<1> QED BY <1>1, <1>2, <1>3, PTL DEF Spec

-----------------------------------------------------------------------------
(************************** the walks of cascades **************************)

(* The positions of the edges that lead to a node, and that leave it. *)
Into(n) == {k \in DOMAIN edges : edges[k].to = n}
OutOf(n) == {k \in DOMAIN edges : edges[k].from = n}

Arc(a, b) == <<a, b>> \in Pairs(edges)
Above(a, b) == b \in Reachable(Pairs(edges), Nodes, a)

(* There are finitely many edges, each from a node to a node.                *)
LEMMA EdgesAre ==
  ASSUME edges \in Seq([from : Nodes, to : Nodes])
  PROVE  /\ DOMAIN edges = 1 .. Len(edges) /\ Len(edges) \in Nat
         /\ \A k \in DOMAIN edges : edges[k].from \in Nodes /\ edges[k].to \in Nodes
         /\ \A K \in SUBSET DOMAIN edges : IsFiniteSet(K) /\ Cardinality(K) \in Nat
         /\ \A a, b : Arc(a, b) <=> \E k \in DOMAIN edges : edges[k].from = a /\ edges[k].to = b
         /\ \A a, b : Arc(a, b) => a \in Nodes /\ b \in Nodes
<1>1. DOMAIN edges = 1 .. Len(edges) /\ Len(edges) \in Nat
  BY LenProperties
<1>2. \A k \in DOMAIN edges : edges[k].from \in Nodes /\ edges[k].to \in Nodes
  <2>1. \A k \in DOMAIN edges : edges[k] \in [from : Nodes, to : Nodes]
    BY ElementOfSeq, <1>1
  <2> QED BY <2>1
<1>3. \A K \in SUBSET DOMAIN edges : IsFiniteSet(K) /\ Cardinality(K) \in Nat
  <2>1. IsFiniteSet(DOMAIN edges)
    BY <1>1, FS_Interval
  <2> QED BY <2>1, FS_Subset, FS_CardinalityType
<1>4. \A a, b : Arc(a, b) <=> \E k \in DOMAIN edges : edges[k].from = a /\ edges[k].to = b
  BY DEF Arc, Pairs
<1> QED BY <1>1, <1>2, <1>3, <1>4

(* The lists of parents and of children hold the edges there are.            *)
LEMMA ParentsAre ==
  ASSUME edges \in Seq([from : Nodes, to : Nodes]), NEW n
  PROVE  /\ Parents(n) \in Seq(Nodes) /\ Len(Parents(n)) = Cardinality(Into(n))
         /\ DOMAIN Parents(n) = 1 .. Len(Parents(n))
         /\ \A i \in DOMAIN Parents(n) : Arc(Parents(n)[i], n)
         /\ \A a : Arc(a, n) => \E i \in DOMAIN Parents(n) : Parents(n)[i] = a
<1> DEFINE K == {k \in DOMAIN edges : edges[k].to = n}
           m == Cardinality(K)
<1>1. /\ DOMAIN edges = 1 .. Len(edges) /\ Len(edges) \in Nat
      /\ \A k \in DOMAIN edges : edges[k].from \in Nodes
      /\ \A a, b : Arc(a, b) <=> \E k \in DOMAIN edges : edges[k].from = a /\ edges[k].to = b
  BY EdgesAre
<1>2. K = {k \in DOMAIN edges : ~ (edges[k].to # n)}
  OBVIOUS
<1>3. Parents(n) = [i \in 1 .. m |-> Keep(edges, K)[i].from]
  BY <1>2 DEF Parents, Without
<1>4. /\ m \in Nat
      /\ \A i \in 1 .. m : Nth(K, i) \in K
      /\ \A k \in K : \E i \in 1 .. m : Nth(K, i) = k
  BY <1>1, NthAreAll
<1>5. \A i \in 1 .. m : Keep(edges, K)[i] = edges[Nth(K, i)]
  BY DEF Keep
<1> HIDE DEF m
<1>6. Parents(n) = [i \in 1 .. m |-> edges[Nth(K, i)].from]
  BY <1>3, <1>5
<1>7. Parents(n) \in [1 .. m -> Nodes]
  BY <1>1, <1>4, <1>6
<1>8. Parents(n) \in Seq(Nodes) /\ Len(Parents(n)) = m /\ DOMAIN Parents(n) = 1 .. m
  BY <1>4, <1>7
<1>9. \A i \in 1 .. m : Arc(Parents(n)[i], n)
  BY <1>1, <1>4, <1>6
<1>10. ASSUME NEW a, Arc(a, n) PROVE \E i \in 1 .. m : Parents(n)[i] = a
  <2>1. PICK k \in K : edges[k].from = a
    BY <1>1, <1>10
  <2>2. PICK i \in 1 .. m : Nth(K, i) = k
    BY <1>4
  <2> QED BY <1>6, <2>1, <2>2
<1> QED BY <1>8, <1>9, <1>10 DEF m, Into

LEMMA ChildrenAre ==
  ASSUME edges \in Seq([from : Nodes, to : Nodes]), NEW n
  PROVE  /\ Children(n) \in Seq(Nodes) /\ Len(Children(n)) = Cardinality(OutOf(n))
         /\ DOMAIN Children(n) = 1 .. Len(Children(n))
         /\ \A i \in DOMAIN Children(n) : Arc(n, Children(n)[i])
         /\ \A b : Arc(n, b) => \E i \in DOMAIN Children(n) : Children(n)[i] = b
<1> DEFINE K == {k \in DOMAIN edges : edges[k].from = n}
           m == Cardinality(K)
<1>1. /\ DOMAIN edges = 1 .. Len(edges) /\ Len(edges) \in Nat
      /\ \A k \in DOMAIN edges : edges[k].to \in Nodes
      /\ \A a, b : Arc(a, b) <=> \E k \in DOMAIN edges : edges[k].from = a /\ edges[k].to = b
  BY EdgesAre
<1>2. K = {k \in DOMAIN edges : ~ (edges[k].from # n)}
  OBVIOUS
<1>3. Children(n) = [i \in 1 .. m |-> Keep(edges, K)[i].to]
  BY <1>2 DEF Children, Without
<1>4. /\ m \in Nat
      /\ \A i \in 1 .. m : Nth(K, i) \in K
      /\ \A k \in K : \E i \in 1 .. m : Nth(K, i) = k
  BY <1>1, NthAreAll
<1>5. \A i \in 1 .. m : Keep(edges, K)[i] = edges[Nth(K, i)]
  BY DEF Keep
<1> HIDE DEF m
<1>6. Children(n) = [i \in 1 .. m |-> edges[Nth(K, i)].to]
  BY <1>3, <1>5
<1>7. Children(n) \in [1 .. m -> Nodes]
  BY <1>1, <1>4, <1>6
<1>8. Children(n) \in Seq(Nodes) /\ Len(Children(n)) = m /\ DOMAIN Children(n) = 1 .. m
  BY <1>4, <1>7
<1>9. \A i \in 1 .. m : Arc(n, Children(n)[i])
  BY <1>1, <1>4, <1>6
<1>10. ASSUME NEW b, Arc(n, b) PROVE \E i \in 1 .. m : Children(n)[i] = b
  <2>1. PICK k \in K : edges[k].to = b
    BY <1>1, <1>10
  <2>2. PICK i \in 1 .. m : Nth(K, i) = k
    BY <1>4
  <2> QED BY <1>6, <2>1, <2>2
<1> QED BY <1>8, <1>9, <1>10 DEF m, OutOf

(* What is above a node is above what it leads to, and no edge leads back.   *)
LEMMA AboveIs ==
  ASSUME EdgesOK
  PROVE  /\ \A a \in Nodes : Above(a, a)
         /\ \A a, b, c : Arc(a, b) /\ Above(b, c) => Above(a, c)
         /\ \A a, b, c : Arc(b, c) /\ Above(a, b) => Above(a, c)
         /\ \A a, b : Arc(a, b) => a # b /\ ~ Above(b, a)
         /\ \A a, b : Over(a, b) <=> a # b /\ Above(a, b)
<1>1. edges \in Seq([from : Nodes, to : Nodes]) /\ Acyclic(Pairs(edges), Nodes)
  BY DEF EdgesOK, TopologyIsAcyclic
<1>2. \A a \in Nodes : Above(a, a)
  BY ReachesItself DEF Above
<1>3. ASSUME NEW a, NEW b, NEW c, Arc(a, b), Above(b, c) PROVE Above(a, c)
  <2>1. c \in Nodes
    BY <1>3 DEF Above, Reachable
  <2>2. ASSUME NEW S \in SUBSET Nodes, a \in S, \A e \in Pairs(edges) : e[1] \in S => e[2] \in S
        PROVE  c \in S
    <3>1. <<a, b>> \in Pairs(edges) /\ <<a, b>>[1] \in S
      BY <1>3, <2>2 DEF Arc
    <3>2. b \in S
      BY <2>2, <3>1
    <3> QED BY <1>3, <2>2, <3>2 DEF Above, Reachable
  <2> QED BY <2>1, <2>2 DEF Above, Reachable
<1>4. ASSUME NEW a, NEW b, NEW c, Arc(b, c), Above(a, b) PROVE Above(a, c)
  <2>1. c \in Nodes
    BY <1>1, <1>4, EdgesAre
  <2> QED BY <1>4, <2>1, ReachesFurther DEF Above, Arc
<1>5. ASSUME NEW a, NEW b, Arc(a, b) PROVE a # b /\ ~ Above(b, a)
  <2>1. a \in Nodes /\ b \in Nodes
    BY <1>1, <1>5, EdgesAre
  <2>2. ~ Above(b, a)
    BY <1>1, <1>5, <2>1 DEF Acyclic, OnCycle, Arc, Above
  <2> QED BY <1>2, <2>1, <2>2
<1>6. \A a, b : Over(a, b) <=> a # b /\ Above(a, b)
  BY DEF Over, Above
<1> QED BY <1>2, <1>3, <1>4, <1>5, <1>6

(* What is above something in a set that edges enter only from inside is in  *)
(* the set.                                                                  *)
LEMMA NothingAboveOutside ==
  ASSUME edges \in Seq([from : Nodes, to : Nodes]), NEW A,
         \A a, b : Arc(a, b) /\ b \in A => a \in A,
         NEW a \in Nodes, NEW b \in A, Above(a, b)
  PROVE  a \in A
<1> DEFINE S == Nodes \ A
<1> SUFFICES ASSUME a \notin A PROVE FALSE
  OBVIOUS
<1>1. \A e \in Pairs(edges) : e[1] \in S => e[2] \in S
  <2>1. \A k \in DOMAIN edges : /\ edges[k].from \in Nodes /\ edges[k].to \in Nodes
                                /\ <<edges[k].from, edges[k].to>> \in Pairs(edges)
    BY EdgesAre DEF Pairs
  <2>2. \A k \in DOMAIN edges : edges[k].from \in S => edges[k].to \in S
    BY <2>1 DEF Arc
  <2> QED BY <2>2 DEF Pairs
<1>2. Reachable(Pairs(edges), Nodes, a) \subseteq S
  <2>1. S \in SUBSET Nodes /\ a \in S
    OBVIOUS
  <2> HIDE DEF S
  <2> QED BY <1>1, <2>1, ReachesWithin
<1> QED BY <1>2 DEF Above

(* The first of a list and what follows it.                                  *)
LEMMA HeadAndTail ==
  ASSUME NEW S, NEW s \in Seq(S), s # << >>
  PROVE  /\ Head(s) \in S /\ Head(s) = s[1] /\ Tail(s) \in Seq(S)
         /\ Len(s) \in Nat \ {0} /\ DOMAIN s = 1 .. Len(s)
         /\ Len(Tail(s)) = Len(s) - 1 /\ DOMAIN Tail(s) = 1 .. Len(s) - 1
         /\ \A k \in 1 .. Len(s) - 1 : Tail(s)[k] = s[k + 1]
         /\ \A k \in 2 .. Len(s) : k - 1 \in DOMAIN Tail(s) /\ Tail(s)[k - 1] = s[k]
<1>1. /\ Head(s) \in S /\ Head(s) = s[1] /\ Tail(s) \in Seq(S)
      /\ Len(s) \in Nat \ {0} /\ DOMAIN s = 1 .. Len(s)
      /\ Len(Tail(s)) = Len(s) - 1 /\ DOMAIN Tail(s) = 1 .. Len(s) - 1
      /\ \A k \in 1 .. Len(s) - 1 : Tail(s)[k] = s[k + 1]
  BY LenProperties, EmptySeq, HeadTailProperties
<1>2. \A k \in 2 .. Len(s) : k - 1 \in 1 .. Len(s) - 1 /\ (k - 1) + 1 = k
  BY <1>1
<1> QED BY <1>1, <1>2

(* One list before another.                                                  *)
LEMMA Joint ==
  ASSUME NEW S, NEW s \in Seq(S), NEW t \in Seq(S), NEW r, r = s \o t
  PROVE  /\ r \in Seq(S) /\ Len(r) = Len(s) + Len(t) /\ DOMAIN r = 1 .. Len(s) + Len(t)
         /\ Len(s) \in Nat /\ Len(t) \in Nat
         /\ \A k \in 1 .. Len(s) : k \in DOMAIN r /\ r[k] = s[k]
         /\ \A k \in 1 .. Len(t) : k + Len(s) \in DOMAIN r /\ r[k + Len(s)] = t[k]
         /\ \A k \in DOMAIN r : k \in 1 .. Len(s) \/ k - Len(s) \in 1 .. Len(t)
<1>1. /\ r \in Seq(S) /\ Len(r) = Len(s) + Len(t) /\ DOMAIN r = 1 .. Len(s) + Len(t)
      /\ Len(s) \in Nat /\ Len(t) \in Nat
  BY LenProperties, ConcatProperties
<1>2. /\ \A k \in 1 .. Len(s) : k \in DOMAIN r
      /\ \A k \in 1 .. Len(t) : k + Len(s) \in DOMAIN r /\ k + Len(s) > Len(s)
      /\ \A k \in DOMAIN r : k \in 1 .. Len(s) \/ k - Len(s) \in 1 .. Len(t)
  BY <1>1
<1>3. \A k \in DOMAIN r : r[k] = IF k <= Len(s) THEN s[k] ELSE t[k - Len(s)]
  BY <1>1, ConcatProperties
<1>4. \A k \in 1 .. Len(t) : ~ (k + Len(s) <= Len(s)) /\ (k + Len(s)) - Len(s) = k
  BY <1>1
<1> QED BY <1>1, <1>2, <1>3, <1>4

(* To each parent of a node there are a visit and, after it, an entry.       *)
TaskRow == [node : Nodes, collect : BOOLEAN]
LEMMA OverParentsAre ==
  ASSUME EdgesOK, NEW n
  PROVE  LET o == OverParents(n)
             m == Len(Parents(n))
         IN  /\ o \in Seq(TaskRow) /\ Len(o) = 2 * m /\ DOMAIN o = 1 .. 2 * m
             /\ m = Cardinality(Into(n)) /\ m \in Nat
             /\ \A k \in 1 .. 2 * m : Arc(o[k].node, n)
             /\ \A k \in 1 .. 2 * m :
                  o[k].collect => k - 1 \in 1 .. 2 * m /\ o[k - 1] = Task(o[k].node, FALSE)
             /\ \A a : Arc(a, n) => \E k \in 1 .. 2 * m : o[k] = Task(a, TRUE)
<1> DEFINE o == OverParents(n)
           p == Parents(n)
           m == Len(p)
<1>1. /\ p \in Seq(Nodes) /\ m = Cardinality(Into(n)) /\ DOMAIN p = 1 .. m
      /\ \A i \in DOMAIN p : Arc(p[i], n)
      /\ \A a : Arc(a, n) => \E i \in DOMAIN p : p[i] = a
  BY ParentsAre DEF EdgesOK
<1>2. o = [i \in 1 .. 2 * m |-> Task(p[(i + 1) \div 2], i % 2 = 0)]
  BY DEF OverParents
<1> HIDE DEF o, p
<1>3. m \in Nat /\ 2 * m \in Nat /\ \A i \in 1 .. m : p[i] \in Nodes
  BY <1>1
<1>4. ASSUME NEW k \in 1 .. 2 * m
      PROVE  /\ (k + 1) \div 2 \in 1 .. m
             /\ k % 2 = 0 => k = 2 * ((k + 1) \div 2)
             /\ k % 2 # 0 => k = 2 * ((k + 1) \div 2) - 1
  BY <1>3
<1>5. ASSUME NEW i \in 1 .. m
      PROVE  /\ 2 * i \in 1 .. 2 * m /\ (2 * i + 1) \div 2 = i /\ (2 * i) % 2 = 0
             /\ 2 * i - 1 \in 1 .. 2 * m /\ (2 * i - 1 + 1) \div 2 = i /\ (2 * i - 1) % 2 # 0
  BY <1>3
<1>6. \A k \in 1 .. 2 * m :
        o[k] = Task(p[(k + 1) \div 2], k % 2 = 0) /\ o[k].node = p[(k + 1) \div 2]
          /\ (o[k].collect <=> k % 2 = 0)
  BY <1>2 DEF Task
<1>7. o \in [1 .. 2 * m -> TaskRow]
  <2>1. \A k \in 1 .. 2 * m : o[k] \in TaskRow
    <3> SUFFICES ASSUME NEW k \in 1 .. 2 * m PROVE o[k] \in TaskRow
      OBVIOUS
    <3>1. p[(k + 1) \div 2] \in Nodes
      BY <1>3, <1>4
    <3>2. (k % 2 = 0) \in BOOLEAN
      OBVIOUS
    <3>3. \A x \in Nodes : \A b \in BOOLEAN : Task(x, b) \in TaskRow
      BY DEF Task, TaskRow
    <3> QED BY <1>6, <3>1, <3>2, <3>3
  <2> QED BY <1>2, <2>1
<1>8. o \in Seq(TaskRow) /\ Len(o) = 2 * m /\ DOMAIN o = 1 .. 2 * m
  BY <1>3, <1>7
<1>9. \A k \in 1 .. 2 * m : Arc(o[k].node, n)
  BY <1>1, <1>4, <1>6
<1>10. ASSUME NEW k \in 1 .. 2 * m, o[k].collect
       PROVE  k - 1 \in 1 .. 2 * m /\ o[k - 1] = Task(o[k].node, FALSE)
  <2> DEFINE i == (k + 1) \div 2
  <2>1. i \in 1 .. m /\ k = 2 * i
    BY <1>4, <1>6, <1>10
  <2> HIDE DEF i
  <2>2. k - 1 = 2 * i - 1 /\ 2 * i - 1 \in 1 .. 2 * m
    BY <1>5, <2>1
  <2>3. ((2 * i - 1 + 1) \div 2 = i) /\ ((2 * i - 1) % 2 # 0)
    BY <1>5, <2>1
  <2>4. o[k - 1] = Task(p[i], FALSE)
    BY <1>6, <2>2, <2>3
  <2>5. o[k].node = p[i]
    BY <1>6 DEF i
  <2> QED BY <2>2, <2>4, <2>5
<1>11. ASSUME NEW a, Arc(a, n) PROVE \E k \in 1 .. 2 * m : o[k] = Task(a, TRUE)
  <2>1. PICK i \in 1 .. m : p[i] = a
    BY <1>1, <1>11
  <2>2. 2 * i \in 1 .. 2 * m /\ (2 * i + 1) \div 2 = i /\ (2 * i) % 2 = 0
    BY <1>5
  <2> QED BY <1>6, <2>1, <2>2
<1> QED BY <1>1, <1>3, <1>8, <1>9, <1>10, <1>11 DEF o, p

(* What a climb keeps.  Everything listed is above the start, and so is      *)
(* everything to be done, the start itself never to be listed.               *)
AreAbove(n, list, todo) ==
  /\ \A i \in DOMAIN list : Over(list[i], n)
  /\ \A k \in DOMAIN todo : /\ Above(todo[k].node, n)
                            /\ todo[k].collect => todo[k].node # n

(* Nothing is listed before its parents.                                     *)
ParentsBefore(list) ==
  \A i \in DOMAIN list : \A q : Arc(q, list[i]) => \E j \in 1 .. i - 1 : list[j] = q

(* What is to be listed is visited, or is to be visited first.               *)
VisitedFirst(seen, todo) ==
  \A k \in DOMAIN todo :
    todo[k].collect => \/ todo[k].node \in seen
                       \/ \E j \in 1 .. k - 1 : todo[j] = Task(todo[k].node, FALSE)

(* The parents of what is visited are listed, or are to be listed, and what  *)
(* is to be done before that is above it.                                    *)
ParentsFollow(list, seen, todo) ==
  \A p \in seen : \A q : Arc(q, p) =>
    \/ \E i \in DOMAIN list : list[i] = q
    \/ \E k \in DOMAIN todo : /\ todo[k] = Task(q, TRUE)
                              /\ \A j \in 1 .. k : Over(todo[j].node, p)

ClimbOK(n, s) ==
  /\ s \in Climbs
  /\ n \in s.seen \/ s.todo = <<Task(n, FALSE)>>
  /\ AreAbove(n, s.list, s.todo)
  /\ ParentsBefore(s.list)
  /\ VisitedFirst(s.seen, s.todo)
  /\ ParentsFollow(s.list, s.seen, s.todo)

(* A node that is listed has its parents listed: none of them can still be   *)
(* to do, for it would be above itself.                                      *)
LEMMA ClimbCollects ==
  ASSUME EdgesOK, NEW n \in Nodes, NEW s, ClimbOK(n, s), s.todo # << >>, Head(s.todo).collect
  PROVE  ClimbOK(n, Climb(s))
<1> DEFINE x == Head(s.todo).node
           r == Tail(s.todo)
           l == Append(s.list, x)
           t == Climb(s)
           N == Len(s.todo)
<1>1. s.list \in Seq(Nodes) /\ s.seen \in SUBSET Nodes /\ s.todo \in Seq(TaskRow)
  BY DEF ClimbOK, Climbs, TaskRow
<1>2. /\ s.todo[1] \in TaskRow /\ Head(s.todo) = s.todo[1] /\ r \in Seq(TaskRow)
      /\ N \in Nat \ {0} /\ DOMAIN s.todo = 1 .. N /\ DOMAIN r = 1 .. N - 1
      /\ \A k \in 1 .. N - 1 : r[k] = s.todo[k + 1]
      /\ \A k \in 2 .. N : k - 1 \in DOMAIN r /\ r[k - 1] = s.todo[k]
  BY <1>1, HeadAndTail
<1>3. x \in Nodes /\ s.todo[1].collect /\ s.todo[1].node = x
  BY <1>2 DEF TaskRow
<1>4. t = [s EXCEPT !.todo = r, !.list = l]
  BY DEF Climb
<1> HIDE DEF x, r, l, t, N
<1>5. /\ l \in Seq(Nodes) /\ Len(s.list) \in Nat /\ DOMAIN s.list = 1 .. Len(s.list)
      /\ DOMAIN l = 1 .. Len(s.list) + 1
      /\ \A i \in 1 .. Len(s.list) : l[i] = s.list[i]
      /\ l[Len(s.list) + 1] = x
  BY <1>1, <1>3, LenProperties, AppendProperties DEF l
<1>6. t \in Climbs /\ t.list = l /\ t.seen = s.seen /\ t.todo = r
  <2>1. s = [list |-> s.list, seen |-> s.seen, todo |-> s.todo]
    BY DEF ClimbOK, Climbs
  <2>2. t = [list |-> l, seen |-> s.seen, todo |-> r]
    BY <1>4, <2>1
  <2> QED BY <1>1, <1>2, <1>5, <2>2 DEF Climbs, TaskRow
<1>7. Above(x, n) /\ x # n /\ Over(x, n) /\ x \in s.seen
  <2>1. 1 \in DOMAIN s.todo /\ 1 .. 1 - 1 = {}
    BY <1>2
  <2>2. Above(x, n) /\ x # n
    <3>1. \A k \in DOMAIN s.todo : /\ Above(s.todo[k].node, n)
                                   /\ s.todo[k].collect => s.todo[k].node # n
      BY DEF ClimbOK, AreAbove
    <3> QED BY <1>3, <2>1, <3>1
  <2>3. x \in s.seen
    <3>1. \/ x \in s.seen
          \/ \E j \in 1 .. 1 - 1 : s.todo[j] = Task(x, FALSE)
      BY <1>3, <2>1 DEF ClimbOK, VisitedFirst
    <3> QED BY <2>1, <3>1
  <2> QED BY <2>2, <2>3, AboveIs
<1>8. n \in s.seen
  <2>1. s.todo = <<Task(n, FALSE)>> => ~ s.todo[1].collect
    BY DEF Task
  <2> QED BY <1>3, <2>1 DEF ClimbOK
<1>9. AreAbove(n, l, r)
  <2>1. \A i \in DOMAIN l : Over(l[i], n)
    <3>1. \A i \in DOMAIN l : i \in 1 .. Len(s.list) \/ i = Len(s.list) + 1
      BY <1>5
    <3>2. \A i \in DOMAIN s.list : Over(s.list[i], n)
      BY DEF ClimbOK, AreAbove
    <3> QED BY <1>5, <1>7, <3>1, <3>2
  <2>2. \A k \in DOMAIN r : k + 1 \in DOMAIN s.todo /\ r[k] = s.todo[k + 1]
    BY <1>2
  <2> QED BY <2>1, <2>2 DEF ClimbOK, AreAbove
<1>10. ASSUME NEW q, Arc(q, x) PROVE \E i \in DOMAIN s.list : s.list[i] = q
  <2> SUFFICES ASSUME NEW k \in DOMAIN s.todo, \A j \in 1 .. k : Over(s.todo[j].node, x)
               PROVE  FALSE
    BY <1>7, <1>10 DEF ClimbOK, ParentsFollow
  <2>1. 1 \in 1 .. k
    BY <1>2
  <2>2. Over(x, x)
    BY <1>3, <2>1
  <2> QED BY <2>2, AboveIs
<1>11. ParentsBefore(l)
  <2> SUFFICES ASSUME NEW i \in DOMAIN l, NEW q, Arc(q, l[i])
               PROVE  \E j \in 1 .. i - 1 : l[j] = q
    BY DEF ParentsBefore
  <2>1. CASE i \in 1 .. Len(s.list)
    <3>1. PICK j \in 1 .. i - 1 : s.list[j] = q
      BY <1>5, <2>1 DEF ClimbOK, ParentsBefore
    <3>2. j \in 1 .. Len(s.list)
      BY <1>5, <2>1
    <3> QED BY <1>5, <3>1, <3>2
  <2>2. CASE i = Len(s.list) + 1
    <3>1. PICK j \in DOMAIN s.list : s.list[j] = q
      BY <1>5, <1>10, <2>2
    <3>2. j \in 1 .. i - 1
      BY <1>5, <2>2
    <3> QED BY <1>5, <3>1, <3>2
  <2> QED BY <1>5, <2>1, <2>2
<1>12. VisitedFirst(s.seen, r)
  <2> SUFFICES ASSUME NEW k \in DOMAIN r, r[k].collect, r[k].node \notin s.seen
               PROVE  \E j \in 1 .. k - 1 : r[j] = Task(r[k].node, FALSE)
    BY DEF VisitedFirst
  <2>0. k \in 1 .. N - 1 /\ k + 1 \in 1 .. N
    BY <1>2
  <2>1. k + 1 \in DOMAIN s.todo /\ r[k] = s.todo[k + 1]
    BY <1>2, <2>0
  <2>2. PICK j \in 1 .. (k + 1) - 1 : s.todo[j] = Task(r[k].node, FALSE)
    BY <2>1 DEF ClimbOK, VisitedFirst
  <2>3. j # 1
    BY <1>3, <2>2 DEF Task
  <2>4. j - 1 \in 1 .. k - 1 /\ r[j - 1] = s.todo[j]
    BY <1>2, <2>1, <2>3
  <2> QED BY <2>2, <2>4
<1>13. ParentsFollow(l, s.seen, r)
  <2> SUFFICES ASSUME NEW p \in s.seen, NEW q, Arc(q, p), ~ \E i \in DOMAIN l : l[i] = q
               PROVE  \E k \in DOMAIN r : /\ r[k] = Task(q, TRUE)
                                          /\ \A j \in 1 .. k : Over(r[j].node, p)
    BY DEF ParentsFollow
  <2>1. q # x /\ ~ \E i \in DOMAIN s.list : s.list[i] = q
    <3>1. Len(s.list) + 1 \in DOMAIN l /\ \A i \in DOMAIN s.list : i \in DOMAIN l
      BY <1>5
    <3> QED BY <1>5, <3>1
  <2>2. PICK k \in DOMAIN s.todo : /\ s.todo[k] = Task(q, TRUE)
                                   /\ \A j \in 1 .. k : Over(s.todo[j].node, p)
    BY <2>1 DEF ClimbOK, ParentsFollow
  <2>3. k # 1
    BY <1>3, <2>1, <2>2 DEF Task
  <2>4. k - 1 \in DOMAIN r /\ r[k - 1] = s.todo[k]
    BY <1>2, <2>3
  <2>5. \A j \in 1 .. k - 1 : j + 1 \in 1 .. k /\ r[j] = s.todo[j + 1]
    BY <1>2
  <2> QED BY <2>2, <2>4, <2>5
<1> QED BY <1>6, <1>8, <1>9, <1>11, <1>12, <1>13 DEF ClimbOK, t

(* A node that was visited is left.                                          *)
LEMMA ClimbPasses ==
  ASSUME EdgesOK, NEW n \in Nodes, NEW s, ClimbOK(n, s), s.todo # << >>,
         ~ Head(s.todo).collect, Head(s.todo).node \in s.seen
  PROVE  ClimbOK(n, Climb(s))
<1> DEFINE x == Head(s.todo).node
           r == Tail(s.todo)
           t == Climb(s)
           N == Len(s.todo)
<1>1. s.list \in Seq(Nodes) /\ s.seen \in SUBSET Nodes /\ s.todo \in Seq(TaskRow)
  BY DEF ClimbOK, Climbs, TaskRow
<1>2. /\ s.todo[1] \in TaskRow /\ Head(s.todo) = s.todo[1] /\ r \in Seq(TaskRow)
      /\ N \in Nat \ {0} /\ DOMAIN s.todo = 1 .. N /\ DOMAIN r = 1 .. N - 1
      /\ \A k \in 1 .. N - 1 : r[k] = s.todo[k + 1]
      /\ \A k \in 2 .. N : k - 1 \in DOMAIN r /\ r[k - 1] = s.todo[k]
  BY <1>1, HeadAndTail
<1>3. x \in s.seen /\ ~ s.todo[1].collect /\ s.todo[1].node = x
  BY <1>2
<1>4. t = [s EXCEPT !.todo = r]
  BY DEF Climb
<1> HIDE DEF x, r, t, N
<1>6. t \in Climbs /\ t.list = s.list /\ t.seen = s.seen /\ t.todo = r
  <2>1. s = [list |-> s.list, seen |-> s.seen, todo |-> s.todo]
    BY DEF ClimbOK, Climbs
  <2>2. t = [list |-> s.list, seen |-> s.seen, todo |-> r]
    BY <1>4, <2>1
  <2> QED BY <1>1, <1>2, <2>2 DEF Climbs, TaskRow
<1>8. n \in s.seen
  <2>1. s.todo = <<Task(n, FALSE)>> => s.todo[1].node = n
    BY DEF Task
  <2> QED BY <1>3, <2>1 DEF ClimbOK
<1>9. AreAbove(n, s.list, r)
  <2>1. \A k \in 1 .. N - 1 : k + 1 \in 1 .. N
    BY <1>2
  <2>2. \A k \in DOMAIN r : k + 1 \in DOMAIN s.todo /\ r[k] = s.todo[k + 1]
    BY <1>2, <2>1
  <2> QED BY <2>2 DEF ClimbOK, AreAbove
<1>12. VisitedFirst(s.seen, r)
  <2> SUFFICES ASSUME NEW k \in DOMAIN r, r[k].collect, r[k].node \notin s.seen
               PROVE  \E j \in 1 .. k - 1 : r[j] = Task(r[k].node, FALSE)
    BY DEF VisitedFirst
  <2>0. k \in 1 .. N - 1 /\ k + 1 \in 1 .. N
    BY <1>2
  <2>1. k + 1 \in DOMAIN s.todo /\ r[k] = s.todo[k + 1]
    BY <1>2, <2>0
  <2>2. PICK j \in 1 .. (k + 1) - 1 : s.todo[j] = Task(r[k].node, FALSE)
    BY <2>1 DEF ClimbOK, VisitedFirst
  <2>3. j # 1
    BY <1>3, <2>2 DEF Task
  <2>4. j - 1 \in 1 .. k - 1 /\ r[j - 1] = s.todo[j]
    BY <1>2, <2>1, <2>3
  <2> QED BY <2>2, <2>4
<1>13. ParentsFollow(s.list, s.seen, r)
  <2> SUFFICES ASSUME NEW p \in s.seen, NEW q, Arc(q, p),
                      ~ \E i \in DOMAIN s.list : s.list[i] = q
               PROVE  \E k \in DOMAIN r : /\ r[k] = Task(q, TRUE)
                                          /\ \A j \in 1 .. k : Over(r[j].node, p)
    BY DEF ParentsFollow
  <2>2. PICK k \in DOMAIN s.todo : /\ s.todo[k] = Task(q, TRUE)
                                   /\ \A j \in 1 .. k : Over(s.todo[j].node, p)
    BY DEF ClimbOK, ParentsFollow
  <2>3. k # 1
    BY <1>3, <2>2 DEF Task
  <2>4. k - 1 \in DOMAIN r /\ r[k - 1] = s.todo[k]
    BY <1>2, <2>3
  <2>5. \A j \in 1 .. k - 1 : j + 1 \in 1 .. k /\ r[j] = s.todo[j + 1]
    BY <1>2
  <2> QED BY <2>2, <2>4, <2>5
<1> QED BY <1>6, <1>8, <1>9, <1>12, <1>13 DEF ClimbOK, t

(* A node that is visited for the first time has its parents visited and     *)
(* listed before what was to be done before.                                 *)
LEMMA ClimbOpens ==
  ASSUME EdgesOK, NEW n \in Nodes, NEW s, ClimbOK(n, s), s.todo # << >>,
         ~ Head(s.todo).collect, Head(s.todo).node \notin s.seen
  PROVE  ClimbOK(n, Climb(s))
<1> DEFINE x == Head(s.todo).node
           r == Tail(s.todo)
           o == OverParents(x)
           w == o \o r
           t == Climb(s)
           N == Len(s.todo)
           M == Len(o)
           now == s.seen \cup {x}
<1>1. s.list \in Seq(Nodes) /\ s.seen \in SUBSET Nodes /\ s.todo \in Seq(TaskRow)
  BY DEF ClimbOK, Climbs, TaskRow
<1>2. /\ s.todo[1] \in TaskRow /\ Head(s.todo) = s.todo[1] /\ r \in Seq(TaskRow)
      /\ N \in Nat \ {0} /\ DOMAIN s.todo = 1 .. N /\ DOMAIN r = 1 .. N - 1 /\ Len(r) = N - 1
      /\ \A k \in 1 .. N - 1 : r[k] = s.todo[k + 1]
      /\ \A k \in 2 .. N : k - 1 \in DOMAIN r /\ r[k - 1] = s.todo[k]
  BY <1>1, HeadAndTail
<1>3. x \in Nodes /\ ~ s.todo[1].collect /\ s.todo[1].node = x /\ x \notin s.seen
  BY <1>2 DEF TaskRow
<1>4. t = [s EXCEPT !.todo = w, !.seen = now]
  BY DEF Climb
<1>5. /\ o \in Seq(TaskRow) /\ DOMAIN o = 1 .. M /\ M \in Nat
      /\ \A k \in 1 .. M : Arc(o[k].node, x)
      /\ \A k \in 1 .. M : o[k].collect => k - 1 \in 1 .. M /\ o[k - 1] = Task(o[k].node, FALSE)
      /\ \A a : Arc(a, x) => \E k \in 1 .. M : o[k] = Task(a, TRUE)
  <2> DEFINE m == Len(Parents(x))
  <2>1. /\ o \in Seq(TaskRow) /\ M = 2 * m /\ DOMAIN o = 1 .. 2 * m /\ m \in Nat
        /\ \A k \in 1 .. 2 * m : Arc(o[k].node, x)
        /\ \A k \in 1 .. 2 * m :
             o[k].collect => k - 1 \in 1 .. 2 * m /\ o[k - 1] = Task(o[k].node, FALSE)
        /\ \A a : Arc(a, x) => \E k \in 1 .. 2 * m : o[k] = Task(a, TRUE)
    BY OverParentsAre
  <2> HIDE DEF m, o, x, M
  <2>2. 2 * m \in Nat
    BY <2>1
  <2> QED BY <2>1, <2>2
<1>0. w = o \o r /\ M = Len(o)
  OBVIOUS
<1> HIDE DEF x, r, o, t, N, now, w, M
<1>6. /\ w \in Seq(TaskRow) /\ DOMAIN w = 1 .. M + (N - 1)
      /\ \A k \in 1 .. M : k \in DOMAIN w /\ w[k] = o[k]
      /\ \A k \in 1 .. N - 1 : k + M \in DOMAIN w /\ w[k + M] = r[k]
      /\ \A k \in DOMAIN w : k \in 1 .. M \/ k - M \in 1 .. N - 1
  <2>1. /\ w \in Seq(TaskRow) /\ DOMAIN w = 1 .. Len(o) + Len(r)
        /\ \A k \in 1 .. Len(o) : k \in DOMAIN w /\ w[k] = o[k]
        /\ \A k \in 1 .. Len(r) : k + Len(o) \in DOMAIN w /\ w[k + Len(o)] = r[k]
        /\ \A k \in DOMAIN w : k \in 1 .. Len(o) \/ k - Len(o) \in 1 .. Len(r)
    <3>1. r \in Seq(TaskRow) /\ o \in Seq(TaskRow) /\ w = o \o r
      BY <1>0, <1>2, <1>5
    <3> QED BY <3>1, Joint
  <2> QED BY <1>0, <1>2, <2>1
<1>7. \A k \in 2 .. N : (k - 1) + M \in DOMAIN w /\ w[(k - 1) + M] = s.todo[k]
  <2>1. \A k \in 2 .. N : k - 1 \in 1 .. N - 1
    BY <1>2
  <2> QED BY <1>2, <1>6, <2>1
<1>8. \A k \in DOMAIN w : \/ k \in 1 .. M /\ w[k] = o[k]
                          \/ (k - M) + 1 \in 2 .. N /\ w[k] = s.todo[(k - M) + 1]
  <2> SUFFICES ASSUME NEW k \in DOMAIN w, k \notin 1 .. M
               PROVE  (k - M) + 1 \in 2 .. N /\ w[k] = s.todo[(k - M) + 1]
    BY <1>6
  <2>1. k - M \in 1 .. N - 1 /\ k = (k - M) + M
    BY <1>5, <1>6
  <2>2. w[k] = r[k - M]
    BY <1>6, <2>1
  <2> QED BY <1>2, <2>1, <2>2
<1>9. t \in Climbs /\ t.list = s.list /\ t.seen = now /\ t.todo = w
  <2>1. s = [list |-> s.list, seen |-> s.seen, todo |-> s.todo]
    BY DEF ClimbOK, Climbs
  <2>2. t = [list |-> s.list, seen |-> now, todo |-> w]
    BY <1>4, <2>1
  <2>3. now \in SUBSET Nodes
    BY <1>1, <1>3 DEF now
  <2> QED BY <1>1, <1>6, <2>2, <2>3 DEF Climbs, TaskRow
<1>10. n \in now
  <2>1. s.todo = <<Task(n, FALSE)>> => s.todo[1].node = n
    BY DEF Task
  <2> QED BY <1>3, <2>1 DEF ClimbOK, now
<1>11. \A k \in DOMAIN s.todo : /\ Above(s.todo[k].node, n)
                                /\ s.todo[k].collect => s.todo[k].node # n
  BY DEF ClimbOK, AreAbove
<1>12. Above(x, n)
  <2>1. 1 \in DOMAIN s.todo
    BY <1>2
  <2> QED BY <1>3, <1>11, <2>1
<1>13. AreAbove(n, s.list, w)
  <2>1. \A a : Arc(a, x) => Above(a, n) /\ a # n
    BY <1>12, AboveIs
  <2>2. \A k \in 2 .. N : k \in DOMAIN s.todo
    BY <1>2
  <2>3. \A k \in DOMAIN w : Above(w[k].node, n) /\ (w[k].collect => w[k].node # n)
    BY <1>5, <1>8, <1>11, <2>1, <2>2
  <2> QED BY <2>3 DEF ClimbOK, AreAbove
<1>14. VisitedFirst(now, w)
  <2> SUFFICES ASSUME NEW k \in DOMAIN w, w[k].collect, w[k].node \notin now
               PROVE  \E j \in 1 .. k - 1 : w[j] = Task(w[k].node, FALSE)
    BY DEF VisitedFirst
  <2>1. CASE k \in 1 .. M /\ w[k] = o[k]
    <3>1. k - 1 \in 1 .. M /\ o[k - 1] = Task(w[k].node, FALSE)
      BY <1>5, <2>1
    <3>2. k - 1 \in 1 .. k - 1
      BY <1>5, <3>1, <2>1
    <3>3. w[k - 1] = o[k - 1]
      BY <1>6, <3>1
    <3> QED BY <3>1, <3>2, <3>3
  <2>2. CASE (k - M) + 1 \in 2 .. N /\ w[k] = s.todo[(k - M) + 1]
    <3> DEFINE i == (k - M) + 1
    <3>1. i \in 2 .. N /\ w[k] = s.todo[i] /\ k = (i - 1) + M /\ k \in Nat
      BY <1>2, <1>5, <1>6, <2>2
    <3> HIDE DEF i
    <3>2. i \in DOMAIN s.todo /\ w[k].node \notin s.seen
      BY <1>2, <3>1 DEF now
    <3>3. PICK j \in 1 .. i - 1 : s.todo[j] = Task(w[k].node, FALSE)
      BY <3>1, <3>2 DEF ClimbOK, VisitedFirst
    <3>4. j # 1
      <4>1. Task(w[k].node, FALSE).node = w[k].node
        BY DEF Task
      <4> QED BY <1>3, <3>3, <4>1 DEF now
    <3>5. j \in 2 .. N /\ (j - 1) + M \in 1 .. k - 1
      BY <1>2, <1>5, <3>1, <3>4
    <3> QED BY <1>7, <3>3, <3>5
  <2> QED BY <1>8, <2>1, <2>2
<1>15. ParentsFollow(s.list, now, w)
  <2> SUFFICES ASSUME NEW p \in now, NEW q, Arc(q, p), ~ \E i \in DOMAIN s.list : s.list[i] = q
               PROVE  \E k \in DOMAIN w : /\ w[k] = Task(q, TRUE)
                                          /\ \A j \in 1 .. k : Over(w[j].node, p)
    BY DEF ParentsFollow
  <2>1. CASE p \in s.seen
    <3>1. PICK i \in DOMAIN s.todo : /\ s.todo[i] = Task(q, TRUE)
                                     /\ \A j \in 1 .. i : Over(s.todo[j].node, p)
      BY <2>1 DEF ClimbOK, ParentsFollow
    <3>2. i # 1
      BY <1>3, <3>1 DEF Task
    <3> DEFINE k == (i - 1) + M
    <3>3. i \in 2 .. N /\ k \in DOMAIN w /\ w[k] = s.todo[i]
      BY <1>2, <1>7, <3>2
    <3>4. Over(x, p)
      <4>1. 1 \in 1 .. i
        BY <1>2
      <4> QED BY <1>3, <3>1, <4>1
    <3>5. \A a : Arc(a, x) => Over(a, p)
      BY <3>4, AboveIs
    <3>6. ASSUME NEW j \in 1 .. k PROVE Over(w[j].node, p)
      <4>1. j \in DOMAIN w
        BY <1>2, <1>5, <1>6, <3>3
      <4>2. CASE j \in 1 .. M /\ w[j] = o[j]
        BY <1>5, <3>5, <4>2
      <4>3. CASE (j - M) + 1 \in 2 .. N /\ w[j] = s.todo[(j - M) + 1]
        <5>1. (j - M) + 1 \in 1 .. i
          BY <1>2, <1>5, <3>3, <4>3
        <5> QED BY <3>1, <4>3, <5>1
      <4> QED BY <1>8, <4>1, <4>2, <4>3
    <3> HIDE DEF k
    <3> QED BY <3>1, <3>3, <3>6
  <2>2. CASE p = x
    <3>1. PICK k \in 1 .. M : o[k] = Task(q, TRUE)
      BY <1>5, <2>2
    <3>2. k \in DOMAIN w /\ w[k] = Task(q, TRUE)
      BY <1>6, <3>1
    <3>3. \A a : Arc(a, x) => Over(a, x)
      <4>1. Above(x, x)
        BY <1>3, AboveIs
      <4> QED BY <4>1, AboveIs
    <3>4. \A j \in 1 .. k : j \in 1 .. M
      BY <1>5
    <3>5. \A j \in 1 .. k : Over(w[j].node, p)
      BY <1>5, <1>6, <2>2, <3>3, <3>4
    <3> QED BY <3>2, <3>5
  <2> QED BY <2>1, <2>2 DEF now
<1> QED BY <1>9, <1>10, <1>13, <1>14, <1>15 DEF ClimbOK, t

(* Every step of a climb keeps it.                                           *)
LEMMA ClimbKeeps ==
  ASSUME EdgesOK, NEW n \in Nodes, NEW s, ClimbOK(n, s), s.todo # << >>
  PROVE  ClimbOK(n, Climb(s))
BY ClimbCollects, ClimbPasses, ClimbOpens

(* What is left of a climb: the list of what is to be done, and two entries  *)
(* for each edge whose lower end was not visited.                            *)
Unclimbed(seen) == {k \in DOMAIN edges : edges[k].to \notin seen}
ToClimb(s) == Len(s.todo) + 2 * Cardinality(Unclimbed(s.seen))

(* Every step of a climb leaves less.                                        *)
LEMMA ClimbEnds ==
  ASSUME EdgesOK, NEW s \in Climbs
  PROVE  /\ ToClimb(s) \in Nat
         /\ s.todo # << >> => Climb(s) \in Climbs /\ ToClimb(Climb(s)) < ToClimb(s)
<1>1. s.list \in Seq(Nodes) /\ s.seen \in SUBSET Nodes /\ s.todo \in Seq(TaskRow)
  BY DEF Climbs, TaskRow
<1>2. \A K \in SUBSET DOMAIN edges : IsFiniteSet(K) /\ Cardinality(K) \in Nat
  BY EdgesAre DEF EdgesOK
<1>3. \A seen : Unclimbed(seen) \in SUBSET DOMAIN edges
  BY DEF Unclimbed
<1>4. \A seen : Cardinality(Unclimbed(seen)) \in Nat
  BY <1>2, <1>3
<1>5. ToClimb(s) \in Nat
  BY <1>1, <1>4, LenProperties DEF ToClimb
<1>6. ASSUME s.todo # << >>
      PROVE  Climb(s) \in Climbs /\ ToClimb(Climb(s)) < ToClimb(s)
  <2> DEFINE x == Head(s.todo).node
             r == Tail(s.todo)
             t == Climb(s)
             l == Append(s.list, x)
             o == OverParents(x)
             now == s.seen \cup {x}
  <2>1. /\ Head(s.todo) \in TaskRow /\ r \in Seq(TaskRow) /\ Len(s.todo) \in Nat \ {0}
        /\ Len(r) = Len(s.todo) - 1
    BY <1>1, <1>6, HeadAndTail
  <2>2. x \in Nodes
    BY <2>1 DEF TaskRow
  <2>3. t = IF Head(s.todo).collect THEN [s EXCEPT !.todo = r, !.list = l]
            ELSE IF x \in s.seen THEN [s EXCEPT !.todo = r]
            ELSE [s EXCEPT !.todo = o \o r, !.seen = now]
    BY DEF Climb
  <2>4. s = [list |-> s.list, seen |-> s.seen, todo |-> s.todo]
    BY DEF Climbs
  <2>0. l = Append(s.list, x) /\ now = s.seen \cup {x}
    OBVIOUS
  <2> HIDE DEF x, r, t, l, o, now
  <2>5. CASE Head(s.todo).collect \/ x \in s.seen
    <3>1. t = [list |-> s.list, seen |-> s.seen, todo |-> r]
            \/ t = [list |-> l, seen |-> s.seen, todo |-> r]
      BY <2>3, <2>4, <2>5
    <3>2. l \in Seq(Nodes)
      BY <1>1, <2>0, <2>2, AppendProperties
    <3>3. t \in Climbs /\ t.seen = s.seen /\ t.todo = r
      BY <1>1, <2>1, <3>1, <3>2 DEF Climbs, TaskRow
    <3> QED BY <1>4, <2>1, <3>3 DEF ToClimb, t
  <2>6. CASE ~ Head(s.todo).collect /\ x \notin s.seen
    <3>1. t = [list |-> s.list, seen |-> now, todo |-> o \o r]
      BY <2>3, <2>4, <2>6
    <3>2. /\ o \in Seq(TaskRow) /\ Len(o) = 2 * Cardinality(Into(x))
          /\ Cardinality(Into(x)) \in Nat
      BY OverParentsAre DEF o
    <3>3. o \o r \in Seq(TaskRow) /\ Len(o \o r) = Len(o) + Len(r)
      BY <2>1, <3>2, ConcatProperties
    <3>4. t \in Climbs /\ t.seen = now /\ t.todo = o \o r
      <4>1. now \in SUBSET Nodes
        BY <1>1, <2>0, <2>2
      <4> QED BY <1>1, <3>1, <3>3, <4>1 DEF Climbs, TaskRow
    <3>5. /\ Into(x) \subseteq Unclimbed(s.seen)
          /\ Unclimbed(now) = Unclimbed(s.seen) \ Into(x)
      BY <2>0, <2>6 DEF Into, Unclimbed
    <3>6. Cardinality(Unclimbed(now)) = Cardinality(Unclimbed(s.seen)) - Cardinality(Into(x))
      <4>1. IsFiniteSet(Unclimbed(s.seen)) /\ Unclimbed(s.seen) \cap Into(x) = Into(x)
        BY <1>2, <1>3, <3>5
      <4> QED BY <3>5, <4>1, FS_Difference
    <3>7. ToClimb(t) = Len(o) + Len(r) + 2 * Cardinality(Unclimbed(now))
      BY <3>3, <3>4 DEF ToClimb
    <3>8. Cardinality(Unclimbed(now)) \in Nat /\ Cardinality(Unclimbed(s.seen)) \in Nat
      BY <1>4
    <3> QED BY <2>1, <3>2, <3>4, <3>6, <3>7, <3>8 DEF ToClimb, t
  <2> QED BY <2>5, <2>6
<1> QED BY <1>5, <1>6

(* What every step of a climb keeps holds when it ends.                      *)
LEMMA ClimbsTo ==
  ASSUME EdgesOK, NEW n \in Nodes
  PROVE  \E s : ClimbOK(n, s) /\ s.todo = << >> /\ Ancestors(n) = s.list
<1> DEFINE m == [s \in Climbs |-> ToClimb(s)]
           done == {s \in Climbs : s.todo = << >>}
           next == [s \in Climbs |-> Climb(s)]
           res == [s \in done |-> s.list]
           Is(f) == f = [s \in Climbs |-> IF s.todo = << >> THEN s.list ELSE f[Climb(s)]]
           Walk == CHOOSE f : Is(f)
           begin == [list |-> << >>, seen |-> {}, todo |-> <<Task(n, FALSE)>>]
           I == {s \in Climbs : ClimbOK(n, s)}
<1>1. Ancestors(n) = Walk[begin]
  BY DEF Ancestors
<1>2. m \in [Climbs -> Nat] /\ \A s \in Climbs : m[s] = ToClimb(s)
  BY ClimbEnds
<1>3. done \in SUBSET Climbs /\ \A s \in Climbs : s \in done <=> s.todo = << >>
  OBVIOUS
<1>4. \A s \in Climbs \ done : next[s] = Climb(s) /\ next[s] \in Climbs /\ ToClimb(next[s]) < ToClimb(s)
  BY ClimbEnds
<1>5. res \in [done -> Seq(Nodes)] /\ \A s \in done : res[s] = s.list
  BY DEF Climbs
<1>6. begin \in I
  <2> DEFINE first == Task(n, FALSE)
             todo == <<first>>
  <2>1. first \in TaskRow /\ first.node = n /\ ~ first.collect
    BY DEF Task, TaskRow
  <2>0. begin = [list |-> << >>, seen |-> {}, todo |-> todo]
    OBVIOUS
  <2> HIDE DEF first, begin
  <2>2. todo \in Seq(TaskRow) /\ DOMAIN todo = {1} /\ todo[1] = first
    BY <2>1
  <2> HIDE DEF todo
  <2>3. begin \in Climbs
    BY <2>0, <2>2 DEF Climbs, TaskRow
  <2>4. Above(n, n)
    BY AboveIs
  <2>5. /\ AreAbove(n, << >>, todo) /\ ParentsBefore(<< >>)
        /\ VisitedFirst({}, todo) /\ ParentsFollow(<< >>, {}, todo)
    <3>1. DOMAIN << >> = {}
      OBVIOUS
    <3> QED BY <2>1, <2>2, <2>4, <3>1 DEF AreAbove, ParentsBefore, VisitedFirst, ParentsFollow
  <2>6. begin.list = << >> /\ begin.seen = {} /\ begin.todo = todo /\ todo = <<Task(n, FALSE)>>
    BY <2>0 DEF todo, first
  <2> QED BY <2>3, <2>5, <2>6 DEF ClimbOK
<1>7. I \in SUBSET Climbs /\ \A s \in I \ done : next[s] \in I
  <2>1. \A s \in I : s.todo # << >> => ClimbOK(n, Climb(s))
    BY ClimbKeeps
  <2> QED BY <1>3, <1>4, <2>1
<1> HIDE DEF m, done, next, res, begin
<1>8. GoesDown(Climbs, m, done, next)
  <2>1. \A s \in Climbs \ done : next[s] \in Climbs /\ m[next[s]] < m[s]
    BY <1>2, <1>4
  <2> QED BY <1>2, <1>3, <2>1 DEF GoesDown
<1>9. PICK f \in [Climbs -> Seq(Nodes)] : Recurses(f, Climbs, done, next, res)
  BY <1>5, <1>8, DescentIsThere
<1>10. Is(f)
  BY <1>3, <1>4, <1>5, <1>9 DEF Recurses
<1>11. Is(Walk)
  <2> HIDE DEF Is
  <2> QED BY <1>10
<1> HIDE DEF Walk
<1>12. \A s \in Climbs : Walk[s] = IF s.todo = << >> THEN s.list ELSE Walk[Climb(s)]
  BY <1>11
<1>13. \A s \in Climbs \ done : Walk[s] = Walk[next[s]]
  BY <1>3, <1>4, <1>12
<1> HIDE DEF I, Is
<1>14. PICK s \in I \cap done : Walk[begin] = Walk[s]
  <2> DEFINE S == Climbs
  <2>1. GoesDown(S, m, done, next) /\ \A s \in S \ done : Walk[s] = Walk[next[s]]
    BY <1>8, <1>13
  <2>2. I \in SUBSET S /\ begin \in I /\ \A s \in I \ done : next[s] \in I
    BY <1>6, <1>7
  <2> HIDE DEF S
  <2> QED BY <2>1, <2>2, DescentKeeps
<1>15. s \in Climbs /\ s.todo = << >> /\ Walk[s] = s.list
  BY <1>3, <1>7, <1>12, <1>14
<1> QED BY <1>1, <1>14, <1>15 DEF I

(* The list of a climb: the ancestors of its start, no others, each after    *)
(* its own.                                                                  *)
LEMMA AncestorsAre ==
  ASSUME EdgesOK, NEW n \in Nodes
  PROVE  LET s == Ancestors(n)
         IN  /\ s \in Seq(Nodes)
             /\ {s[i] : i \in DOMAIN s} = {a \in Nodes : Over(a, n)}
             /\ \A i \in DOMAIN s : \A a \in Nodes :
                  Over(a, s[i]) => \E j \in 1 .. (i - 1) : s[j] = a
<1>1. PICK w : ClimbOK(n, w) /\ w.todo = << >> /\ Ancestors(n) = w.list
  BY ClimbsTo
<1> DEFINE s == w.list
<1>2. s \in Seq(Nodes) /\ w.seen \in SUBSET Nodes
  BY <1>1 DEF ClimbOK, Climbs
<1>3. /\ n \in w.seen /\ ParentsBefore(s) /\ ParentsFollow(s, w.seen, << >>)
      /\ \A i \in DOMAIN s : Over(s[i], n)
  <2>1. << >> # <<Task(n, FALSE)>>
    OBVIOUS
  <2> QED BY <1>1, <2>1 DEF ClimbOK, AreAbove
<1>4. edges \in Seq([from : Nodes, to : Nodes])
  BY DEF EdgesOK
<1> HIDE DEF s
<1>5. DOMAIN s = 1 .. Len(s) /\ Len(s) \in Nat /\ \A i \in DOMAIN s : s[i] \in Nodes
  BY <1>2, LenProperties, ElementOfSeq
<1>6. \A q : Arc(q, n) => \E i \in DOMAIN s : s[i] = q
  BY <1>3 DEF ParentsFollow
<1>7. ASSUME NEW i \in DOMAIN s, NEW a \in Nodes, Over(a, s[i])
      PROVE  \E j \in 1 .. (i - 1) : s[j] = a
  <2> DEFINE A == {s[j] : j \in 1 .. i}
  <2>1. ASSUME NEW x, NEW y, Arc(x, y), y \in A PROVE x \in A
    <3>1. PICK j \in 1 .. i : y = s[j]
      BY <2>1
    <3>2. j \in DOMAIN s
      BY <1>5
    <3>3. PICK k \in 1 .. j - 1 : s[k] = x
      BY <1>3, <2>1, <3>1, <3>2 DEF ParentsBefore
    <3>4. k \in 1 .. i
      BY <1>5
    <3> QED BY <3>3, <3>4
  <2>2. i \in 1 .. i
    BY <1>5
  <2>3. s[i] \in A /\ Above(a, s[i]) /\ a # s[i]
    BY <1>7, <2>2, AboveIs
  <2> HIDE DEF A
  <2>4. a \in A
    BY <1>4, <2>1, <2>3, NothingAboveOutside
  <2>5. PICK j \in 1 .. i : a = s[j]
    BY <2>4 DEF A
  <2>6. j \in 1 .. (i - 1)
    BY <1>5, <2>3, <2>5
  <2> QED BY <2>5, <2>6
<1>8. ASSUME NEW a \in Nodes, Over(a, n) PROVE \E i \in DOMAIN s : s[i] = a
  <2> DEFINE A == {n} \cup {s[j] : j \in DOMAIN s}
  <2>1. ASSUME NEW x, NEW y, Arc(x, y), y \in A PROVE x \in A
    <3>1. CASE y = n
      BY <1>6, <2>1, <3>1
    <3>2. ASSUME NEW j \in DOMAIN s, y = s[j] PROVE x \in A
      <4>1. PICK k \in 1 .. j - 1 : s[k] = x
        BY <1>3, <2>1, <3>2 DEF ParentsBefore
      <4>2. k \in DOMAIN s
        BY <1>5
      <4> QED BY <4>1, <4>2
    <3> QED BY <2>1, <3>1, <3>2
  <2>2. n \in A /\ Above(a, n) /\ a # n
    BY <1>8, AboveIs
  <2> HIDE DEF A
  <2>3. a \in A
    BY <1>4, <2>1, <2>2, NothingAboveOutside
  <2> QED BY <2>2, <2>3 DEF A
<1>9. {s[i] : i \in DOMAIN s} = {a \in Nodes : Over(a, n)}
  BY <1>3, <1>5, <1>8
<1> QED BY <1>1, <1>2, <1>7, <1>9 DEF s

(* What a descent keeps.  What is listed and what is to be done is below the *)
(* start, and each has a parent that was listed before it, or the start.     *)
AreBelow(n, list, todo) ==
  /\ \A i \in DOMAIN list : Above(n, list[i]) /\ ~ Above(list[i], n)
  /\ \A k \in DOMAIN todo : Above(n, todo[k]) /\ ~ Above(todo[k], n)

AfterAParent(n, list, todo) ==
  /\ \A i \in DOMAIN list : \/ Arc(n, list[i])
                            \/ \E j \in 1 .. i - 1 : Arc(list[j], list[i])
  /\ \A k \in DOMAIN todo : \/ Arc(n, todo[k])
                            \/ \E j \in DOMAIN list : Arc(list[j], todo[k])

(* The children of what is listed are listed, or are to be done.             *)
Known(y, list, todo) ==
  (\E i \in DOMAIN list : list[i] = y) \/ (\E k \in DOMAIN todo : todo[k] = y)
ChildrenFollow(n, list, todo) ==
  /\ \A y : Arc(n, y) => Known(y, list, todo)
  /\ \A i \in DOMAIN list : \A y : Arc(list[i], y) => Known(y, list, todo)

DescentOK(n, s) ==
  /\ s \in Descents
  /\ \A i, j \in DOMAIN s.list : s.list[i] = s.list[j] => i = j
  /\ AreBelow(n, s.list, s.todo)
  /\ AfterAParent(n, s.list, s.todo)
  /\ ChildrenFollow(n, s.list, s.todo)

(* What is listed already is left.                                           *)
LEMMA DescentPasses ==
  ASSUME NEW n \in Nodes, NEW s, DescentOK(n, s), s.todo # << >>,
         \E i \in DOMAIN s.list : s.list[i] = Head(s.todo)
  PROVE  DescentOK(n, Descend(s))
<1> DEFINE r == Tail(s.todo)
           t == Descend(s)
           N == Len(s.todo)
<1>1. s.list \in Seq(Nodes) /\ s.todo \in Seq(Nodes)
  BY DEF DescentOK, Descents
<1>2. /\ Head(s.todo) = s.todo[1] /\ r \in Seq(Nodes)
      /\ N \in Nat \ {0} /\ DOMAIN s.todo = 1 .. N /\ DOMAIN r = 1 .. N - 1
      /\ \A k \in 1 .. N - 1 : r[k] = s.todo[k + 1]
      /\ \A k \in 2 .. N : k - 1 \in DOMAIN r /\ r[k - 1] = s.todo[k]
  BY <1>1, HeadAndTail
<1>3. t = [s EXCEPT !.todo = r]
  BY DEF Descend
<1> HIDE DEF r, t, N
<1>4. t \in Descents /\ t.list = s.list /\ t.todo = r
  <2>1. s = [list |-> s.list, todo |-> s.todo]
    BY DEF DescentOK, Descents
  <2>2. t = [list |-> s.list, todo |-> r]
    BY <1>3, <2>1
  <2> QED BY <1>1, <1>2, <2>2 DEF Descents
<1>5. \A k \in DOMAIN r : k + 1 \in DOMAIN s.todo /\ r[k] = s.todo[k + 1]
  <2>1. \A k \in 1 .. N - 1 : k + 1 \in 1 .. N
    BY <1>2
  <2> QED BY <1>2, <2>1
<1>6. AreBelow(n, s.list, r)
  BY <1>5 DEF DescentOK, AreBelow
<1>7. AfterAParent(n, s.list, r)
  BY <1>5 DEF DescentOK, AfterAParent
<1>8. ASSUME NEW y, Known(y, s.list, s.todo) PROVE Known(y, s.list, r)
  <2>1. ASSUME NEW k \in DOMAIN s.todo, s.todo[k] = y PROVE Known(y, s.list, r)
    <3>1. CASE k = 1
      BY <1>2, <2>1, <3>1 DEF Known
    <3>2. CASE k # 1
      <4>1. k \in 2 .. N
        BY <1>2, <3>2
      <4> QED BY <1>2, <2>1, <4>1 DEF Known
    <3> QED BY <3>1, <3>2
  <2> QED BY <1>8, <2>1 DEF Known
<1>9. ChildrenFollow(n, s.list, r)
  BY <1>8 DEF DescentOK, ChildrenFollow
<1> QED BY <1>4, <1>6, <1>7, <1>9 DEF DescentOK, t

(* What is listed has its children done next.                                *)
LEMMA DescentLists ==
  ASSUME EdgesOK, NEW n \in Nodes, NEW s, DescentOK(n, s), s.todo # << >>,
         ~ \E i \in DOMAIN s.list : s.list[i] = Head(s.todo)
  PROVE  DescentOK(n, Descend(s))
<1> DEFINE x == Head(s.todo)
           r == Tail(s.todo)
           c == Children(x)
           w == c \o r
           l == Append(s.list, x)
           t == Descend(s)
           N == Len(s.todo)
           L == Len(s.list)
<1>1. s.list \in Seq(Nodes) /\ s.todo \in Seq(Nodes)
  BY DEF DescentOK, Descents
<1>2. /\ x = s.todo[1] /\ x \in Nodes /\ r \in Seq(Nodes) /\ DOMAIN r = 1 .. Len(r)
      /\ N \in Nat \ {0} /\ DOMAIN s.todo = 1 .. N /\ DOMAIN r = 1 .. N - 1
      /\ \A k \in 1 .. N - 1 : r[k] = s.todo[k + 1]
      /\ \A k \in 2 .. N : k - 1 \in DOMAIN r /\ r[k - 1] = s.todo[k]
  BY <1>1, HeadAndTail, LenProperties
<1>3. /\ c \in Seq(Nodes) /\ DOMAIN c = 1 .. Len(c)
      /\ \A i \in DOMAIN c : Arc(x, c[i])
      /\ \A y : Arc(x, y) => \E i \in DOMAIN c : c[i] = y
  BY ChildrenAre DEF EdgesOK
<1>4. t = [list |-> l, todo |-> w]
  BY DEF Descend
<1>0. w = c \o r /\ ~ \E i \in DOMAIN s.list : s.list[i] = x
  OBVIOUS
<1>5. /\ l \in Seq(Nodes) /\ L \in Nat /\ DOMAIN s.list = 1 .. L /\ DOMAIN l = 1 .. L + 1
      /\ \A i \in 1 .. L : l[i] = s.list[i]
      /\ l[L + 1] = x
  BY <1>1, <1>2, LenProperties, AppendProperties
<1> HIDE DEF x, r, c, w, l, t, N, L
<1>6. /\ w \in Seq(Nodes)
      /\ \A k \in DOMAIN c : k \in DOMAIN w /\ w[k] = c[k]
      /\ \A k \in DOMAIN r : k + Len(c) \in DOMAIN w /\ w[k + Len(c)] = r[k]
      /\ \A k \in DOMAIN w : k \in DOMAIN c \/ k - Len(c) \in DOMAIN r
  BY <1>0, <1>2, <1>3, Joint
<1>7. t \in Descents /\ t.list = l /\ t.todo = w
  BY <1>4, <1>5, <1>6 DEF Descents
<1>8. \A k \in DOMAIN w : \/ k \in DOMAIN c /\ w[k] = c[k]
                          \/ \E i \in DOMAIN s.todo : w[k] = s.todo[i]
  <2> SUFFICES ASSUME NEW k \in DOMAIN w, k \notin DOMAIN c
               PROVE  \E i \in DOMAIN s.todo : w[k] = s.todo[i]
    BY <1>6
  <2>1. k - Len(c) \in DOMAIN r /\ (k - Len(c)) + Len(c) = k
    <3>1. k \in Int /\ Len(c) \in Int
      BY <1>3, <1>6, LenProperties
    <3> QED BY <1>6, <3>1
  <2>2. w[k] = r[k - Len(c)]
    BY <1>6, <2>1
  <2>3. (k - Len(c)) + 1 \in DOMAIN s.todo
    BY <1>2, <2>1
  <2> QED BY <1>2, <2>1, <2>2, <2>3
<1>9. \A i \in DOMAIN l : \/ i \in DOMAIN s.list /\ l[i] = s.list[i] /\ i # L + 1
                          \/ i = L + 1 /\ l[i] = x
  <2>1. \A i \in 1 .. L + 1 : (i \in 1 .. L /\ i # L + 1) \/ i = L + 1
    BY <1>5
  <2> QED BY <1>5, <2>1
<1>10. L + 1 \in DOMAIN l /\ \A i \in DOMAIN s.list : i \in DOMAIN l /\ l[i] = s.list[i]
  <2>1. L + 1 \in 1 .. L + 1 /\ \A i \in 1 .. L : i \in 1 .. L + 1
    BY <1>5
  <2> QED BY <1>5, <2>1
<1>11. 1 \in DOMAIN s.todo
  BY <1>2
<1>12. \A i, j \in DOMAIN l : l[i] = l[j] => i = j
  <2>1. \A i, j \in DOMAIN s.list : s.list[i] = s.list[j] => i = j
    BY DEF DescentOK
  <2> QED BY <1>0, <1>9, <2>1
<1>13. AreBelow(n, l, w)
  <2>1. /\ \A i \in DOMAIN s.list : Above(n, s.list[i]) /\ ~ Above(s.list[i], n)
        /\ \A k \in DOMAIN s.todo : Above(n, s.todo[k]) /\ ~ Above(s.todo[k], n)
    BY DEF DescentOK, AreBelow
  <2>2. Above(n, x) /\ ~ Above(x, n)
    BY <1>2, <1>11, <2>1
  <2>3. \A y : Arc(x, y) => Above(n, y) /\ ~ Above(y, n)
    BY <2>2, AboveIs
  <2>4. \A i \in DOMAIN l : Above(n, l[i]) /\ ~ Above(l[i], n)
    BY <1>9, <2>1, <2>2
  <2>5. \A k \in DOMAIN w : Above(n, w[k]) /\ ~ Above(w[k], n)
    BY <1>3, <1>8, <2>1, <2>3
  <2> QED BY <2>4, <2>5 DEF AreBelow
<1>14. AfterAParent(n, l, w)
  <2>1. \A i \in DOMAIN s.list : \/ Arc(n, s.list[i])
                                 \/ \E j \in 1 .. i - 1 : Arc(s.list[j], s.list[i])
    BY DEF DescentOK, AfterAParent
  <2>2. \A k \in DOMAIN s.todo : \/ Arc(n, s.todo[k])
                                 \/ \E j \in DOMAIN s.list : Arc(s.list[j], s.todo[k])
    BY DEF DescentOK, AfterAParent
  <2>3. ASSUME NEW i \in DOMAIN l
        PROVE  Arc(n, l[i]) \/ \E j \in 1 .. i - 1 : Arc(l[j], l[i])
    <3>1. CASE i \in DOMAIN s.list /\ l[i] = s.list[i]
      <4>1. \A j \in 1 .. i - 1 : j \in DOMAIN s.list
        BY <1>5, <3>1
      <4> QED BY <1>10, <2>1, <3>1, <4>1
    <3>2. CASE i = L + 1 /\ l[i] = x
      <4>1. \A j \in DOMAIN s.list : j \in 1 .. i - 1
        BY <1>5, <3>2
      <4> QED BY <1>2, <1>10, <1>11, <2>2, <3>2, <4>1
    <3> QED BY <1>9, <3>1, <3>2
  <2>4. ASSUME NEW k \in DOMAIN w
        PROVE  Arc(n, w[k]) \/ \E j \in DOMAIN l : Arc(l[j], w[k])
    <3>1. CASE k \in DOMAIN c /\ w[k] = c[k]
      BY <1>3, <1>5, <1>10, <3>1
    <3>2. CASE \E i \in DOMAIN s.todo : w[k] = s.todo[i]
      BY <1>10, <2>2, <3>2
    <3> QED BY <1>8, <3>1, <3>2
  <2> QED BY <2>3, <2>4 DEF AfterAParent
<1>15. \A y : Known(y, s.list, s.todo) => Known(y, l, w)
  <2> SUFFICES ASSUME NEW y, Known(y, s.list, s.todo) PROVE Known(y, l, w)
    OBVIOUS
  <2>1. CASE \E i \in DOMAIN s.list : s.list[i] = y
    BY <1>10, <2>1 DEF Known
  <2>2. ASSUME NEW k \in DOMAIN s.todo, s.todo[k] = y PROVE Known(y, l, w)
    <3>1. CASE k = 1
      BY <1>2, <1>5, <1>10, <2>2, <3>1 DEF Known
    <3>2. CASE k # 1
      <4>1. k \in 2 .. N
        BY <1>2, <3>2
      <4> QED BY <1>2, <1>6, <2>2, <4>1 DEF Known
    <3> QED BY <3>1, <3>2
  <2> QED BY <2>1, <2>2 DEF Known
<1>16. \A y : Arc(x, y) => Known(y, l, w)
  BY <1>3, <1>6 DEF Known
<1>17. ChildrenFollow(n, l, w)
  <2>1. /\ \A y : Arc(n, y) => Known(y, s.list, s.todo)
        /\ \A i \in DOMAIN s.list : \A y : Arc(s.list[i], y) => Known(y, s.list, s.todo)
    BY DEF DescentOK, ChildrenFollow
  <2>2. \A i \in DOMAIN l : \A y : Arc(l[i], y) => Known(y, l, w)
    BY <1>9, <1>15, <1>16, <2>1
  <2> QED BY <1>15, <2>1, <2>2 DEF ChildrenFollow
<1> QED BY <1>7, <1>12, <1>13, <1>14, <1>17 DEF DescentOK, t

(* What is left of a descent: the list of what is to be done, and the edges  *)
(* whose upper end is not listed.                                            *)
Undescended(list) == {k \in DOMAIN edges : ~ \E i \in DOMAIN list : list[i] = edges[k].from}
ToDescend(s) == Len(s.todo) + Cardinality(Undescended(s.list))

(* Every step of a descent leaves less.                                      *)
LEMMA DescentEnds ==
  ASSUME EdgesOK, NEW s \in Descents
  PROVE  /\ ToDescend(s) \in Nat
         /\ s.todo # << >> => Descend(s) \in Descents /\ ToDescend(Descend(s)) < ToDescend(s)
<1>1. s.list \in Seq(Nodes) /\ s.todo \in Seq(Nodes) /\ Len(s.todo) \in Nat
  BY LenProperties DEF Descents
<1>2. \A K \in SUBSET DOMAIN edges : IsFiniteSet(K) /\ Cardinality(K) \in Nat
  BY EdgesAre DEF EdgesOK
<1>3. \A list : Undescended(list) \in SUBSET DOMAIN edges
  BY DEF Undescended
<1>4. \A list : Cardinality(Undescended(list)) \in Nat
  BY <1>2, <1>3
<1>5. ToDescend(s) \in Nat
  BY <1>1, <1>4 DEF ToDescend
<1>6. ASSUME s.todo # << >>
      PROVE  Descend(s) \in Descents /\ ToDescend(Descend(s)) < ToDescend(s)
  <2> DEFINE x == Head(s.todo)
             r == Tail(s.todo)
             t == Descend(s)
             l == Append(s.list, x)
             c == Children(x)
             In == \E i \in DOMAIN s.list : s.list[i] = x
  <2>1. x \in Nodes /\ r \in Seq(Nodes) /\ Len(s.todo) \in Nat \ {0} /\ Len(r) = Len(s.todo) - 1
    BY <1>1, <1>6, HeadAndTail
  <2>2. t = IF In THEN [s EXCEPT !.todo = r] ELSE [list |-> l, todo |-> c \o r]
    BY DEF Descend
  <2>3. s = [list |-> s.list, todo |-> s.todo]
    BY DEF Descents
  <2>4. c \in Seq(Nodes) /\ Len(c) = Cardinality(OutOf(x))
    BY ChildrenAre DEF EdgesOK
  <2>5. /\ l \in Seq(Nodes) /\ Len(s.list) \in Nat /\ DOMAIN s.list = 1 .. Len(s.list)
        /\ DOMAIN l = 1 .. Len(s.list) + 1
        /\ \A i \in 1 .. Len(s.list) : l[i] = s.list[i]
        /\ l[Len(s.list) + 1] = x
    BY <1>1, <2>1, LenProperties, AppendProperties
  <2>0. In <=> \E i \in DOMAIN s.list : s.list[i] = x
    OBVIOUS
  <2> HIDE DEF x, r, t, l, c, In
  <2>6. CASE In
    <3>1. t = [list |-> s.list, todo |-> r]
      BY <2>2, <2>3, <2>6
    <3>2. t \in Descents /\ t.list = s.list /\ t.todo = r
      BY <1>1, <2>1, <3>1 DEF Descents
    <3> QED BY <1>1, <1>4, <2>1, <3>2 DEF ToDescend, t
  <2>7. CASE ~ In
    <3>1. c \o r \in Seq(Nodes) /\ Len(c \o r) = Len(c) + Len(r)
      BY <2>1, <2>4, ConcatProperties
    <3>2. t \in Descents /\ t.list = l /\ t.todo = c \o r
      BY <2>2, <2>5, <2>7, <3>1 DEF Descents
    <3>3. \A y : (\E i \in DOMAIN l : l[i] = y) <=> y = x \/ \E i \in DOMAIN s.list : s.list[i] = y
      <4>1. Len(s.list) + 1 \in DOMAIN l /\ \A i \in DOMAIN s.list : i \in DOMAIN l
        BY <2>5
      <4>2. \A i \in DOMAIN l : i \in DOMAIN s.list \/ i = Len(s.list) + 1
        BY <2>5
      <4> QED BY <2>5, <4>1, <4>2
    <3>4. OutOf(x) \subseteq Undescended(s.list) /\ Undescended(l) = Undescended(s.list) \ OutOf(x)
      BY <2>0, <2>7, <3>3 DEF OutOf, Undescended
    <3>5. /\ Cardinality(Undescended(l)) = Cardinality(Undescended(s.list)) - Cardinality(OutOf(x))
          /\ Cardinality(OutOf(x)) \in Nat
      <4>1. /\ IsFiniteSet(Undescended(s.list)) /\ Undescended(s.list) \cap OutOf(x) = OutOf(x)
            /\ OutOf(x) \in SUBSET DOMAIN edges
        BY <1>2, <1>3, <3>4 DEF OutOf
      <4> QED BY <1>2, <3>4, <4>1, FS_Difference
    <3>6. ToDescend(t) = Len(c) + Len(r) + Cardinality(Undescended(l))
      BY <3>1, <3>2 DEF ToDescend
    <3>7. Cardinality(Undescended(l)) \in Nat /\ Cardinality(Undescended(s.list)) \in Nat
      BY <1>4
    <3> QED BY <2>1, <2>4, <3>2, <3>5, <3>6, <3>7 DEF ToDescend, t
  <2> QED BY <2>6, <2>7
<1> QED BY <1>5, <1>6

(* What every step of a descent keeps holds when it ends.                    *)
LEMMA DescendsTo ==
  ASSUME EdgesOK, NEW n \in Nodes
  PROVE  \E s : DescentOK(n, s) /\ s.todo = << >> /\ Descendants(n) = s.list
<1> DEFINE m == [s \in Descents |-> ToDescend(s)]
           done == {s \in Descents : s.todo = << >>}
           next == [s \in Descents |-> Descend(s)]
           res == [s \in done |-> s.list]
           Is(f) == f = [s \in Descents |-> IF s.todo = << >> THEN s.list ELSE f[Descend(s)]]
           Walk == CHOOSE f : Is(f)
           begin == [list |-> << >>, todo |-> Children(n)]
           I == {s \in Descents : DescentOK(n, s)}
<1>1. Descendants(n) = Walk[begin]
  BY DEF Descendants
<1>2. m \in [Descents -> Nat] /\ \A s \in Descents : m[s] = ToDescend(s)
  BY DescentEnds
<1>3. done \in SUBSET Descents /\ \A s \in Descents : s \in done <=> s.todo = << >>
  OBVIOUS
<1>4. \A s \in Descents \ done :
        next[s] = Descend(s) /\ next[s] \in Descents /\ ToDescend(next[s]) < ToDescend(s)
  BY DescentEnds
<1>5. res \in [done -> Seq(Nodes)] /\ \A s \in done : res[s] = s.list
  BY DEF Descents
<1>6. begin \in I
  <2> DEFINE todo == Children(n)
  <2>0. begin = [list |-> << >>, todo |-> todo]
    OBVIOUS
  <2>1. /\ todo \in Seq(Nodes)
        /\ \A k \in DOMAIN todo : Arc(n, todo[k])
        /\ \A y : Arc(n, y) => \E k \in DOMAIN todo : todo[k] = y
    BY ChildrenAre DEF EdgesOK
  <2> HIDE DEF begin, todo
  <2>2. begin \in Descents /\ begin.list = << >> /\ begin.todo = todo
    BY <2>0, <2>1 DEF Descents
  <2>3. \A y : Arc(n, y) => Above(n, y) /\ ~ Above(y, n)
    <3>1. Above(n, n)
      BY AboveIs
    <3> QED BY <3>1, AboveIs
  <2>4. DOMAIN << >> = {}
    OBVIOUS
  <2>5. /\ AreBelow(n, << >>, todo) /\ AfterAParent(n, << >>, todo)
        /\ ChildrenFollow(n, << >>, todo)
    BY <2>1, <2>3, <2>4 DEF AreBelow, AfterAParent, ChildrenFollow, Known
  <2> QED BY <2>2, <2>4, <2>5 DEF DescentOK
<1>7. I \in SUBSET Descents /\ \A s \in I \ done : next[s] \in I
  <2>1. \A s \in I : s.todo # << >> => DescentOK(n, Descend(s))
    BY DescentPasses, DescentLists
  <2> QED BY <1>3, <1>4, <2>1
<1> HIDE DEF m, done, next, res, begin
<1>8. GoesDown(Descents, m, done, next)
  <2>1. \A s \in Descents \ done : next[s] \in Descents /\ m[next[s]] < m[s]
    BY <1>2, <1>4
  <2> QED BY <1>2, <1>3, <2>1 DEF GoesDown
<1>9. PICK f \in [Descents -> Seq(Nodes)] : Recurses(f, Descents, done, next, res)
  BY <1>5, <1>8, DescentIsThere
<1>10. Is(f)
  BY <1>3, <1>4, <1>5, <1>9 DEF Recurses
<1>11. Is(Walk)
  <2> HIDE DEF Is
  <2> QED BY <1>10
<1> HIDE DEF Walk
<1>12. \A s \in Descents : Walk[s] = IF s.todo = << >> THEN s.list ELSE Walk[Descend(s)]
  BY <1>11
<1>13. \A s \in Descents \ done : Walk[s] = Walk[next[s]]
  BY <1>3, <1>4, <1>12
<1> HIDE DEF I, Is
<1>14. PICK s \in I \cap done : Walk[begin] = Walk[s]
  <2> DEFINE S == Descents
  <2>1. GoesDown(S, m, done, next) /\ \A s \in S \ done : Walk[s] = Walk[next[s]]
    BY <1>8, <1>13
  <2>2. I \in SUBSET S /\ begin \in I /\ \A s \in I \ done : next[s] \in I
    BY <1>6, <1>7
  <2> HIDE DEF S
  <2> QED BY <2>1, <2>2, DescentKeeps
<1>15. s \in Descents /\ s.todo = << >> /\ Walk[s] = s.list
  BY <1>3, <1>7, <1>12, <1>14
<1> QED BY <1>1, <1>14, <1>15 DEF I

(* The list of a descent: the descendants of its start, each once, and where *)
(* no node has two parents, none before what is above it.                    *)
LEMMA DescendantsAre ==
  ASSUME EdgesOK, NEW n \in Nodes
  PROVE  LET d == Descendants(n)
         IN  /\ d \in Seq(Nodes)
             /\ {d[i] : i \in DOMAIN d} = {x \in Nodes : Over(n, x)}
             /\ \A i, j \in DOMAIN d : d[i] = d[j] => i = j
             /\ (\A m \in Nodes : Len(Parents(m)) <= 1) =>
                  \A i, j \in DOMAIN d : Over(d[i], d[j]) => i < j
<1>1. PICK w : DescentOK(n, w) /\ w.todo = << >> /\ Descendants(n) = w.list
  BY DescendsTo
<1> DEFINE d == w.list
<1>2. d \in Seq(Nodes) /\ \A i, j \in DOMAIN d : d[i] = d[j] => i = j
  BY <1>1 DEF DescentOK, Descents
<1>3. AreBelow(n, d, << >>) /\ AfterAParent(n, d, << >>) /\ ChildrenFollow(n, d, << >>)
  BY <1>1 DEF DescentOK
<1>4. edges \in Seq([from : Nodes, to : Nodes])
  BY DEF EdgesOK
<1> HIDE DEF d
<1>5. DOMAIN d = 1 .. Len(d) /\ Len(d) \in Nat /\ \A i \in DOMAIN d : d[i] \in Nodes
  BY <1>2, LenProperties, ElementOfSeq
<1>6. /\ \A i \in DOMAIN d : Above(n, d[i]) /\ ~ Above(d[i], n)
      /\ \A i \in DOMAIN d : Arc(n, d[i]) \/ \E j \in 1 .. i - 1 : Arc(d[j], d[i])
      /\ \A y : Arc(n, y) => \E i \in DOMAIN d : d[i] = y
      /\ \A i \in DOMAIN d : \A y : Arc(d[i], y) => \E j \in DOMAIN d : d[j] = y
  BY <1>3 DEF AreBelow, AfterAParent, ChildrenFollow, Known
<1>7. {d[i] : i \in DOMAIN d} = {x \in Nodes : Over(n, x)}
  <2>1. ASSUME NEW i \in DOMAIN d PROVE Over(n, d[i])
    <3>1. Above(n, n)
      BY AboveIs
    <3> QED BY <1>6, <3>1, AboveIs
  <2>2. ASSUME NEW x \in Nodes, Over(n, x) PROVE \E i \in DOMAIN d : d[i] = x
    <3> DEFINE B == {n} \cup {d[i] : i \in DOMAIN d}
               A == Nodes \ B
    <3> SUFFICES ASSUME x \in A PROVE FALSE
      BY <2>2, AboveIs
    <3>1. ASSUME NEW a, NEW b, Arc(a, b), b \in A PROVE a \in A
      <4>1. a \in Nodes
        BY <1>4, <3>1, EdgesAre
      <4>2. a # n /\ \A i \in DOMAIN d : d[i] # a
        BY <1>6, <3>1
      <4> QED BY <4>1, <4>2
    <3>2. Above(n, x) /\ n \notin A
      BY <2>2, AboveIs
    <3> HIDE DEF A
    <3> QED BY <1>4, <3>1, <3>2, NothingAboveOutside
  <2> QED BY <1>5, <2>1, <2>2
<1>8. ASSUME \A m \in Nodes : Len(Parents(m)) <= 1,
             NEW i \in DOMAIN d, NEW j \in DOMAIN d, Over(d[i], d[j])
      PROVE  i < j
  <2>1. ASSUME NEW a, NEW b, NEW c, Arc(a, c), Arc(b, c) PROVE a = b
    <3>1. c \in Nodes
      BY <1>4, <2>1, EdgesAre
    <3> DEFINE p == Parents(c)
    <3>2. /\ p \in Seq(Nodes) /\ DOMAIN p = 1 .. Len(p)
          /\ (\E k \in DOMAIN p : p[k] = a) /\ (\E k \in DOMAIN p : p[k] = b)
      BY <1>4, <2>1, ParentsAre
    <3>3. Len(p) \in Nat /\ Len(p) <= 1
      BY <1>8, <3>1, <3>2, LenProperties
    <3> HIDE DEF p
    <3>4. \A k \in DOMAIN p : k = 1
      BY <3>2, <3>3
    <3> QED BY <3>2, <3>4
  <2> DEFINE B == {x \in Nodes : Above(x, n)} \cup {d[k] : k \in 1 .. j}
             A == Nodes \ B
  <2> SUFFICES ASSUME ~ (i < j) PROVE FALSE
    OBVIOUS
  <2>2. Above(d[i], d[j]) /\ d[i] # d[j]
    BY <1>8, AboveIs
  <2>3. \A k \in 1 .. j : k # i
    BY <1>2, <1>5, <2>2
  <2>4. d[i] \in A
    <3>1. \A k \in 1 .. j : k \in DOMAIN d
      BY <1>5
    <3>2. \A k \in 1 .. j : d[k] # d[i]
      BY <1>2, <2>3, <3>1
    <3> QED BY <1>5, <1>6, <3>2
  <2>5. d[j] \in B
    <3>1. j \in 1 .. j
      BY <1>5
    <3> QED BY <3>1
  <2>6. ASSUME NEW a, NEW b, Arc(a, b), b \in B PROVE a \in B
    <3>1. a \in Nodes
      BY <1>4, <2>6, EdgesAre
    <3>2. CASE Above(b, n)
      <4>1. Above(a, n)
        BY <2>6, <3>2, AboveIs
      <4> QED BY <3>1, <4>1
    <3>3. ASSUME NEW k \in 1 .. j, b = d[k] PROVE a \in B
      <4>1. k \in DOMAIN d
        BY <1>5
      <4>2. CASE Arc(n, d[k])
        <5>1. a = n /\ Above(n, n)
          BY <2>1, <2>6, <3>3, <4>2, AboveIs
        <5> QED BY <3>1, <5>1
      <4>3. ASSUME NEW h \in 1 .. k - 1, Arc(d[h], d[k]) PROVE a \in B
        <5>1. a = d[h]
          BY <2>1, <2>6, <3>3, <4>3
        <5>2. h \in 1 .. j
          BY <1>5
        <5> QED BY <5>1, <5>2
      <4> QED BY <1>6, <4>1, <4>2, <4>3
    <3> QED BY <2>6, <3>2, <3>3
  <2>7. d[i] \in Nodes /\ d[i] \notin B
    BY <2>4
  <2> HIDE DEF A, B
  <2> QED BY <1>4, <2>2, <2>5, <2>6, <2>7, NothingAboveOutside
<1> QED BY <1>1, <1>2, <1>7, <1>8 DEF d

(* The walks do what OrderIsSound says.                                      *)
LEMMA WalksAreSound ==
  ASSUME EdgesOK
  PROVE  ParentsFirst /\ ReleasesEveryDescendant
<1>1. ParentsFirst
  BY AncestorsAre DEF ParentsFirst
<1>2. ASSUME NEW n \in Nodes
      PROVE  LET s == Reverse(Descendants(n))
             IN  /\ {s[i] : i \in DOMAIN s} = {d \in Nodes : Over(n, d)}
                 /\ \A i, j \in DOMAIN s : s[i] = s[j] => i = j
                 /\ (\A m \in Nodes : Len(Parents(m)) <= 1) =>
                      \A i, j \in DOMAIN s : Over(s[i], s[j]) => j < i
  <2> DEFINE d == Descendants(n)
             s == Reverse(d)
             N == Len(d)
  <2>1. /\ d \in Seq(Nodes)
        /\ {d[i] : i \in DOMAIN d} = {x \in Nodes : Over(n, x)}
        /\ \A i, j \in DOMAIN d : d[i] = d[j] => i = j
        /\ (\A m \in Nodes : Len(Parents(m)) <= 1) =>
             \A i, j \in DOMAIN d : Over(d[i], d[j]) => i < j
    BY DescendantsAre
  <2>2. s = [i \in 1 .. N |-> d[(N - i) + 1]]
    BY DEF Reverse
  <2> HIDE DEF d, s
  <2>3. DOMAIN d = 1 .. N /\ N \in Nat
    BY <2>1, LenProperties
  <2> HIDE DEF N
  <2>4. DOMAIN s = 1 .. N /\ \A i \in 1 .. N : (N - i) + 1 \in 1 .. N /\ s[i] = d[(N - i) + 1]
    BY <2>2, <2>3
  <2>5. \A i \in 1 .. N : (N - ((N - i) + 1)) + 1 = i
    BY <2>3
  <2>6. {s[i] : i \in DOMAIN s} = {d[i] : i \in DOMAIN d}
    <3>1. \A i \in DOMAIN d : \E j \in DOMAIN s : s[j] = d[i]
      BY <2>3, <2>4, <2>5
    <3>2. \A i \in DOMAIN s : \E j \in DOMAIN d : s[i] = d[j]
      BY <2>3, <2>4
    <3> QED BY <3>1, <3>2
  <2>7. \A i, j \in 1 .. N : (N - i) + 1 = (N - j) + 1 => i = j
    BY <2>3
  <2>8. \A i, j \in 1 .. N : (N - i) + 1 < (N - j) + 1 => j < i
    BY <2>3
  <2>9. \A i, j \in DOMAIN s : s[i] = s[j] => i = j
    BY <2>1, <2>3, <2>4, <2>7
  <2>10. (\A m \in Nodes : Len(Parents(m)) <= 1) =>
           \A i, j \in DOMAIN s : Over(s[i], s[j]) => j < i
    BY <2>1, <2>3, <2>4, <2>8
  <2> QED BY <2>1, <2>6, <2>9, <2>10 DEF s, d
<1> QED BY <1>1, <1>2 DEF ReleasesEveryDescendant

-----------------------------------------------------------------------------
(*************************** locks under cascades **************************)

ItemRow == [node : Nodes, again : BOOLEAN]
CallsOK == \A c \in Calls : calls[c] # None => calls[c] \in CallRow
CountsOK == \A l \in Locks : locks[l].count \in 0 .. MaxCount

(* Nobody acquires again what he holds more often than the bound says.       *)
LEMMA CountsStay ==
  ASSUME IInv, CountsOK, [ServiceNext]_<<locks, queue>>
  PROVE  CountsOK'
<1>1. MaxCount \in Nat /\ 1 <= MaxCount /\ locks = [l \in Locks |-> locks[l]]
  BY ServiceAssumption DEF ServiceAssumption, IInv
<1>2. FreeLock.count \in 0 .. MaxCount /\ \A h, re : HeldLock(h, re).count \in 0 .. MaxCount
  BY <1>1 DEF FreeLock, HeldLock
<1>3. ASSUME NEW h \in Holders, NEW l \in Locks, NEW re \in BOOLEAN, Granted(h, l, re)
      PROVE  CountsOK'
  <2>1. CASE locks' = [locks EXCEPT ![l] = HeldLock(h, re)]
    BY <1>1, <1>2, <2>1 DEF CountsOK
  <2>2. CASE locks[l].count < MaxCount /\ locks' = [locks EXCEPT ![l].count = @ + 1]
    <3>1. locks[l] \in ServiceRow /\ locks[l].count \in 0 .. MaxCount
      BY DEF IInv, CountsOK
    <3>2. locks'[l].count = locks[l].count + 1
      BY <1>1, <2>2, <3>1 DEF ServiceRow
    <3>3. \A k \in Locks : k # l => locks'[k] = locks[k]
      BY <1>1, <2>2
    <3>4. locks'[l].count \in 0 .. MaxCount
      BY <1>1, <2>2, <3>1, <3>2
    <3> QED BY <3>3, <3>4 DEF CountsOK
  <2> QED BY <1>3, <2>1, <2>2 DEF Granted
<1>4. ASSUME NEW S \in SUBSET Locks, Lose(S) PROVE CountsOK'
  <2>1. PICK next \in [S -> 0 .. Cardinality(Holders)] :
          locks' = [l \in Locks |-> IF l \in S THEN Successor(l, next[l]) ELSE locks[l]]
    BY <1>4 DEF Lose
  <2>2. \A l, i : Successor(l, i).count \in 0 .. MaxCount
    BY <1>2 DEF Successor
  <2> QED BY <2>1, <2>2 DEF CountsOK
<1>5. ASSUME NEW h \in Holders, NEW l \in Locks, Release(h, l) PROVE CountsOK'
  <2>1. CASE locks[l].count > 1 /\ locks' = [locks EXCEPT ![l].count = @ - 1]
    <3>1. locks[l] \in ServiceRow /\ locks[l].count \in 0 .. MaxCount
      BY DEF IInv, CountsOK
    <3>2. locks'[l].count = locks[l].count - 1
      BY <1>1, <2>1, <3>1 DEF ServiceRow
    <3>3. \A k \in Locks : k # l => locks'[k] = locks[k]
      BY <1>1, <2>1
    <3>4. locks'[l].count \in 0 .. MaxCount
      BY <1>1, <2>1, <3>1, <3>2
    <3> QED BY <3>3, <3>4 DEF CountsOK
  <2>2. CASE Lose({l})
    BY <1>4, <2>2
  <2>3. CASE locks' = locks
    BY <2>3 DEF CountsOK
  <2> QED BY <1>5, <2>1, <2>2, <2>3 DEF Release
<1>6. ASSUME NEW h \in Holders, NEW names \in SUBSET Locks, NEW re \in BOOLEAN,
             AcquireAll(h, names, re)
      PROVE  CountsOK'
  BY <1>2, <1>6 DEF AcquireAll, CountsOK
<1>7. ASSUME locks' = locks PROVE CountsOK'
  BY <1>7 DEF CountsOK
<1> QED BY <1>3, <1>4, <1>5, <1>6, <1>7 DEF ServiceNext, Queued, TimeOutWaits

(* A cascade that goes on has its types.                                     *)
LEMMA CallFits ==
  ASSUME NEW r \in CallRow, NEW op \in {"acquire", "tokens", "rollback", "check", "release"},
         NEW todo \in Seq(Nodes), NEW got \in Seq(ItemRow)
  PROVE  /\ [r EXCEPT !.op = op] \in CallRow
         /\ [r EXCEPT !.todo = todo] \in CallRow
         /\ [r EXCEPT !.got = got] \in CallRow
         /\ [r EXCEPT !.op = op, !.todo = todo] \in CallRow
         /\ [r EXCEPT !.op = op, !.todo = todo, !.got = got] \in CallRow
BY DEF CallRow, ItemRow

(* What a call begins with.                                                  *)
Ops == {"acquire", "tokens", "rollback", "check", "release"}
LEMMA CallIs ==
  ASSUME NEW op \in Ops, NEW h \in Holders, NEW re \in BOOLEAN, NEW n \in Nodes, NEW todo \in Seq(Nodes)
  PROVE  /\ Call(op, h, re, n, todo) \in CallRow /\ CallerOK(Call(op, h, re, n, todo))
         /\ Call(op, h, re, n, todo).got = << >> /\ Call(op, h, re, n, todo).op = op
<1>1. << >> \in Seq([node : Nodes, again : BOOLEAN])
  OBVIOUS
<1> QED BY <1>1 DEF Call, CallRow, CallerOK, Fields, Ops

(* The lists of nodes a cascade is to go through.                            *)
LEMMA ListsAre ==
  ASSUME EdgesOK, NEW n \in Nodes
  PROVE  /\ Append(Ancestors(n), n) \in Seq(Nodes)
         /\ Append(Reverse(Descendants(n)), n) \in Seq(Nodes)
         /\ Children(n) \in Seq(Nodes)
<1> DEFINE d == Descendants(n)
<1>1. Ancestors(n) \in Seq(Nodes) /\ d \in Seq(Nodes)
  BY AncestorsAre, DescendantsAre
<1> HIDE DEF d
<1>2. Reverse(d) \in Seq(Nodes)
  <2>1. Len(d) \in Nat /\ DOMAIN d = 1 .. Len(d) /\ \A i \in DOMAIN d : d[i] \in Nodes
    BY <1>1, LenProperties, ElementOfSeq
  <2>2. \A i \in 1 .. Len(d) : (Len(d) - i) + 1 \in DOMAIN d
    BY <2>1
  <2> QED BY <2>1, <2>2 DEF Reverse
<1>3. Append(Ancestors(n), n) \in Seq(Nodes) /\ Append(Reverse(d), n) \in Seq(Nodes)
  BY <1>1, <1>2, AppendProperties
<1>4. Children(n) \in Seq(Nodes)
  BY ChildrenAre DEF EdgesOK
<1> QED BY <1>3, <1>4 DEF d

(* What begins begins with these.                                            *)
LEMMA Begins ==
  ASSUME EdgesOK, NEW c \in Calls, NEW n \in Nodes, NEW h \in Holders,
         \/ \E re \in Modes : CascadeAcquire(c, n, h, re)
         \/ \E force \in BOOLEAN : CascadeRelease(c, n, h, force)
  PROVE  \E call \in CallRow, bare \in BOOLEAN :
           /\ CallerOK(call) /\ call.got = << >> /\ Begin(c, call, bare)
           /\ bare => call.op = "acquire" /\ ComesBare(c, call)
<1>1. ASSUME NEW re \in Modes, CascadeAcquire(c, n, h, re)
      PROVE  \E call \in CallRow, bare \in BOOLEAN :
               /\ CallerOK(call) /\ call.got = << >> /\ Begin(c, call, bare)
               /\ bare => call.op = "acquire" /\ ComesBare(c, call)
  <2> DEFINE todo == Append(Ancestors(n), n)
             call == Call("acquire", h, re, n, todo)
  <2>1. Begin(c, call, ComesBare(c, call)) /\ re \in BOOLEAN
    BY <1>1, TopologyAssumption DEF CascadeAcquire, TopologyAssumption
  <2>2. todo \in Seq(Nodes)
    BY ListsAre
  <2> HIDE DEF todo
  <2>3. call \in CallRow /\ CallerOK(call) /\ call.got = << >> /\ call.op = "acquire"
    BY <2>1, <2>2, CallIs DEF Ops
  <2>4. ComesBare(c, call) \in BOOLEAN
    BY DEF ComesBare
  <2> HIDE DEF call
  <2> QED BY <2>1, <2>3, <2>4
<1>2. ASSUME NEW force \in BOOLEAN, CascadeRelease(c, n, h, force)
      PROVE  \E call \in CallRow, bare \in BOOLEAN :
               /\ CallerOK(call) /\ call.got = << >> /\ Begin(c, call, bare)
               /\ bare => call.op = "acquire" /\ ComesBare(c, call)
  <2> DEFINE todo == IF force THEN Append(Reverse(Descendants(n)), n) ELSE Children(n)
             op == IF force THEN "release" ELSE "check"
             call == Call(op, h, FALSE, n, todo)
  <2>1. Begin(c, call, FALSE) /\ op \in Ops
    BY <1>2 DEF CascadeRelease, Ops
  <2>2. todo \in Seq(Nodes)
    BY ListsAre
  <2> HIDE DEF todo, op
  <2>3. call \in CallRow /\ CallerOK(call) /\ call.got = << >>
    BY <2>1, <2>2, CallIs
  <2> HIDE DEF call
  <2> QED BY <2>1, <2>3
<1> QED BY <1>1, <1>2

(* The cascades keep their types.                                            *)
LEMMA CallsStay ==
  ASSUME EdgesOK, CallersOK, CallsOK, [Next]_vars
  PROVE  CallsOK'
<1>1. ASSUME NEW c \in Calls, NEW call, calls' = [calls EXCEPT ![c] = call],
             call = None \/ call \in CallRow
      PROVE  CallsOK'
  BY <1>1 DEF CallsOK, CallersOK
<1>2. ASSUME NEW r \in CallRow, NEW b \in BOOLEAN PROVE [r EXCEPT !.bare = b] \in CallRow
  BY <1>2 DEF CallRow
<1>3. ASSUME NEW c \in Calls, NEW call \in CallRow, CallerOK(call), NEW bare \in BOOLEAN,
             Begin(c, call, bare)
      PROVE  CallsOK'
  <2>1. calls'[c] = [call EXCEPT !.bare = bare]
    BY <1>3, Begun
  <2>2. calls'[c] \in CallRow
    BY <1>2, <1>3, <2>1
  <2>3. ASSUME NEW d \in Calls \ {c}, calls'[d] # None PROVE calls'[d] \in CallRow
    <3>1. calls'[d] = calls[d] \/ (calls[d] # None /\ calls'[d] = [calls[d] EXCEPT !.bare = FALSE])
      BY <1>3, Begun
    <3>2. calls[d] # None => calls[d] \in CallRow
      BY DEF CallsOK
    <3> QED BY <1>2, <2>3, <3>1, <3>2
  <2> QED BY <2>2, <2>3 DEF CallsOK
<1>4. ASSUME NEW c \in Calls, NEW n \in Nodes, NEW h \in Holders,
             \/ \E re \in Modes : CascadeAcquire(c, n, h, re)
             \/ \E force \in BOOLEAN : CascadeRelease(c, n, h, force)
      PROVE  CallsOK'
  BY <1>3, <1>4, Begins
<1>5. ASSUME NEW c \in Calls, CascadeStep(c) PROVE CallsOK'
  <2>1. calls[c] # None
    BY <1>5 DEF CascadeStep, AcquireNext, ConsumeTokens, RollbackNext, CheckChild, ReleaseNext, Finish
  <2> DEFINE r == calls[c]
  <2>2. r \in CallRow /\ r.op \in Ops /\ r.todo \in Seq(Nodes) /\ r.got \in Seq(ItemRow) /\ r.target \in Nodes
    BY <2>1 DEF CallsOK, CallRow, ItemRow, Ops
  <2>3. ASSUME NEW call, call \in CallRow \/ call = None, calls' = [calls EXCEPT ![c] = call]
        PROVE  CallsOK'
    BY <1>1, <2>3
  <2>4. CASE AcquireNext(c)
    <3> DEFINE n == Head(r.todo)
    <3>1. PICK answer : calls' = IF answer \in {"granted", "rejected"}
                       THEN [calls EXCEPT ![c].op = IF n \in Costly THEN "tokens" ELSE @,
                                          ![c].todo = Tail(@),
                                          ![c].got = Append(@, Item(n, answer))]
                       ELSE [calls EXCEPT ![c].op = "rollback"]
      BY <2>4 DEF AcquireNext
    <3> DEFINE op == IF n \in Costly THEN "tokens" ELSE r.op
               todo == Tail(r.todo)
               got == Append(r.got, Item(n, answer))
    <3>2. n \in Nodes /\ todo \in Seq(Nodes)
      <4>1. r.todo # << >>
        BY <2>4 DEF AcquireNext
      <4> QED BY <2>2, <4>1, HeadTailProperties
    <3>3. Item(n, answer) \in ItemRow
      <4>1. (answer = "granted" /\ locks'[LockOf[n]].count > 1) \in BOOLEAN
        OBVIOUS
      <4> QED BY <3>2, <4>1 DEF Item, ItemRow
    <3>4. got \in Seq(ItemRow)
      BY <2>2, <3>3, AppendProperties
    <3>5. op \in Ops
      BY <2>2 DEF Ops
    <3>6. calls' = [calls EXCEPT ![c] = [r EXCEPT !.op = op, !.todo = todo, !.got = got]]
            \/ calls' = [calls EXCEPT ![c] = [r EXCEPT !.op = "rollback"]]
      BY <3>1
    <3> HIDE DEF op, todo, got, r
    <3>7. [r EXCEPT !.op = op, !.todo = todo, !.got = got] \in CallRow
      BY <2>2, <3>2, <3>4, <3>5, CallFits DEF Ops
    <3>8. [r EXCEPT !.op = "rollback"] \in CallRow
      BY <2>2, CallFits DEF Ops
    <3> QED BY <2>3, <3>6, <3>7, <3>8
  <2>5. CASE ConsumeTokens(c)
    <3>1. PICK op \in {"acquire", "rollback"} : calls' = [calls EXCEPT ![c] = [r EXCEPT !.op = op]]
      BY <2>5 DEF ConsumeTokens
    <3> HIDE DEF r
    <3>2. [r EXCEPT !.op = op] \in CallRow
      BY <2>2, CallFits DEF Ops
    <3> QED BY <2>3, <3>1, <3>2
  <2>6. CASE RollbackNext(c)
    <3> DEFINE got == Front(r.got)
    <3>1. calls' = [calls EXCEPT ![c] = [r EXCEPT !.got = got]] /\ r.got # << >>
      BY <2>6 DEF RollbackNext
    <3> HIDE DEF r
    <3>2. got \in Seq(ItemRow)
      <4> DEFINE g == r.got
      <4>1. Len(g) \in Nat \ {0} /\ g \in Seq(ItemRow)
        BY <2>2, <3>1, LenProperties, EmptySeq
      <4> HIDE DEF g
      <4>2. SubSeq(g, 1, Len(g) - 1) \in Seq(ItemRow)
        BY <4>1
      <4> QED BY <4>2 DEF Front, g
    <3> HIDE DEF got
    <3>3. [r EXCEPT !.got = got] \in CallRow
      BY <2>2, <3>2, CallFits DEF Ops
    <3> QED BY <2>3, <3>1, <3>3
  <2>7. CASE CheckChild(c)
    <3> DEFINE first == <<r.target>>
               rest == Tail(r.todo)
    <3>1. \/ calls' = [calls EXCEPT ![c] = [r EXCEPT !.op = "release", !.todo = first]]
          \/ calls' = [calls EXCEPT ![c] = None]
          \/ r.todo # << >> /\ calls' = [calls EXCEPT ![c] = [r EXCEPT !.todo = rest]]
      BY <2>7 DEF CheckChild
    <3>2. first \in Seq(Nodes) /\ (r.todo # << >> => rest \in Seq(Nodes))
      BY <2>2, HeadTailProperties
    <3> HIDE DEF r, first, rest
    <3>3. [r EXCEPT !.op = "release", !.todo = first] \in CallRow
      BY <2>2, <3>2, CallFits DEF Ops
    <3>4. r.todo # << >> => [r EXCEPT !.todo = rest] \in CallRow
      BY <2>2, <3>2, CallFits DEF Ops
    <3> QED BY <2>3, <3>1, <3>3, <3>4
  <2>8. CASE ReleaseNext(c)
    <3> DEFINE rest == Tail(r.todo)
    <3>1. calls' = [calls EXCEPT ![c] = [r EXCEPT !.todo = rest]] /\ r.todo # << >>
      BY <2>8 DEF ReleaseNext
    <3>2. rest \in Seq(Nodes)
      BY <2>2, <3>1, HeadTailProperties
    <3> HIDE DEF r, rest
    <3>3. [r EXCEPT !.todo = rest] \in CallRow
      BY <2>2, <3>2, CallFits DEF Ops
    <3> QED BY <2>3, <3>1, <3>3
  <2>9. CASE Finish(c)
    BY <2>3, <2>9 DEF Finish
  <2> QED BY <1>5, <2>4, <2>5, <2>6, <2>7, <2>8, <2>9 DEF CascadeStep
<1>6. CASE Restart
  BY <1>6 DEF Restart, CallsOK
<1>7. CASE GraphStep \/ LocksMove \/ UNCHANGED vars
  BY <1>7 DEF GraphStep, DeclareEdge, RemoveEdge, LocksMove, vars, CallsOK
<1> QED BY <1>4, <1>5, <1>6, <1>7 DEF Next

(* Whatever cascades, clients and leases do, in whatever order edges are     *)
(* declared and removed in between: the rows have their types, the topology  *)
(* has no cycle, a cascade locks parents first, and a forced release leaves  *)
(* out no descendant (topology/manager.go:411 and :553).                     *)
THEOREM OrderSound == Spec => []OrderIsSound
<1> DEFINE Inv == CallersOK /\ CallsOK /\ CountsOK /\ EdgesOK
<1>1. Init => Inv
  <2> SUFFICES ASSUME Init PROVE Inv
    OBVIOUS
  <2>1. \A l \in Locks : locks[l] = FreeLock
    BY DEF Init, InitLocks
  <2>2. CountsOK
    BY <2>1, ServiceAssumption DEF CountsOK, FreeLock, ServiceAssumption
  <2> QED BY <2>2, NoEdges DEF Init, CallersOK, CallsOK
<1>2. IInv /\ Inv /\ [Next]_vars => Inv'
  BY CascadeIsServiceStep, CallersStay, CallsStay, CountsStay, EdgesStay
<1>3. IInv /\ Inv => OrderIsSound
  <2> SUFFICES ASSUME IInv, Inv PROVE OrderIsSound
    OBVIOUS
  <2>1. TypeOK
    <3>1. \A l \in Locks : locks[l] \in ServiceRow /\ locks[l].count \in 0 .. MaxCount
      BY DEF IInv, CountsOK
    <3>2. \A l \in Locks : locks[l] \in LockRow
      BY <3>1 DEF ServiceRow, LockRow
    <3> QED BY <3>2 DEF TypeOK, IInv, WaitRow, EdgesOK, CallsOK
  <2> QED BY <2>1, WalksAreSound DEF OrderIsSound, EdgesOK
<1> QED BY <1>1, <1>2, <1>3, CascadesUseTheService, PTL DEF Spec

-----------------------------------------------------------------------------
(************************* what a cascade leaves ****************************)

(* What the steps of others do to a caller: he keeps a lock he has entered   *)
(* once as it is, or is granted, once, one he waited for; and he waits for   *)
(* nothing new.                                                              *)
Keeps(h, l) ==
  /\ locks'[l].holder = h =>
       \/ locks[l].holder = h /\ locks'[l].count = locks[l].count
       \/ h \in Waiting(l) /\ locks'[l].count = 1
  /\ h \in Waiting(l)' => h \in Waiting(l)
Spared(h) == \A l \in Locks : Keeps(h, l)

(* Locks that pass on pass to those who waited.                              *)
LEMMA LoseSpares ==
  ASSUME IInv, NEW S \in SUBSET Locks, Lose(S), NEW h \in Holders
  PROVE  Spared(h)
<1>1. PICK next \in [S -> 0 .. Cardinality(Holders)] :
        /\ \A l \in S : next[l] <= Len(queue[l])
        /\ locks' = [l \in Locks |-> IF l \in S THEN Successor(l, next[l]) ELSE locks[l]]
        /\ queue' = [l \in Locks |-> IF l \in S THEN Rest(l, next[l]) ELSE queue[l]]
  BY DEF Lose
<1>2. ASSUME NEW l \in Locks, l \notin S PROVE Keeps(h, l)
  <2>1. locks'[l] = locks[l] /\ queue'[l] = queue[l]
    BY <1>1, <1>2
  <2> QED BY <2>1 DEF Keeps, Waiting
<1>3. ASSUME NEW l \in S PROVE Keeps(h, l)
  <2> DEFINE i == next[l]
  <2>1. i \in 0 .. Len(queue[l])
    <3>1. Cardinality(Holders) \in Nat /\ Len(queue[l]) \in Nat
      BY ServiceAssumption, FS_CardinalityType DEF ServiceAssumption, IInv
    <3> QED BY <1>1, <3>1
  <2>2. locks'[l] = Successor(l, i) /\ queue'[l] = Rest(l, i)
    BY <1>1
  <2> HIDE DEF i
  <2>3. Waiting(l)' = WaitersOf(Rest(l, i))
    BY <2>2 DEF Waiting, WaitersOf
  <2>4. CASE i = 0
    <3>1. locks'[l].holder = NoHolder /\ Waiting(l)' = {}
      BY <2>1, <2>2, <2>3, <2>4, Succeeded
    <3> QED BY <3>1, ServiceAssumption DEF Keeps, ServiceAssumption
  <2>5. CASE i # 0
    <3>1. /\ locks'[l].holder \in Waiting(l)
          /\ Waiting(l)' \subseteq Waiting(l) \ {locks'[l].holder}
      BY <2>1, <2>2, <2>3, <2>5, Succeeded
    <3>2. locks'[l].count = 1
      BY <2>2, <2>5 DEF Successor, HeldLock
    <3> QED BY <3>1, <3>2 DEF Keeps
  <2> QED BY <2>4, <2>5
<1> QED BY <1>2, <1>3 DEF Spared

(* Nor do waits that end.                                                    *)
LEMMA TimeOutSpares ==
  ASSUME IInv, TimeOutWaits, NEW h \in Holders
  PROVE  Spared(h)
<1>1. locks' = locks /\ Promise!Leave
  BY TimeOutStep DEF TimeOutWaits
<1>2. \A l \in Locks : Waiting(l)' \subseteq Waiting(l)
  BY <1>1 DEF Promise!Leave
<1> QED BY <1>1, <1>2 DEF Spared, Keeps

(* Nor does what another caller does.                                        *)
LEMMA OthersSpare ==
  ASSUME IInv, NEW h \in Holders, NEW g \in Holders, g # h, NEW l, NEW re \in BOOLEAN, NEW answer,
         Acquire(g, l, re, answer) \/ Release(g, l)
  PROVE  Spared(h)
<1>1. ASSUME UNCHANGED <<locks, queue>> PROVE Spared(h)
  BY <1>1 DEF Spared, Keeps, Waiting
<1>2. CASE l \notin Locks
  BY <1>1, <1>2, NoSuchLock
<1>3. CASE l \in Locks /\ Granted(g, l, re)
  <2>1. queue' = queue /\ \A k \in Locks : Waiting(k)' = Waiting(k)
    BY <1>3 DEF Granted, Waiting
  <2>2. \A k \in Locks : k # l => locks'[k] = locks[k]
    BY <1>3 DEF Granted, IInv
  <2>3. locks'[l].holder = g
    <3>1. CASE locks' = [locks EXCEPT ![l] = HeldLock(g, re)]
      BY <1>3, <3>1 DEF IInv, HeldLock
    <3>2. CASE locks[l].holder = g /\ locks' = [locks EXCEPT ![l].count = @ + 1]
      <4>1. locks[l] \in ServiceRow
        BY <1>3 DEF IInv
      <4> QED BY <1>3, <3>2, <4>1 DEF IInv, ServiceRow
    <3> QED BY <1>3, <3>1, <3>2 DEF Granted
  <2> QED BY <1>3, <2>1, <2>2, <2>3 DEF Spared, Keeps
<1>4. CASE l \in Locks /\ Queued(g, l, re)
  <2>1. locks' = locks /\ Promise!Join(g, l)
    BY <1>4, QueuedStep DEF Queued
  <2>2. \A k \in Locks : h \in Waiting(k)' => h \in Waiting(k)
    BY <2>1, <1>4 DEF Promise!Join
  <2> QED BY <2>1, <2>2 DEF Spared, Keeps
<1>5. CASE l \in Locks /\ Release(g, l)
  <2>1. CASE locks[l].holder = g /\ locks' = [locks EXCEPT ![l].count = @ - 1] /\ queue' = queue
    <3>1. \A k \in Locks : Waiting(k)' = Waiting(k)
      BY <2>1 DEF Waiting
    <3>2. \A k \in Locks : k # l => locks'[k] = locks[k]
      BY <1>5, <2>1 DEF IInv
    <3>3. locks'[l].holder = g
      <4>1. locks[l] \in ServiceRow
        BY <1>5 DEF IInv
      <4> QED BY <1>5, <2>1, <4>1 DEF IInv, ServiceRow
    <3> QED BY <3>1, <3>2, <3>3 DEF Spared, Keeps
  <2>2. CASE Lose({l})
    BY <1>5, <2>2, LoseSpares
  <2> QED BY <1>1, <1>5, <2>1, <2>2 DEF Release
<1>6. CASE Refused
  BY <1>1, <1>6 DEF Refused
<1> QED BY <1>2, <1>3, <1>4, <1>5, <1>6 DEF Acquire

(* What is true of a caller who came with nothing: his cascade is his only   *)
(* one and locks; he has what it booked, once, or the lock it is stuck at,   *)
(* and waits for that one at most; and a lock that it is to ask for          *)
(* reentrantly is not among those it has booked or asks for later.           *)
Booked(r, l) == \E i \in DOMAIN r.got : LockOf[r.got[i].node] = l
Holds(r, l) ==
  /\ locks[l].holder = r.holder => locks[l].count = 1 /\ (StuckAt(r, l) \/ Booked(r, l))
  /\ r.holder \in Waiting(l) => StuckAt(r, l)
Apart(r) ==
  r.reentrant /\ r.op # "rollback" =>
    /\ \A i, j \in DOMAIN r.todo : LockOf[r.todo[i]] = LockOf[r.todo[j]] => i = j
    /\ \A i \in DOMAIN r.todo : ~ Booked(r, LockOf[r.todo[i]])
Bare(r) ==
  /\ r.op \in {"acquire", "tokens", "rollback"}
  /\ \A i \in DOMAIN r.got : ~ r.got[i].again
  /\ Apart(r)
Alone(c) == \A d \in Calls \ {c} : calls[d] # None => calls[d].holder # calls[c].holder
BareOK ==
  \A c \in Calls : calls[c] # None /\ calls[c].bare =>
    Bare(calls[c]) /\ Alone(c) /\ \A l \in Locks : Holds(calls[c], l)

(* Where the caller is spared, a cascade of his that stands still is as      *)
(* before.                                                                   *)
LEMMA SparedHolds ==
  ASSUME NEW r, NEW h, h = r.holder, Spared(h), \A l \in Locks : Holds(r, l)
  PROVE  \A l \in Locks :
           /\ locks'[l].holder = r.holder => locks'[l].count = 1 /\ (StuckAt(r, l) \/ Booked(r, l))
           /\ r.holder \in Waiting(l)' => StuckAt(r, l)
BY DEF Spared, Keeps, Holds

(* The others may do what they like; only the holder's own cascades, and     *)
(* their beginnings, need a look.                                            *)
LEMMA BareStaysStill ==
  ASSUME IInv, CallersOK, CallsOK, BareOK,
         calls' = calls, \A h \in Holders : Spared(h)
  PROVE  BareOK'
<1> SUFFICES ASSUME NEW c \in Calls, calls[c] # None, calls[c].bare
             PROVE  (Bare(calls[c]) /\ Alone(c) /\ \A l \in Locks : Holds(calls[c], l))'
  BY DEF BareOK
<1>1. calls[c].holder \in Holders /\ calls'[c] = calls[c]
  BY DEF CallersOK, CallerOK
<1>2. Bare(calls[c]) /\ Alone(c) /\ \A l \in Locks : Holds(calls[c], l)
  BY DEF BareOK
<1>3. Bare(calls[c])' /\ Alone(c)'
  BY <1>2 DEF Bare, Alone, Apart, Booked
<1>4. (\A l \in Locks : Holds(calls[c], l))'
  BY <1>1, <1>2, SparedHolds DEF Holds, StuckAt, Booked
<1> QED BY <1>3, <1>4

(* Who loses a lock does not have it afterwards: it is free or goes to       *)
(* another, who waited for it.                                               *)
LEMMA LoseLetsGo ==
  ASSUME IInv, NEW h \in Holders, NEW l \in Locks, locks[l].holder = h, Lose({l})
  PROVE  locks'[l].holder # h
<1>1. PICK next \in [{l} -> 0 .. Cardinality(Holders)] :
        /\ next[l] <= Len(queue[l])
        /\ locks' = [k \in Locks |-> IF k \in {l} THEN Successor(k, next[k]) ELSE locks[k]]
  BY DEF Lose
<1> DEFINE i == next[l]
<1>2. i \in 0 .. Len(queue[l]) /\ locks'[l] = Successor(l, i)
  <2>1. Cardinality(Holders) \in Nat /\ Len(queue[l]) \in Nat
    BY ServiceAssumption, FS_CardinalityType DEF ServiceAssumption, IInv
  <2> QED BY <1>1, <2>1
<1> HIDE DEF i
<1>3. h \notin Waiting(l)
  BY CellFacts, ServiceAssumption DEF CellOK, Held, ServiceAssumption
<1> QED BY <1>2, <1>3, Succeeded, ServiceAssumption DEF ServiceAssumption

(* A cascade takes a step that spares the other callers.                     *)
Will(r, l) ==
  /\ locks'[l].holder = r.holder => locks'[l].count = 1 /\ (StuckAt(r, l) \/ Booked(r, l))
  /\ r.holder \in Waiting(l)' => StuckAt(r, l)
LEMMA BareGoesOn ==
  ASSUME IInv, CallersOK, CallsOK, BareOK, NEW c \in Calls, calls[c] # None,
         NEW new, calls' = [calls EXCEPT ![c] = new],
         new = None \/ (new.holder = calls[c].holder /\ new.bare = calls[c].bare),
         \A h \in Holders : h # calls[c].holder => Spared(h),
         calls[c].bare /\ new # None => Bare(new) /\ \A l \in Locks : Will(new, l)
  PROVE  BareOK'
<1> SUFFICES ASSUME NEW d \in Calls, calls'[d] # None, calls'[d].bare
             PROVE  (Bare(calls[d]) /\ Alone(d) /\ \A l \in Locks : Holds(calls[d], l))'
  BY DEF BareOK
<1>0. \A e \in Calls : calls'[e] = IF e = c THEN new ELSE calls[e]
  BY DEF CallersOK
<1>1. CASE d = c
  <2>1. calls'[c] = new /\ new # None /\ calls[c].bare
    BY <1>0, <1>1
  <2>2. Bare(new) /\ \A l \in Locks : Will(new, l)
    BY <2>1
  <2>3. Alone(c)
    BY <2>1 DEF BareOK
  <2>4. Alone(c)'
    BY <1>0, <2>1, <2>3 DEF Alone
  <2>5. Bare(calls[c])'
    BY <2>1, <2>2 DEF Bare, Apart, Booked
  <2>6. (\A l \in Locks : Holds(calls[c], l))'
    BY <2>1, <2>2 DEF Holds, Will, StuckAt, Booked
  <2> QED BY <1>1, <2>4, <2>5, <2>6
<1>2. CASE d # c
  <2>1. calls'[d] = calls[d] /\ calls[d] # None /\ calls[d].bare /\ calls[d].holder \in Holders
    BY <1>0, <1>2 DEF CallersOK, CallerOK
  <2>2. Bare(calls[d]) /\ Alone(d) /\ \A l \in Locks : Holds(calls[d], l)
    BY <2>1 DEF BareOK
  <2>3. calls[d].holder # calls[c].holder
    BY <1>2, <2>2 DEF Alone
  <2>4. \A l \in Locks : Will(calls[d], l)
    BY <2>1, <2>2, <2>3, SparedHolds DEF Will
  <2>5. Alone(d)'
    BY <1>0, <2>1, <2>2, <2>3 DEF Alone
  <2>6. Bare(calls[d])'
    BY <2>1, <2>2 DEF Bare, Apart, Booked
  <2>7. (\A l \in Locks : Holds(calls[d], l))'
    BY <2>1, <2>4 DEF Holds, Will, StuckAt, Booked
  <2> QED BY <2>5, <2>6, <2>7
<1> QED BY <1>1, <1>2

(* A cascade begins.                                                         *)
LEMMA BareBegins ==
  ASSUME IInv, CallersOK, CallsOK, BareOK, NEW c \in Calls, NEW call \in CallRow, CallerOK(call),
         call.got = << >>, NEW bare \in BOOLEAN, Begin(c, call, bare),
         bare => call.op = "acquire" /\ ComesBare(c, call)
  PROVE  BareOK'
<1> SUFFICES ASSUME NEW d \in Calls, calls'[d] # None, calls'[d].bare
             PROVE  (Bare(calls[d]) /\ Alone(d) /\ \A l \in Locks : Holds(calls[d], l))'
  BY DEF BareOK
<1>1. /\ locks' = locks /\ queue' = queue /\ \A l \in Locks : Waiting(l)' = Waiting(l)
      /\ calls[c] = None /\ calls'[c] = [call EXCEPT !.bare = bare]
      /\ \A e \in Calls \ {c} :
           calls'[e] = IF calls[e] # None /\ calls[e].holder = call.holder
                       THEN [calls[e] EXCEPT !.bare = FALSE] ELSE calls[e]
  <2>1. UNCHANGED <<locks, queue>>
    BY Begun
  <2> QED BY <2>1, Begun DEF Waiting
<1> DEFINE r == [call EXCEPT !.bare = bare]
<1>2. r.holder = call.holder /\ r.op = call.op /\ r.reentrant = call.reentrant
      /\ r.todo = call.todo /\ r.got = call.got /\ r.bare = bare
  BY DEF CallRow
<1>3. CASE d = c
  <2>1. bare /\ call.op = "acquire" /\ ComesBare(c, call)
    BY <1>1, <1>2, <1>3
  <2>a. DOMAIN r.got = {}
    BY <1>2
  <2>2. \A l : ~ Booked(r, l)
    BY <2>a DEF Booked
  <2>b. Apart(r)
    BY <1>2, <2>1, <2>2 DEF Apart, ComesBare
  <2>3. Bare(r)
    <3> HIDE DEF r
    <3> QED BY <1>2, <2>1, <2>a, <2>b DEF Bare
  <2>4. \A l \in Locks : locks[l].holder # r.holder /\ r.holder \notin Waiting(l)
    BY <1>2, <2>1 DEF ComesBare
  <2>5. ASSUME NEW e \in Calls \ {c}, calls'[e] # None PROVE calls'[e].holder # call.holder
    <3>1. calls[e] # None /\ (calls'[e] = calls[e] \/ calls[e].holder = call.holder)
      BY <1>1, <2>5
    <3>2. calls[e].holder # call.holder
      BY <2>1, <3>1 DEF ComesBare, Others
    <3> QED BY <3>1, <3>2
  <2>6. calls'[c] = r
    BY <1>1
  <2> HIDE DEF r
  <2>7. Alone(c)'
    BY <1>2, <2>5, <2>6 DEF Alone
  <2>8. Bare(calls[c])'
    BY <2>3, <2>6 DEF Bare, Apart, Booked
  <2>9. (\A l \in Locks : Holds(calls[c], l))'
    BY <1>1, <2>4, <2>6 DEF Holds
  <2> QED BY <1>3, <2>7, <2>8, <2>9
<1>4. CASE d # c
  <2>1. calls[d] # None /\ calls[d] \in CallRow
    BY <1>1, <1>4 DEF CallsOK
  <2>2. calls[d].holder # call.holder /\ calls'[d] = calls[d]
    <3>1. [calls[d] EXCEPT !.bare = FALSE].bare = FALSE
      BY <2>1 DEF CallRow
    <3> QED BY <1>1, <1>4, <2>1, <3>1
  <2>3. Bare(calls[d]) /\ Alone(d) /\ \A l \in Locks : Holds(calls[d], l)
    BY <2>1, <2>2 DEF BareOK
  <2>4. ASSUME NEW e \in Calls \ {d}, calls'[e] # None PROVE calls'[e].holder # calls[d].holder
    <3>1. CASE e = c
      BY <1>1, <1>2, <2>2, <3>1
    <3>2. CASE e # c
      <4>1. calls[e] # None
        BY <1>1, <2>4, <3>2
      <4>2. calls[e].holder # calls[d].holder /\ calls[e] \in CallRow
        BY <2>3, <4>1 DEF Alone, CallsOK
      <4>3. [calls[e] EXCEPT !.bare = FALSE].holder = calls[e].holder
        BY <4>2 DEF CallRow
      <4> QED BY <1>1, <3>2, <4>2, <4>3
    <3> QED BY <3>1, <3>2
  <2>5. Alone(d)'
    BY <2>2, <2>4 DEF Alone
  <2>6. Bare(calls[d])'
    BY <2>2, <2>3 DEF Bare, Apart, Booked
  <2>7. (\A l \in Locks : Holds(calls[d], l))'
    BY <1>1, <2>2, <2>3 DEF Holds, StuckAt, Booked
  <2> QED BY <2>5, <2>6, <2>7
<1> QED BY <1>3, <1>4

(* Nothing happens to the locks.                                             *)
LEMMA StillSpares ==
  ASSUME UNCHANGED <<locks, queue>>
  PROVE  \A h : Spared(h)
BY DEF Spared, Keeps, Waiting

(* What a cascade booked last, and what is left when it is undone.           *)
LEMMA LastBooked ==
  ASSUME NEW got \in Seq(ItemRow), got # << >>
  PROVE  /\ Len(got) \in DOMAIN got /\ Last(got) = got[Len(got)] /\ Last(got) \in ItemRow
         /\ DOMAIN Front(got) = 1 .. (Len(got) - 1) /\ DOMAIN got = 1 .. Len(got)
         /\ \A i \in DOMAIN Front(got) : Front(got)[i] = got[i]
<1>1. Len(got) \in Nat \ {0} /\ DOMAIN got = 1 .. Len(got)
  BY LenProperties, EmptySeq
<1>2. got[Len(got)] \in ItemRow
  BY <1>1, ElementOfSeq
<1>3. Front(got) = SubSeq(got, 1, Len(got) - 1)
  BY DEF Front
<1>4. /\ DOMAIN SubSeq(got, 1, Len(got) - 1) = 1 .. (Len(got) - 1)
      /\ \A i \in 1 .. (Len(got) - 1) : SubSeq(got, 1, Len(got) - 1)[i] = got[i]
  BY <1>1
<1> QED BY <1>1, <1>2, <1>3, <1>4 DEF Last

(* A caller who came with nothing asks for the next lock.                    *)
LEMMA BareAcquires ==
  ASSUME IInv, CallersOK, CallsOK, BareOK, NEW c \in Calls, AcquireNext(c)
  PROVE  BareOK'
<1> DEFINE r == calls[c]
           n == Head(r.todo)
           l0 == LockOf[n]
<1>0. /\ r # None /\ r.op = "acquire" /\ r.todo # << >> /\ r \in CallRow /\ CallerOK(r)
      /\ r.holder \in Holders /\ r.reentrant \in BOOLEAN
  BY DEF AcquireNext, CallsOK, CallersOK, CallerOK
<1>1. PICK answer \in {"granted", "rejected", "queued", "refused"} :
        /\ Acquire(r.holder, l0, r.reentrant, answer)
        /\ calls' = IF answer \in {"granted", "rejected"}
                    THEN [calls EXCEPT ![c].op = IF n \in Costly THEN "tokens" ELSE @,
                                       ![c].todo = Tail(@),
                                       ![c].got = Append(@, Item(n, answer))]
                    ELSE [calls EXCEPT ![c].op = "rollback"]
  BY DEF AcquireNext
<1>2. \A h \in Holders : h # r.holder => Spared(h)
  BY <1>0, <1>1, OthersSpare
<1>3. /\ Len(r.todo) \in Nat \ {0} /\ DOMAIN r.todo = 1 .. Len(r.todo) /\ n = r.todo[1] /\ n \in Nodes
      /\ Len(Tail(r.todo)) = Len(r.todo) - 1 /\ DOMAIN Tail(r.todo) = 1 .. (Len(r.todo) - 1)
      /\ \A i \in 1 .. (Len(r.todo) - 1) : Tail(r.todo)[i] = r.todo[i + 1]
  <2>1. r.todo \in Seq(Nodes) /\ r.todo # << >>
    BY <1>0 DEF CallRow
  <2> DEFINE t == r.todo
  <2> HIDE DEF t
  <2>2. t \in Seq(Nodes) /\ t # << >>
    BY <2>1 DEF t
  <2>3. /\ Len(t) \in Nat \ {0} /\ DOMAIN t = 1 .. Len(t) /\ Head(t) = t[1] /\ Head(t) \in Nodes
        /\ Len(Tail(t)) = Len(t) - 1 /\ DOMAIN Tail(t) = 1 .. (Len(t) - 1)
        /\ \A i \in 1 .. (Len(t) - 1) : Tail(t)[i] = t[i + 1]
    BY <2>2, HeadTailProperties, LenProperties, EmptySeq
  <2> QED BY <2>3 DEF t
<1>4. l0 \in Locks
  BY <1>3, TopologyAssumption DEF TopologyAssumption
<1>5. r.bare => /\ Bare(r) /\ \A l \in Locks : Holds(r, l)
                /\ \A l \in Locks :
                     /\ ~ StuckAt(r, l) /\ r.holder \notin Waiting(l)
                     /\ locks[l].holder = r.holder => locks[l].count = 1 /\ Booked(r, l)
  BY <1>0 DEF BareOK, Holds, StuckAt
<1>6. CASE answer \in {"granted", "rejected"}
  <2> DEFINE op == IF n \in Costly THEN "tokens" ELSE r.op
             todo == Tail(r.todo)
             item == Item(n, answer)
             got == Append(r.got, item)
             new == [r EXCEPT !.op = op, !.todo = todo, !.got = got]
  <2>1. calls' = [calls EXCEPT ![c] = new]
    BY <1>1, <1>6
  <2>2. /\ new.holder = r.holder /\ new.bare = r.bare /\ new.op = op /\ new.todo = todo
        /\ new.got = got /\ new.reentrant = r.reentrant /\ op \in {"acquire", "tokens"}
    <3>1. op \in {"acquire", "tokens"}
      BY <1>0
    <3> HIDE DEF op, todo, got
    <3> QED BY <1>0, <3>1 DEF CallRow
  <2>3. r.got \in Seq(ItemRow)
    BY <1>0 DEF CallRow, ItemRow
  <2> DEFINE g == r.got
  <2>4. /\ Len(g) \in Nat /\ DOMAIN g = 1 .. Len(g) /\ DOMAIN got = 1 .. (Len(g) + 1)
        /\ \A i \in 1 .. Len(g) : got[i] = g[i]
        /\ got[Len(g) + 1] = item
    <3> HIDE DEF g, item
    <3>1. g \in Seq(ItemRow)
      BY <2>3 DEF g
    <3>2. item \in ItemRow
      BY <1>3 DEF item, Item, ItemRow
    <3>3. Append(g, item) \in Seq(ItemRow) /\ Len(Append(g, item)) = Len(g) + 1
      BY <3>1, <3>2, AppendProperties
    <3> QED BY <3>1, <3>2, <3>3, AppendProperties, LenProperties DEF g
  <2>5. item.node = n /\ (answer = "granted" /\ locks'[l0].count <= 1 => ~ item.again)
        /\ (answer # "granted" => ~ item.again)
    <3>1. item.node = n /\ item.again = (answer = "granted" /\ locks'[l0].count > 1)
      BY DEF Item
    <3>2. answer # "granted" => ~ item.again
      BY <3>1
    <3>3. locks'[l0].count <= 1 => ~ (locks'[l0].count > 1)
      <4>1. locks' \in [Locks -> ServiceRow]
        <5>1. [ServiceNext]_<<locks, queue>>
          BY <1>0, <1>1, CallIsServiceStep
        <5> QED BY <5>1, ServiceStep DEF IInv
      <4>2. locks'[l0].count \in Nat
        BY <1>4, <4>1 DEF ServiceRow
      <4> QED BY <4>2
    <3> QED BY <3>1, <3>2, <3>3
  <2> HIDE DEF item
  <2>6. \A l : Booked(new, l) <=> Booked(r, l) \/ l = l0
    <3>1. ASSUME NEW l, Booked(r, l) PROVE Booked(new, l)
      <4>1. PICK i \in DOMAIN g : LockOf[g[i].node] = l
        BY <3>1 DEF Booked
      <4>2. i \in DOMAIN got /\ got[i] = g[i]
        BY <2>4, <4>1
      <4> HIDE DEF new, got, g
      <4> QED BY <2>2, <4>1, <4>2 DEF Booked
    <3>2. Booked(new, l0)
      <4>1. Len(g) + 1 \in DOMAIN got /\ got[Len(g) + 1].node = n
        BY <2>4, <2>5
      <4> HIDE DEF new, got, g
      <4> QED BY <2>2, <4>1 DEF Booked
    <3>3. ASSUME NEW l, Booked(new, l) PROVE Booked(r, l) \/ l = l0
      <4> HIDE DEF new, got
      <4>1. PICK i \in DOMAIN got : LockOf[got[i].node] = l
        BY <2>2, <3>3 DEF Booked
      <4>2. CASE i \in 1 .. Len(g)
        BY <2>4, <4>1, <4>2 DEF Booked
      <4>3. CASE i = Len(g) + 1
        BY <2>4, <2>5, <4>1, <4>3
      <4> QED BY <2>4, <4>1, <4>2, <4>3
    <3> QED BY <3>1, <3>2, <3>3
  <2>7. ASSUME r.bare PROVE Apart(new)
    <3>1. Apart(r)
      BY <1>5, <2>7 DEF Bare
    <3> SUFFICES ASSUME new.reentrant
                 PROVE  /\ \A i, j \in DOMAIN todo : LockOf[todo[i]] = LockOf[todo[j]] => i = j
                        /\ \A i \in DOMAIN todo : ~ Booked(new, LockOf[todo[i]])
      BY <2>2 DEF Apart
    <3>2. /\ \A i, j \in DOMAIN r.todo : LockOf[r.todo[i]] = LockOf[r.todo[j]] => i = j
          /\ \A i \in DOMAIN r.todo : ~ Booked(r, LockOf[r.todo[i]])
      BY <1>0, <2>2, <3>1 DEF Apart
    <3>3. \A i \in DOMAIN todo : i \in Nat /\ i + 1 \in DOMAIN r.todo /\ i + 1 # 1 /\ todo[i] = r.todo[i + 1]
      BY <1>3
    <3>4. 1 \in DOMAIN r.todo
      BY <1>3
    <3> HIDE DEF todo
    <3>5. \A i, j \in DOMAIN todo : LockOf[todo[i]] = LockOf[todo[j]] => i = j
      <4> SUFFICES ASSUME NEW i \in DOMAIN todo, NEW j \in DOMAIN todo,
                          LockOf[todo[i]] = LockOf[todo[j]]
                   PROVE  i = j
        OBVIOUS
      <4>1. i + 1 = j + 1
        BY <3>2, <3>3
      <4> QED BY <3>3, <4>1
    <3>6. \A i \in DOMAIN todo : LockOf[todo[i]] # l0
      BY <1>3, <3>2, <3>3, <3>4
    <3>7. \A i \in DOMAIN todo : ~ Booked(r, LockOf[todo[i]])
      BY <3>2, <3>3
    <3> HIDE DEF new
    <3> QED BY <2>6, <3>5, <3>6, <3>7
  <2>8. ASSUME r.bare
        PROVE  /\ ~ item.again
               /\ \A l \in Locks : locks'[l].holder = r.holder => locks'[l].count = 1 /\ (Booked(r, l) \/ l = l0)
               /\ \A l \in Locks : r.holder \notin Waiting(l)'
    <3>1. CASE UNCHANGED <<locks, queue>> /\ answer = "rejected"
      BY <1>5, <2>5, <2>8, <3>1 DEF Waiting
    <3>2. CASE answer = "granted" /\ ~ Held(l0) /\ locks' = [locks EXCEPT ![l0] = HeldLock(r.holder, r.reentrant)] /\ queue' = queue
      <4>1. locks'[l0].count = 1 /\ \A l \in Locks : l # l0 => locks'[l] = locks[l]
        BY <1>4, <3>2 DEF IInv, HeldLock
      <4>2. \A l \in Locks : Waiting(l)' = Waiting(l)
        BY <3>2 DEF Waiting
      <4> QED BY <1>5, <2>5, <2>8, <3>2, <4>1, <4>2
    <3>3. CASE locks[l0].holder = r.holder /\ r.reentrant
      <4>1. Booked(r, l0)
        BY <1>4, <1>5, <2>8, <3>3
      <4>2. ~ Booked(r, LockOf[r.todo[1]])
        BY <1>0, <1>3, <1>5, <2>8, <3>3 DEF Bare, Apart
      <4> QED BY <1>3, <4>1, <4>2
    <3> QED BY <1>1, <1>6, <3>1, <3>2, <3>3 DEF Acquire, Granted, Refused
  <2>9. r.bare => Bare(new) /\ \A l \in Locks : Will(new, l)
    <3> SUFFICES ASSUME r.bare PROVE Bare(new) /\ \A l \in Locks : Will(new, l)
      OBVIOUS
    <3>1. \A i \in DOMAIN g : ~ g[i].again
      BY <1>5 DEF Bare
    <3>2. \A i \in DOMAIN got : ~ got[i].again
      BY <2>4, <2>8, <3>1
    <3> HIDE DEF new, got, todo, op
    <3>3. Bare(new)
      BY <2>2, <2>7, <3>2 DEF Bare
    <3>4. \A l \in Locks : Will(new, l)
      BY <2>2, <2>6, <2>8 DEF Will
    <3> QED BY <3>3, <3>4
  <2> HIDE DEF new
  <2> QED BY <1>0, <1>2, <2>1, <2>2, <2>9, BareGoesOn
<1>7. CASE answer \in {"queued", "refused"}
  <2> DEFINE new == [r EXCEPT !.op = "rollback"]
  <2>1. calls' = [calls EXCEPT ![c] = new]
    BY <1>1, <1>7
  <2>2. /\ new.holder = r.holder /\ new.bare = r.bare /\ new.op = "rollback" /\ new.todo = r.todo
        /\ new.got = r.got
    BY <1>0 DEF CallRow
  <2>3. locks' = locks /\ \A l \in Locks : r.holder \in Waiting(l)' => r.holder \in Waiting(l) \/ l = l0
    <3>1. CASE Queued(r.holder, l0, r.reentrant)
      <4>1. locks' = locks /\ Promise!Join(r.holder, l0)
        BY <1>0, <1>4, <3>1, QueuedStep DEF Queued
      <4> QED BY <4>1 DEF Promise!Join
    <3>2. CASE Refused
      BY <3>2 DEF Refused, Waiting
    <3> QED BY <1>1, <1>7, <3>1, <3>2 DEF Acquire
  <2> HIDE DEF new
  <2>4. \A l : StuckAt(new, l) <=> l = l0
    BY <1>0, <2>2 DEF StuckAt
  <2>5. \A l : Booked(new, l) <=> Booked(r, l)
    BY <2>2 DEF Booked
  <2>6. r.bare => Bare(new) /\ \A l \in Locks : Will(new, l)
    <3> SUFFICES ASSUME r.bare PROVE Bare(new) /\ \A l \in Locks : Will(new, l)
      OBVIOUS
    <3>1. Bare(new)
      BY <1>5, <2>2 DEF Bare, Apart
    <3>2. \A l \in Locks : Will(new, l)
      BY <1>5, <2>2, <2>3, <2>4, <2>5 DEF Will
    <3> QED BY <3>1, <3>2
  <2> QED BY <1>0, <1>2, <2>1, <2>2, <2>6, BareGoesOn
<1> QED BY <1>6, <1>7

(* A caller who came with nothing is undone by one more item: he loses that  *)
(* lock if he still has it.                                                  *)
LEMMA BareIsUndone ==
  ASSUME IInv, CallersOK, CallsOK, BareOK, NEW c \in Calls, RollbackNext(c)
  PROVE  BareOK'
<1> DEFINE r == calls[c]
           item == Last(r.got)
           l0 == LockOf[item.node]
           got == Front(r.got)
           new == [r EXCEPT !.got = got]
<1>0. /\ r # None /\ r.op = "rollback" /\ r.got # << >> /\ r \in CallRow /\ CallerOK(r)
      /\ r.holder \in Holders /\ r.got \in Seq(ItemRow)
  BY DEF RollbackNext, CallsOK, CallersOK, CallerOK, CallRow, ItemRow
<1>1. calls' = [calls EXCEPT ![c] = new]
  BY DEF RollbackNext
<1>2. UNCHANGED <<locks, queue>> \/ (~ item.again /\ Release(r.holder, l0))
  BY DEF RollbackNext
<1>2a. ~ item.again => Release(r.holder, l0)
  BY DEF RollbackNext
<1>3. /\ Len(r.got) \in DOMAIN r.got /\ item = r.got[Len(r.got)] /\ item \in ItemRow
      /\ DOMAIN got = 1 .. (Len(r.got) - 1) /\ DOMAIN r.got = 1 .. Len(r.got)
      /\ \A i \in DOMAIN got : got[i] = r.got[i]
  <2> DEFINE g == r.got
  <2>1. g \in Seq(ItemRow) /\ g # << >>
    BY <1>0
  <2> HIDE DEF g
  <2>2. /\ Len(g) \in DOMAIN g /\ Last(g) = g[Len(g)] /\ Last(g) \in ItemRow
        /\ DOMAIN Front(g) = 1 .. (Len(g) - 1) /\ DOMAIN g = 1 .. Len(g)
        /\ \A i \in DOMAIN Front(g) : Front(g)[i] = g[i]
    BY <2>1, LastBooked
  <2> QED BY <2>2 DEF g
<1>4. l0 \in Locks
  BY <1>3, TopologyAssumption DEF TopologyAssumption, ItemRow
<1>5. /\ new.holder = r.holder /\ new.bare = r.bare /\ new.op = r.op /\ new.todo = r.todo
      /\ new.got = got
  <2> HIDE DEF got
  <2> QED BY <1>0 DEF CallRow
<1>6. \A h \in Holders : h # r.holder => Spared(h)
  BY <1>0, <1>2, StillSpares, OthersSpare
<1>7. ASSUME NEW l, Booked(r, l), l # l0 PROVE Booked(new, l)
  <2>1. PICK i \in DOMAIN r.got : LockOf[r.got[i].node] = l
    BY <1>7 DEF Booked
  <2>2. i # Len(r.got)
    BY <1>3, <1>7, <2>1
  <2>3. i \in DOMAIN got /\ got[i] = r.got[i]
    BY <1>3, <2>1, <2>2
  <2> HIDE DEF new, got
  <2> QED BY <1>5, <2>1, <2>3 DEF Booked
<1>8. ASSUME r.bare PROVE Bare(new) /\ \A l \in Locks : Will(new, l)
  <2>1. Bare(r) /\ \A l \in Locks : Holds(r, l)
    BY <1>0, <1>8 DEF BareOK
  <2>2. \A i \in DOMAIN got : ~ got[i].again
    BY <1>3, <2>1 DEF Bare
  <2>3. Release(r.holder, l0)
    BY <1>2a, <1>3, <2>1 DEF Bare
  <2>4. Spared(r.holder) /\ locks'[l0].holder # r.holder
    <3>1. CASE locks[l0].holder # r.holder
      <4>1. UNCHANGED <<locks, queue>>
        BY <2>3, <3>1 DEF Release
      <4> QED BY <3>1, <4>1, StillSpares
    <3>2. CASE locks[l0].holder = r.holder
      <4>1. locks[l0].count = 1
        BY <1>4, <2>1, <3>2 DEF Holds
      <4>2. Lose({l0})
        BY <2>3, <3>2, <4>1 DEF Release
      <4> HIDE DEF r, l0
      <4> QED BY <1>0, <1>4, <3>2, <4>2, LoseSpares, LoseLetsGo
    <3> QED BY <3>1, <3>2
  <2>5. \A l \in Locks :
          /\ locks'[l].holder = r.holder => locks'[l].count = 1 /\ (StuckAt(r, l) \/ Booked(r, l))
          /\ r.holder \in Waiting(l)' => StuckAt(r, l)
    BY <2>1, <2>4, SparedHolds
  <2>5a. ASSUME NEW l \in Locks
         PROVE  /\ locks'[l].holder = r.holder => locks'[l].count = 1 /\ (StuckAt(r, l) \/ (l # l0 /\ Booked(r, l)))
                /\ r.holder \in Waiting(l)' => StuckAt(r, l)
    <3>1. CASE l = l0
      BY <2>4, <2>5, <3>1
    <3>2. CASE l # l0
      BY <2>5, <3>2
    <3> QED BY <3>1, <3>2
  <2>6. \A l : StuckAt(new, l) <=> StuckAt(r, l)
    <3> HIDE DEF new, r
    <3> QED BY <1>5 DEF StuckAt
  <2>7. \A l : l # l0 /\ Booked(r, l) => Booked(new, l)
    BY <1>7
  <2> HIDE DEF new, got, l0, item, r
  <2>8. Bare(new)
    BY <1>0, <1>5, <2>1, <2>2 DEF Bare, Apart
  <2>9. ASSUME NEW l \in Locks PROVE Will(new, l)
    BY <1>5, <2>5a, <2>6, <2>7, <2>9 DEF Will
  <2> QED BY <2>8, <2>9
<1> HIDE DEF new
<1> QED BY <1>0, <1>1, <1>5, <1>6, <1>8, BareGoesOn

(* Whatever happens, it stays so.                                            *)
LEMMA BareStays ==
  ASSUME IInv, CallersOK, CallsOK, EdgesOK, BareOK, [Next]_vars
  PROVE  BareOK'
<1>4. ASSUME NEW c \in Calls, NEW n \in Nodes, NEW h \in Holders,
             \/ \E re \in Modes : CascadeAcquire(c, n, h, re)
             \/ \E force \in BOOLEAN : CascadeRelease(c, n, h, force)
      PROVE  BareOK'
  BY <1>4, Begins, BareBegins
<1>5. ASSUME NEW c \in Calls, CascadeStep(c) PROVE BareOK'
  <2> DEFINE r == calls[c]
  <2>1. r # None /\ r \in CallRow /\ r.holder \in Holders
    BY <1>5 DEF CascadeStep, AcquireNext, ConsumeTokens, RollbackNext, CheckChild, ReleaseNext, Finish,
                CallsOK, CallersOK, CallerOK
  <2>2. r.bare => Bare(r) /\ \A l \in Locks : Holds(r, l)
    BY <2>1 DEF BareOK
  <2>3. CASE AcquireNext(c)
    BY <2>3, BareAcquires
  <2>4. CASE RollbackNext(c)
    BY <2>4, BareIsUndone
  <2>5. CASE ConsumeTokens(c)
    <3>1. PICK op \in {"acquire", "rollback"} : calls' = [calls EXCEPT ![c] = [r EXCEPT !.op = op]]
      BY <2>5 DEF ConsumeTokens
    <3> DEFINE new == [r EXCEPT !.op = op]
    <3>2. /\ new.holder = r.holder /\ new.bare = r.bare /\ new.op = op /\ new.todo = r.todo
          /\ new.got = r.got /\ new.reentrant = r.reentrant
      BY <2>1 DEF CallRow
    <3>3. UNCHANGED <<locks, queue>> /\ r.op = "tokens"
      BY <2>5 DEF ConsumeTokens
    <3>4. \A h : Spared(h)
      BY <3>3, StillSpares
    <3> HIDE DEF new
    <3>5. ASSUME r.bare PROVE Bare(new) /\ \A l \in Locks : Will(new, l)
      <4>1. Bare(new)
        BY <2>2, <3>2, <3>3, <3>5 DEF Bare, Apart, Booked
      <4>2. \A l \in Locks : ~ StuckAt(r, l)
        BY <3>3 DEF StuckAt
      <4>3. \A l \in Locks : locks'[l] = locks[l] /\ Waiting(l)' = Waiting(l)
        BY <3>3 DEF Waiting
      <4>4. \A l \in Locks : Will(new, l)
        BY <2>2, <3>2, <3>5, <4>2, <4>3 DEF Will, Holds, Booked
      <4> QED BY <4>1, <4>4
    <3>6. calls' = [calls EXCEPT ![c] = new]
      BY <3>1 DEF new
    <3> QED BY <2>1, <3>2, <3>4, <3>5, <3>6, BareGoesOn
  <2>6. CASE CheckChild(c) \/ ReleaseNext(c)
    <3>1. r.op \in {"check", "release"}
      BY <2>6 DEF CheckChild, ReleaseNext
    <3>2. ~ r.bare
      BY <2>2, <3>1 DEF Bare
    <3>3. PICK new : /\ calls' = [calls EXCEPT ![c] = new]
                     /\ new = None \/ (new.holder = r.holder /\ new.bare = r.bare)
      <4>1. \/ \E x : calls' = [calls EXCEPT ![c] = [r EXCEPT !.op = "release", !.todo = x]]
            \/ calls' = [calls EXCEPT ![c] = None]
            \/ \E x : calls' = [calls EXCEPT ![c] = [r EXCEPT !.todo = x]]
        BY <2>6 DEF CheckChild, ReleaseNext
      <4>2. ASSUME NEW x
            PROVE  /\ [r EXCEPT !.todo = x].holder = r.holder /\ [r EXCEPT !.todo = x].bare = r.bare
                   /\ [r EXCEPT !.op = "release", !.todo = x].holder = r.holder
                   /\ [r EXCEPT !.op = "release", !.todo = x].bare = r.bare
        BY <2>1 DEF CallRow
      <4> HIDE DEF r
      <4>3. CASE calls' = [calls EXCEPT ![c] = None]
        BY <4>3
      <4>4. CASE \E x : calls' = [calls EXCEPT ![c] = [r EXCEPT !.op = "release", !.todo = x]]
        <5>1. PICK x : calls' = [calls EXCEPT ![c] = [r EXCEPT !.op = "release", !.todo = x]]
          BY <4>4
        <5> QED BY <4>2, <5>1
      <4>5. CASE \E x : calls' = [calls EXCEPT ![c] = [r EXCEPT !.todo = x]]
        <5>1. PICK x : calls' = [calls EXCEPT ![c] = [r EXCEPT !.todo = x]]
          BY <4>5
        <5> QED BY <4>2, <5>1
      <4> QED BY <4>1, <4>3, <4>4, <4>5
    <3>4. \A h \in Holders : h # r.holder => Spared(h)
      BY <2>1, <2>6, StillSpares, OthersSpare DEF CheckChild, ReleaseNext
    <3> QED BY <2>1, <3>2, <3>3, <3>4, BareGoesOn
  <2>7. CASE Finish(c)
    <3>1. calls' = [calls EXCEPT ![c] = None] /\ \A h : Spared(h)
      BY <2>7, StillSpares DEF Finish
    <3> QED BY <2>1, <3>1, BareGoesOn
  <2> QED BY <1>5, <2>3, <2>4, <2>5, <2>6, <2>7 DEF CascadeStep
<1>6. CASE Restart
  BY <1>6 DEF Restart, BareOK
<1>7. CASE GraphStep \/ LocksMove \/ UNCHANGED vars
  <2>1. calls' = calls
    BY <1>7 DEF GraphStep, DeclareEdge, RemoveEdge, LocksMove, vars
  <2>2. \A h \in Holders : Spared(h)
    <3>1. \A l \in Locks : {l} \in SUBSET Locks
      OBVIOUS
    <3> QED BY <1>7, <3>1, StillSpares, LoseSpares, TimeOutSpares
            DEF GraphStep, DeclareEdge, RemoveEdge, LocksMove, vars
  <2> QED BY <2>1, <2>2, BareStaysStill
<1> QED BY <1>4, <1>5, <1>6, <1>7 DEF Next

(* A caller who came with nothing has at any time only what his cascade has  *)
(* booked and not undone, or the lock it was queued for when the cascade     *)
(* gave up (topology/manager.go:357 and :476), asked for reentrantly or not, *)
(* whatever edges, leases, other callers and restarts do meanwhile.          *)
THEOREM WithNothingLeft == Spec => []LeavesWithNothing
<1> DEFINE Inv == CallersOK /\ CallsOK /\ EdgesOK /\ BareOK
<1>1. Init => Inv
  BY NoEdges DEF Init, CallersOK, CallsOK, BareOK
<1>2. IInv /\ Inv /\ [Next]_vars => Inv'
  BY CallersStay, CallsStay, EdgesStay, BareStays
<1>3. Inv => LeavesWithNothing
  BY DEF BareOK, Holds, Booked, LeavesWithNothing
<1> QED BY <1>1, <1>2, <1>3, CascadesUseTheService, PTL DEF Spec

=============================================================================
