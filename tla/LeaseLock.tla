------------------------------ MODULE LeaseLock ------------------------------
(***************************************************************************)
(* What the lock service promises its callers, without leases, timers,     *)
(* queues or restarts: a lock has one owner at a time, a newcomer gets it  *)
(* only when nobody owns it and nobody waits, and an owner that gives it   *)
(* up, or loses it, is followed by one of those who waited.  LockManager   *)
(* implements this.                                                        *)
(***************************************************************************)
CONSTANTS Locks, Holders, NoHolder

VARIABLES owner, waiters

Init ==
  /\ owner = [l \in Locks |-> NoHolder]
  /\ waiters = [l \in Locks |-> {}]

Idle(l) == owner[l] = NoHolder /\ waiters[l] = {}

(* A newcomer takes some idle locks at once. *)
Take(h, S) ==
  /\ \A l \in S : Idle(l)
  /\ owner' = [l \in Locks |-> IF l \in S THEN h ELSE owner[l]]
  /\ UNCHANGED waiters

(* A caller starts to wait for a lock someone else owns. *)
Join(h, l) ==
  /\ owner[l] # NoHolder /\ owner[l] # h /\ h \notin waiters[l]
  /\ waiters' = [waiters EXCEPT ![l] = @ \cup {h}]
  /\ UNCHANGED owner

(* Waiters give up, each wherever it waits. *)
Leave ==
  /\ \A l \in Locks : waiters'[l] \subseteq waiters[l]
  /\ waiters' \in [Locks -> SUBSET Holders]
  /\ UNCHANGED owner

(* Owners lose their locks.  The next owner of each is one of its waiters;  *)
(* when there is none left, the lock is idle.                               *)
Passed(l) ==
  /\ owner[l] # NoHolder
  /\ \/ /\ owner'[l] \in waiters[l]
        /\ waiters'[l] \subseteq waiters[l] \ {owner'[l]}
     \/ owner'[l] = NoHolder /\ waiters'[l] = {}
Pass(S) ==
  /\ owner' \in [Locks -> Holders \cup {NoHolder}]
  /\ waiters' \in [Locks -> SUBSET Holders]
  /\ \A l \in S : Passed(l)
  /\ \A l \in Locks \ S : owner'[l] = owner[l] /\ waiters'[l] = waiters[l]

Next ==
  \/ \E h \in Holders, S \in SUBSET Locks : Take(h, S)
  \/ \E h \in Holders, l \in Locks : Join(h, l)
  \/ Leave
  \/ \E S \in SUBSET Locks : Pass(S)

Spec == Init /\ [][Next]_<<owner, waiters>>

=============================================================================
