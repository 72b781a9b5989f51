---------------------------- MODULE Orchestration ----------------------------
(***************************************************************************)
(* Transactions over locks and tokens (internal/orchestration/manager.go). *)
(* CreateTx, ReleaseTx and timeoutTx hold Manager.mu from their first step *)
(* to their last, so one call at a time is in progress; the lock manager   *)
(* and the rate limiter have mutexes of their own, so whatever moves locks *)
(* or takes them for somebody else interleaves with the steps of a call.   *)
(*                                                                         *)
(* The rate limiter is one caller of a window longer than the run: used    *)
(* tokens only come back when they are returned.                           *)
(***************************************************************************)
EXTENDS LockService, SequencesExt

CONSTANTS
  Txs,           \* ids of transactions, uuids in the code
  LockLists,     \* the lock lists clients ask for, as CreateTx sorts them
  TokenLists,    \* the token amounts they ask for
  Quota,         \* tokens of the window
  Saves,         \* outcomes of AddTxLock and AddTxToken, a subset of BOOLEAN
  None,          \* Manager.mu is free
  MaxRestarts    \* bound on the restarts of the process

(* The call that holds Manager.mu: what it has to do, and what it has done.  *)
CallRow ==
  [op : {"create", "rollback", "settle", "release", "timeout"}, tx : Txs,
   todo : Seq(Locks), wants : Seq(Nat), got : Seq(Locks), granted : Seq(Nat), queued : BOOLEAN]

ASSUME OrchestrationAssumption ==
  /\ LockLists \subseteq Seq(Locks)
  /\ TokenLists \subseteq Seq(Nat)
  /\ Quota \in Nat
  /\ Saves \subseteq BOOLEAN
  /\ MaxRestarts \in Nat
  /\ IsFiniteSet(Txs) /\ None \notin CallRow

VARIABLES
  txs,           \* orch_txs with the rows of orch_tx_locks and orch_tx_tokens
  timers,        \* the timer of each transaction; "fired": timeoutTx waits for Manager.mu
  used,          \* tokens used in the window
  call,          \* the call that holds Manager.mu
  restarts

vars == <<locks, queue, txs, timers, used, call, restarts>>

NoTx == [status |-> "none", holder |-> NoHolder, locks |-> << >>, tokens |-> << >>]
Committed(t) == txs[t].status = "committed"

-----------------------------------------------------------------------------
(* CreateTx *)

CreateTx(t, h, names, amounts) ==
  /\ call = None /\ txs[t] = NoTx
  /\ txs' = [txs EXCEPT ![t] = [NoTx EXCEPT !.status = "created", !.holder = h]]
  /\ call' = [op |-> "create", tx |-> t, todo |-> names, wants |-> amounts,
              got |-> << >>, granted |-> << >>, queued |-> FALSE]
  /\ UNCHANGED <<locks, queue, timers, used, restarts>>

Creating == call # None /\ call.op = "create"
Caller == txs[call.tx].holder

(* A lock that cannot be had, or whose row cannot be written, ends the call. *)
AcquireNext ==
  /\ Creating /\ call.todo # << >>
  /\ \E answer \in {"granted", "queued", "refused", "rejected"}, saved \in Saves :
       /\ Acquire(Caller, Head(call.todo), FALSE, answer)
       /\ IF answer = "granted" /\ saved
          THEN /\ txs' = [txs EXCEPT ![call.tx].locks = Append(@, Head(call.todo))]
               /\ call' = [call EXCEPT !.todo = Tail(@), !.got = Append(@, Head(call.todo))]
          ELSE /\ call' = [call EXCEPT !.op = "rollback", !.queued = (answer = "queued")]
               /\ UNCHANGED txs
  /\ UNCHANGED <<timers, used, restarts>>

(* Tokens whose row cannot be written are returned first in the rollback.    *)
RequestNext ==
  /\ Creating /\ call.todo = << >> /\ call.wants # << >>
  /\ LET n == Head(call.wants)
     IN  IF used + n <= Quota
         THEN \E saved \in Saves :
                /\ used' = used + n
                /\ txs' = IF saved THEN [txs EXCEPT ![call.tx].tokens = Append(@, n)] ELSE txs
                /\ call' = [call EXCEPT !.wants = Tail(@), !.granted = Append(@, n),
                                        !.op = IF saved THEN @ ELSE "rollback"]
         ELSE call' = [call EXCEPT !.op = "rollback"] /\ UNCHANGED <<used, txs>>
  /\ UNCHANGED <<locks, queue, timers, restarts>>

Commit ==
  /\ Creating /\ call.todo = << >> /\ call.wants = << >>
  /\ txs' = [txs EXCEPT ![call.tx].status = "committed"]
  /\ timers' = [timers EXCEPT ![call.tx] = "armed"]
  /\ call' = None
  /\ UNCHANGED <<locks, queue, used, restarts>>

(* ReturnTokens never goes below zero.                                       *)
Returned(n) == used' = Max({0, used - n})

RollingBack == call # None /\ call.op = "rollback"

(* Seeded fault: undone from the front, the first token is returned again.   *)
RollbackTokenAgain ==
  /\ RollingBack /\ call.granted # << >>
  /\ Returned(Head(call.granted))
  /\ call' = [call EXCEPT !.granted = Front(@)]
  /\ UNCHANGED <<locks, queue, txs, timers, restarts>>

RollbackToken ==
  /\ RollingBack /\ call.granted # << >>
  /\ Returned(Last(call.granted))
  /\ call' = [call EXCEPT !.granted = Front(@)]
  /\ UNCHANGED <<locks, queue, txs, timers, restarts>>

RollbackLock ==
  /\ RollingBack /\ call.granted = << >> /\ call.got # << >>
  /\ Release(Caller, Last(call.got))
  /\ call' = [call EXCEPT !.got = Front(@)]
  /\ UNCHANGED <<txs, timers, used, restarts>>

(* CancelWaitForHolder, for every lock the holder waits for. *)
RollbackWaits ==
  /\ RollingBack /\ call.granted = << >> /\ call.got = << >>
  /\ CancelWaits(Caller)
  /\ call' = [call EXCEPT !.op = "settle"]
  /\ UNCHANGED <<txs, timers, used, restarts>>

RolledBack ==
  /\ call # None /\ call.op = "settle"
  /\ txs' = [txs EXCEPT ![call.tx].status = "rolled_back"]
  /\ call' = None
  /\ UNCHANGED <<locks, queue, timers, used, restarts>>

-----------------------------------------------------------------------------
(* ReleaseTx and timeoutTx *)

End(op, t, amounts) ==
  call' = [op |-> op, tx |-> t, todo |-> txs[t].locks, wants |-> amounts,
           got |-> << >>, granted |-> << >>, queued |-> FALSE]

ReleaseTx(t) ==
  /\ call = None /\ Committed(t)
  /\ End("release", t, << >>)
  /\ UNCHANGED <<locks, queue, txs, timers, used, restarts>>

TimerFires(t) ==
  /\ timers[t] = "armed"
  /\ timers' = [timers EXCEPT ![t] = "fired"]
  /\ UNCHANGED <<locks, queue, txs, used, call, restarts>>

TimeoutTx(t) ==
  /\ call = None /\ timers[t] = "fired"
  /\ IF Committed(t) THEN End("timeout", t, txs[t].tokens) ELSE UNCHANGED call
  /\ timers' = [timers EXCEPT ![t] = "off"]
  /\ UNCHANGED <<locks, queue, txs, used, restarts>>

Ending == call # None /\ call.op \in {"release", "timeout"}

EndLock ==
  /\ Ending /\ call.todo # << >>
  /\ Release(Caller, Head(call.todo))
  /\ call' = [call EXCEPT !.todo = Tail(@)]
  /\ UNCHANGED <<txs, timers, used, restarts>>

EndToken ==
  /\ Ending /\ call.todo = << >> /\ call.wants # << >>
  /\ Returned(Head(call.wants))
  /\ call' = [call EXCEPT !.wants = Tail(@), !.granted = Append(@, Head(call.wants))]
  /\ UNCHANGED <<locks, queue, txs, timers, restarts>>

(* A goroutine that waits for the mutex cannot be stopped any more. *)
EndTx ==
  /\ Ending /\ call.todo = << >> /\ call.wants = << >>
  /\ txs' = [txs EXCEPT ![call.tx].status = IF call.op = "release" THEN "released" ELSE "timed_out"]
  /\ timers' = [timers EXCEPT ![call.tx] = IF @ = "armed" THEN "off" ELSE @]
  /\ call' = None
  /\ UNCHANGED <<locks, queue, used, restarts>>

-----------------------------------------------------------------------------
(* Callers of the lock manager who are not in a transaction, or are in one   *)
(* and call it themselves; leases and waits that run out.                    *)
Outside ==
  /\ \/ \E h \in Holders, l \in Locks :
          Granted(h, l, FALSE) \/ Queued(h, l, FALSE) \/ (locks[l].holder = h /\ Release(h, l))
     \/ \E l \in Locks : Held(l) /\ Lose({l})
     \/ TimeOutWaits
  /\ UNCHANGED <<txs, timers, used, call, restarts>>

(* rebuildTimersLocked: only committed transactions are looked at.           *)
(* Seeded fault: those that are late are left out.                           *)
RestartForgets ==
  /\ restarts < MaxRestarts
  /\ restarts' = restarts + 1
  /\ call' = None
  /\ \E late \in SUBSET Txs :
       timers' = [t \in Txs |-> IF Committed(t) /\ t \notin late THEN "armed" ELSE "off"]
  /\ UNCHANGED <<locks, queue, txs, used>>

Restart ==
  /\ restarts < MaxRestarts
  /\ restarts' = restarts + 1
  /\ call' = None
  /\ \E late \in SUBSET Txs :
       timers' = [t \in Txs |-> IF ~ Committed(t) THEN "off"
                                ELSE IF t \in late THEN "fired" ELSE "armed"]
  /\ UNCHANGED <<locks, queue, txs, used>>

Init ==
  /\ InitLocks
  /\ txs = [t \in Txs |-> NoTx]
  /\ timers = [t \in Txs |-> "off"]
  /\ used = 0
  /\ call = None
  /\ restarts = 0

Step ==
  \/ AcquireNext \/ RequestNext \/ Commit
  \/ RollbackToken \/ RollbackLock \/ RollbackWaits \/ RolledBack
  \/ EndLock \/ EndToken \/ EndTx

Next ==
  \/ \E t \in Txs :
       \/ \E h \in Holders, names \in LockLists, amounts \in TokenLists :
            CreateTx(t, h, names, amounts)
       \/ ReleaseTx(t) \/ TimerFires(t) \/ TimeoutTx(t)
  \/ Step
  \/ Outside
  \/ Restart

Spec == Init /\ [][Next]_vars

(* The runtime runs timers; a goroutine that waits for the mutex gets it     *)
(* (sync.Mutex, starvation mode); a call that has it goes on.                *)
FairSpec ==
  /\ Spec /\ WF_vars(Step)
  /\ \A t \in Txs : WF_vars(TimerFires(t)) /\ SF_vars(TimeoutTx(t))

-----------------------------------------------------------------------------
Statuses == {"none", "created", "committed", "rolled_back", "released", "timed_out"}

TypeOK ==
  /\ txs \in [Txs -> [status : Statuses, holder : Holders \cup {NoHolder},
                      locks : Seq(Locks), tokens : Seq(Nat)]]
  /\ timers \in [Txs -> {"off", "armed", "fired"}]
  /\ used \in 0 .. Quota
  /\ call # None => call \in CallRow

(* A committed transaction is watched: its timer is armed, or a goroutine is *)
(* about to end it, whatever stops and starts in between.                    *)
CommittedIsWatched ==
  \A t \in Txs : Committed(t) =>
    timers[t] # "off" \/ (call # None /\ call.tx = t /\ call.op = "timeout")

(* Until the process restarts, the tokens used are those of the transactions *)
(* that hold or were released with theirs: a rollback and a time-out return  *)
(* what was taken, once, in whatever order calls, timers and errors come.    *)
Total(amounts) == SumFunction(amounts)
Owed(t) ==
  IF call # None /\ call.tx = t
  THEN IF call.op \in {"create", "rollback", "settle"} THEN Total(call.granted)
       ELSE Total(txs[t].tokens) - Total(call.granted)
  ELSE IF txs[t].status \in {"committed", "released"} THEN Total(txs[t].tokens) ELSE 0
TokensAddUp == restarts = 0 => used = SumFunction([t \in Txs |-> Owed(t)])

(* What the table of transactions says is covered by what else there is: a   *)
(* committed transaction by a timer, the tokens of the open ones by the      *)
(* quota in use.                                                             *)
TransactionsAreSound == TypeOK /\ CommittedIsWatched /\ TokensAddUp

(* What ended stays ended: a timer that fired before the release, or was     *)
(* rebuilt from the table, changes nothing.                                  *)
Ended(t) == txs[t].status \in {"rolled_back", "released", "timed_out"}
EndsOnce == [][\A t \in Txs : Ended(t) => txs'[t] = txs[t]]_vars

(* A transaction that gave up because it "would queue" for a lock does not   *)
(* end with its holder owning that lock.                                     *)
GaveUp == call # None /\ call.op = "rollback" /\ call.queued
GivenUpMeansGivenUp ==
  [][GaveUp /\ RollbackWaits =>
       locks[Head(call.todo)].holder # Caller]_vars

(* Every lock a transaction obtains is written down, or at least put on the  *)
(* list that the rollback works off.                                         *)
Obtains(l) == locks[l].holder # Caller /\ locks'[l].holder = Caller
ObtainedIsRecorded ==
  [][AcquireNext /\ Obtains(Head(call.todo)) => call'.got # call.got]_vars

(* Every committed transaction ends, released by its holder or by the time.  *)
CommittedEnds == \A t \in Txs : Committed(t) ~> Ended(t)

(* A committed transaction ends, in the end and only once.                   *)
EndsOnceAndSurely == EndsOnce /\ CommittedEnds
=============================================================================
