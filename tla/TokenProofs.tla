----------------------------- MODULE TokenProofs -----------------------------
(***************************************************************************)
(* Tokens in use and tokens promised.  First the transactions: a committed *)
(* one is always watched, the tokens in use are those of the transactions  *)
(* that have them, and what ended stays ended: for any locks, callers and  *)
(* transactions, any requests, any quota, and whatever errors the store    *)
(* reports.  Then the rate limiter: nobody uses more than its limit, no    *)
(* policy is overbooked, what is promised stays covered, what is borrowed  *)
(* is lent, and who waits is served in turn: for any callers, policies,    *)
(* algorithms and amounts, through stops and crashes.                      *)
(***************************************************************************)
EXTENDS Orchestration, RateLimit, DataProofs

(***************************** transactions *********************************)

TxRow ==
  [status : Statuses, holder : Holders \cup {NoHolder}, locks : Seq(Locks), tokens : Seq(Nat)]

(* What the call that holds Manager.mu relies on.  A time-out goes through   *)
(* the tokens of its transaction: those returned are before the others.      *)
CallOK ==
  call # None =>
    /\ call.op \in {"create", "rollback", "settle"} => txs[call.tx].status = "created"
    /\ call.op \in {"release", "timeout"} => Committed(call.tx)
    /\ call.op = "create" => txs[call.tx].tokens = call.granted
    /\ call.op = "settle" => call.granted = << >>
    /\ call.op = "release" => call.granted = << >> /\ call.wants = << >>
    /\ call.op = "timeout" => txs[call.tx].tokens = call.granted \o call.wants

IInv ==
  /\ TypeOK /\ restarts \in Nat
  /\ CallOK
  /\ CommittedIsWatched
  /\ TokensAddUp

-----------------------------------------------------------------------------
(* Types, by field. *)
LEMMA CallFacts ==
  ASSUME TypeOK, call # None
  PROVE  /\ call \in CallRow /\ call.tx \in Txs
         /\ call.op \in {"create", "rollback", "settle", "release", "timeout"}
         /\ call.todo \in Seq(Locks) /\ call.got \in Seq(Locks)
         /\ call.wants \in Seq(Nat) /\ call.granted \in Seq(Nat)
         /\ call.queued \in BOOLEAN
BY DEF TypeOK, CallRow

(* The types of the rows of transactions. *)
LEMMA TxFacts ==
  ASSUME TypeOK
  PROVE  /\ txs \in [Txs -> TxRow]
         /\ \A t \in Txs : /\ txs[t].status \in Statuses /\ txs[t].tokens \in Seq(Nat)
                           /\ txs[t].locks \in Seq(Locks)
BY DEF TypeOK, TxRow

(* A sequence that is worked off keeps its type. *)
LEMMA ShorterSequences ==
  ASSUME NEW S, NEW s \in Seq(S), s # << >>
  PROVE  /\ Head(s) \in S /\ Tail(s) \in Seq(S)
         /\ Front(s) \in Seq(S) /\ Last(s) \in S
<1>1. Len(s) \in Nat \ {0} /\ \A i \in 1 .. Len(s) : s[i] \in S
  BY LenProperties, EmptySeq, ElementOfSeq
<1>2. \A i \in 1 .. Len(s) - 1 : s[i] \in S
  BY <1>1
<1>3. Front(s) \in Seq(S)
  BY <1>1, <1>2, SubSeqProperties DEF Front
<1>4. Last(s) \in S
  BY <1>1 DEF Last
<1>5. Head(s) \in S /\ Tail(s) \in Seq(S)
  BY HeadTailProperties
<1> QED BY <1>3, <1>4, <1>5

-----------------------------------------------------------------------------
(* What a transaction owes is a natural number. *)
LEMMA OwedIsNatural ==
  ASSUME TypeOK, CallOK, NEW t \in Txs
  PROVE  Owed(t) \in Nat
<1>1. txs[t].tokens \in Seq(Nat)
  BY TxFacts
<1>2. Total(txs[t].tokens) \in Nat
  BY <1>1, SumOfSequence DEF Total
<1>3. CASE ~ (call # None /\ call.tx = t)
  BY <1>2, <1>3 DEF Owed
<1>4. CASE call # None /\ call.tx = t
  <2>1. /\ call.granted \in Seq(Nat) /\ call.wants \in Seq(Nat)
        /\ call.op \in {"create", "rollback", "settle", "release", "timeout"}
    BY <1>4, CallFacts
  <2>2. Total(call.granted) \in Nat
    BY <2>1, SumOfSequence DEF Total
  <2>3. CASE call.op \in {"create", "rollback", "settle"}
    BY <1>4, <2>2, <2>3 DEF Owed
  <2>4. CASE call.op = "release"
    <3>1. call.granted = << >>
      BY <1>4, <2>4 DEF CallOK
    <3>2. Total(call.granted) = 0
      BY <2>1, <3>1, SumOfSequence DEF Total
    <3> QED BY <1>2, <1>4, <2>4, <3>2 DEF Owed
  <2>5. CASE call.op = "timeout"
    <3>1. txs[t].tokens = call.granted \o call.wants
      BY <1>4, <2>5 DEF CallOK
    <3>2. Total(call.granted) <= Total(txs[t].tokens)
      BY <2>1, <3>1, SumOfFollowing DEF Total
    <3> QED BY <1>2, <1>4, <2>2, <2>5, <3>2 DEF Owed
  <2> QED BY <2>1, <2>3, <2>4, <2>5
<1> QED BY <1>3, <1>4

(* The tokens in use cover what any one transaction owes. *)
LEMMA UsedCovers ==
  ASSUME IInv, restarts = 0, NEW e \in Txs
  PROVE  Owed(e) <= used
<1> DEFINE f == [t \in Txs |-> Owed(t)]
<1>1. IsFiniteSet(Txs) /\ DOMAIN f = Txs /\ f[e] = Owed(e)
  BY OrchestrationAssumption DEF OrchestrationAssumption
<1>2. \A t \in Txs : f[t] \in Nat
  BY OwedIsNatural DEF IInv
<1>3. used = SumFunction(f)
  BY DEF IInv, TokensAddUp
<1> HIDE DEF f
<1>4. f[e] <= SumFunctionOnSet(f, Txs)
  BY <1>1, <1>2, SumOfOne
<1> QED BY <1>1, <1>3, <1>4 DEF SumFunction

(* The books stay balanced when one transaction owes d more than before, and *)
(* d more tokens are in use.                                                 *)
LEMMA OneOwesMore ==
  ASSUME IInv, NEW e \in Txs, NEW d \in Int,
         \A t \in Txs \ {e} : Owed(t)' = Owed(t),
         Owed(e)' = Owed(e) + d,
         restarts' = restarts,
         restarts = 0 => used' = used + d
  PROVE  TokensAddUp'
<1> DEFINE f == [t \in Txs |-> Owed(t)]
           g == [t \in Txs |-> Owed(t)']
<1> SUFFICES ASSUME restarts = 0 PROVE used' = SumFunction(g)
  BY DEF TokensAddUp
<1>1. IsFiniteSet(Txs)
  BY OrchestrationAssumption DEF OrchestrationAssumption
<1>2. \A t \in Txs : Owed(t) \in Int
  BY OwedIsNatural DEF IInv
<1>3. /\ DOMAIN f = Txs /\ DOMAIN g = Txs
      /\ \A t \in Txs : f[t] \in Int /\ g[t] \in Int
      /\ \A t \in Txs \ {e} : f[t] = g[t]
      /\ g[e] = f[e] + d
  BY <1>2
<1>4. used = SumFunction(f) /\ used' = used + d
  BY DEF IInv, TokensAddUp
<1> HIDE DEF f, g
<1>5. SumFunctionOnSet(g, Txs) = SumFunctionOnSet(f, Txs) + (g[e] - f[e])
  BY <1>1, <1>3, SumChanges
<1>6. SumFunctionOnSet(f, Txs) \in Int
  BY <1>1, <1>3, SumIsNumber
<1>7. f[e] \in Int /\ g[e] = f[e] + d
  BY <1>3
<1> QED BY <1>3, <1>4, <1>5, <1>6, <1>7 DEF SumFunction

(* ReturnTokens leaves a number within the quota, and when what is returned  *)
(* was in use, it returns it all.                                            *)
LEMMA ReturnedFacts ==
  ASSUME used \in 0 .. Quota, NEW n \in Nat, Returned(n)
  PROVE  /\ used' \in 0 .. Quota
         /\ n <= used => used' = used - n
<1>1. Quota \in Nat
  BY OrchestrationAssumption DEF OrchestrationAssumption
<1>2. used \in Int /\ used - n \in Int
  BY <1>1
<1>3. used' = IF 0 >= used - n THEN 0 ELSE used - n
  BY <1>2, MaxOfTwo DEF Returned
<1> QED BY <1>1, <1>2, <1>3

(* A step of a call is nothing to the other transactions. *)
LEMMA OthersOweTheSame ==
  ASSUME NEW e \in Txs,
         call # None => call.tx = e, call' # None => call'.tx = e,
         \A t \in Txs \ {e} : txs'[t] = txs[t]
  PROVE  \A t \in Txs \ {e} : Owed(t)' = Owed(t)
BY DEF Owed

-----------------------------------------------------------------------------
(* Before the first call there is nothing. *)
LEMMA InitHolds == ASSUME Init PROVE IInv
<1>1. TypeOK /\ restarts \in Nat
  BY OrchestrationAssumption DEF OrchestrationAssumption, Init, TypeOK, NoTx, Statuses
<1>2. CallOK
  BY DEF Init, CallOK
<1>3. CommittedIsWatched
  BY DEF Init, CommittedIsWatched, Committed, NoTx
<1>4. TokensAddUp
  <2> DEFINE f == [t \in Txs |-> Owed(t)]
  <2>1. DOMAIN f = Txs /\ \A t \in Txs : f[t] = 0
    BY DEF Init, Owed, NoTx
  <2>2. IsFiniteSet(Txs)
    BY OrchestrationAssumption DEF OrchestrationAssumption
  <2> HIDE DEF f
  <2>3. SumFunction(f) = 0
    BY <2>1, <2>2, SumOfNothing DEF SumFunction
  <2> QED BY <2>3 DEF TokensAddUp, Init, f
<1> QED BY <1>1, <1>2, <1>3, <1>4 DEF IInv

(* CreateTx starts on a transaction that is not there yet and owes nothing. *)
LEMMA CreateTxStep ==
  ASSUME IInv, NEW t \in Txs, NEW h \in Holders, NEW names \in LockLists,
         NEW amounts \in TokenLists, CreateTx(t, h, names, amounts)
  PROVE  IInv'
<1> USE DEF CreateTx
<1>0. TypeOK /\ restarts' = restarts /\ call = None /\ txs[t] = NoTx
  BY DEF IInv
<1>1. /\ txs'[t].status = "created" /\ txs'[t].tokens = << >>
      /\ \A u \in Txs \ {t} : txs'[u] = txs[u]
  BY <1>0, TxFacts DEF NoTx
<1>2. /\ call' \in CallRow /\ call'.op = "create" /\ call'.tx = t /\ call'.granted = << >>
  <2>1. names \in Seq(Locks) /\ amounts \in Seq(Nat)
    BY OrchestrationAssumption DEF OrchestrationAssumption
  <2> QED BY <2>1 DEF CallRow
<1>3. TypeOK'
  <2>1. txs' \in [Txs -> TxRow]
    BY <1>0, TxFacts DEF NoTx, TxRow, Statuses
  <2> QED BY <1>0, <1>2, <2>1 DEF TypeOK, TxRow
<1>4. CallOK'
  BY <1>1, <1>2 DEF CallOK
<1>5. CommittedIsWatched'
  BY <1>0, <1>1, <1>2 DEF IInv, CommittedIsWatched, Committed
<1>6. TokensAddUp'
  <2>1. \A u \in Txs \ {t} : Owed(u)' = Owed(u)
    BY <1>0, <1>1, <1>2, OthersOweTheSame
  <2>2. Owed(t) = 0
    BY <1>0 DEF Owed, NoTx
  <2>3. Owed(t)' = 0
    <3>1. call' # None
      BY <1>2, OrchestrationAssumption DEF OrchestrationAssumption
    <3>2. Total(<< >>) = 0
      <4>1. << >> \in Seq(Nat)
        OBVIOUS
      <4> QED BY <4>1, SumOfSequence DEF Total
    <3> QED BY <1>2, <3>1, <3>2 DEF Owed
  <2>4. used \in Int
    BY <1>0, OrchestrationAssumption DEF TypeOK, OrchestrationAssumption
  <2> HIDE DEF CreateTx
  <2>5. used' = used
    BY DEF CreateTx
  <2>6. Owed(t)' = Owed(t) + 0 /\ used' = used + 0
    BY <2>2, <2>3, <2>4, <2>5
  <2> QED BY <1>0, <2>1, <2>6, OneOwesMore
<1> QED BY <1>0, <1>3, <1>4, <1>5, <1>6 DEF IInv

(* A lock that was obtained is written down; otherwise the call rolls back. *)
LEMMA AcquireNextStep ==
  ASSUME IInv, AcquireNext
  PROVE  IInv'
<1>e. PICK e \in Txs : e = call.tx
  BY CallFacts DEF IInv, AcquireNext, Creating
<1>0. /\ TypeOK /\ restarts' = restarts /\ used' = used /\ timers' = timers
      /\ call # None /\ call.op = "create" /\ call.todo # << >>
      /\ txs[e].status = "created" /\ txs[e].tokens = call.granted
  BY <1>e DEF IInv, AcquireNext, Creating, CallOK
<1>1. /\ call \in CallRow /\ Head(call.todo) \in Locks
      /\ Tail(call.todo) \in Seq(Locks) /\ Append(call.got, Head(call.todo)) \in Seq(Locks)
  BY <1>0, CallFacts, ShorterSequences
<1>2. /\ call' \in CallRow /\ call'.tx = e /\ call'.op \in {"create", "rollback"}
      /\ call'.granted = call.granted
  BY <1>e, <1>0, <1>1 DEF AcquireNext, CallRow
<1>3. /\ txs' \in [Txs -> TxRow]
      /\ txs'[e].status = "created" /\ txs'[e].tokens = call.granted
      /\ \A t \in Txs \ {e} : txs'[t] = txs[t]
  <2>1. CASE txs' = txs
    BY <1>0, <2>1, TxFacts
  <2>2. CASE txs' = [txs EXCEPT ![e].locks = Append(@, Head(call.todo))]
    <3>1. Append(txs[e].locks, Head(call.todo)) \in Seq(Locks)
      BY <1>0, <1>1, TxFacts
    <3> QED BY <1>0, <1>1, <2>2, <3>1, TxFacts DEF TxRow
  <2> QED BY <1>e, <2>1, <2>2 DEF AcquireNext
<1>4. TypeOK'
  BY <1>0, <1>2, <1>3 DEF TypeOK, TxRow
<1>5. CallOK'
  BY <1>2, <1>3 DEF CallOK
<1>6. CommittedIsWatched'
  BY <1>e, <1>0, <1>2, <1>3 DEF IInv, CommittedIsWatched, Committed
<1>7. TokensAddUp'
  <2>1. \A t \in Txs \ {e} : Owed(t)' = Owed(t)
    BY <1>0, <1>1, <1>2, <1>3, <1>e, OthersOweTheSame
  <2>2. Owed(e)' = Owed(e)
    <3>1. call' # None
      BY <1>2, OrchestrationAssumption DEF OrchestrationAssumption
    <3> QED BY <1>0, <1>2, <1>e, <3>1 DEF Owed
  <2>3. used \in Int /\ Owed(e) \in Int
    BY <1>0, <1>1, OwedIsNatural, OrchestrationAssumption DEF TypeOK, OrchestrationAssumption, IInv
  <2>4. Owed(e)' = Owed(e) + 0 /\ used' = used + 0
    BY <1>0, <2>2, <2>3
  <2> QED BY <1>0, <1>1, <2>1, <2>4, OneOwesMore
<1> QED BY <1>0, <1>4, <1>5, <1>6, <1>7 DEF IInv

(* What any step of a call comes to: its transaction owes d more, d more     *)
(* tokens are in use.                                                        *)
LEMMA StepOfCall ==
  ASSUME IInv, NEW e \in Txs, NEW d \in Int,
         call # None, call.tx = e, call' # None => call'.tx = e,
         TypeOK', CallOK', CommittedIsWatched', restarts' = restarts,
         \A t \in Txs \ {e} : txs'[t] = txs[t],
         Owed(e)' = Owed(e) + d,
         restarts = 0 => used' = used + d
  PROVE  IInv'
<1>1. \A t \in Txs \ {e} : Owed(t)' = Owed(t)
  BY OthersOweTheSame
<1>2. TokensAddUp'
  BY <1>1, OneOwesMore
<1> QED BY <1>2 DEF IInv

(* Tokens that were granted are owed, written down or not. *)
LEMMA RequestNextStep ==
  ASSUME IInv, RequestNext
  PROVE  IInv'
<1>e. PICK e \in Txs : e = call.tx
  BY CallFacts DEF IInv, RequestNext, Creating
<1> DEFINE n == Head(call.wants)
<1>0. /\ TypeOK /\ restarts' = restarts /\ timers' = timers
      /\ call # None /\ call.op = "create" /\ call.wants # << >>
      /\ txs[e].status = "created" /\ txs[e].tokens = call.granted
  BY <1>e DEF IInv, RequestNext, Creating, CallOK
<1>q. used \in Nat /\ Quota \in Nat
  BY <1>0, OrchestrationAssumption DEF TypeOK, OrchestrationAssumption
<1>1. /\ call \in CallRow /\ n \in Nat /\ call.granted \in Seq(Nat)
      /\ Tail(call.wants) \in Seq(Nat) /\ Append(call.granted, n) \in Seq(Nat)
  BY <1>0, CallFacts, ShorterSequences
<1>2. Owed(e) = Total(call.granted) /\ Total(call.granted) \in Nat
      /\ Total(Append(call.granted, n)) = Total(call.granted) + n
  BY <1>e, <1>0, <1>1, SumOfSequence DEF Owed, Total
<1>3. CASE used + n <= Quota
  <2>1. PICK saved \in BOOLEAN :
          /\ used' = used + n
          /\ txs' = IF saved THEN [txs EXCEPT ![e].tokens = Append(@, n)] ELSE txs
          /\ call' = [call EXCEPT !.wants = Tail(@), !.granted = Append(@, n),
                                  !.op = IF saved THEN @ ELSE "rollback"]
    BY <1>e, <1>3, OrchestrationAssumption DEF RequestNext, OrchestrationAssumption
  <2> HIDE DEF n
  <2>2. /\ call' \in CallRow /\ call'.tx = e /\ call'.granted = Append(call.granted, n)
        /\ call'.op = IF saved THEN "create" ELSE "rollback"
    BY <1>e, <1>0, <1>1, <2>1 DEF CallRow
  <2>3. /\ txs' \in [Txs -> TxRow] /\ txs'[e].status = "created"
        /\ saved => txs'[e].tokens = Append(call.granted, n)
        /\ \A t \in Txs \ {e} : txs'[t] = txs[t]
    BY <1>0, <1>1, <2>1, TxFacts DEF TxRow
  <2>4. used' \in 0 .. Quota
    BY <1>0, <1>1, <1>3, <1>q, <2>1
  <2>5. TypeOK' /\ CallOK' /\ CommittedIsWatched'
    <3>1. TypeOK'
      BY <1>0, <2>2, <2>3, <2>4 DEF TypeOK, TxRow
    <3>2. CallOK'
      BY <2>2, <2>3 DEF CallOK
    <3>3. CommittedIsWatched'
      BY <1>e, <1>0, <2>2, <2>3 DEF IInv, CommittedIsWatched, Committed
    <3> QED BY <3>1, <3>2, <3>3
  <2>6. call' # None
    BY <2>2, OrchestrationAssumption DEF OrchestrationAssumption
  <2>7. Owed(e)' = Owed(e) + n
    BY <1>2, <2>2, <2>6 DEF Owed
  <2> QED BY <1>e, <1>0, <1>1, <2>1, <2>2, <2>3, <2>5, <2>7, StepOfCall
<1>4. CASE ~ (used + n <= Quota)
  <2>1. txs' = txs /\ used' = used /\ call' = [call EXCEPT !.op = "rollback"]
    BY <1>4 DEF RequestNext
  <2>2. /\ call' \in CallRow /\ call'.tx = e /\ call'.granted = call.granted
        /\ call'.op = "rollback" /\ call' # None
    BY <1>e, <1>0, <1>1, <2>1, OrchestrationAssumption DEF CallRow, OrchestrationAssumption
  <2>3. TypeOK' /\ CallOK' /\ CommittedIsWatched'
    <3>1. TypeOK'
      BY <1>0, <2>1, <2>2 DEF TypeOK
    <3>2. CallOK'
      BY <1>0, <2>1, <2>2 DEF CallOK
    <3>3. CommittedIsWatched'
      BY <1>e, <1>0, <2>1, <2>2 DEF IInv, CommittedIsWatched, Committed
    <3> QED BY <3>1, <3>2, <3>3
  <2> HIDE DEF n
  <2>4. Owed(e)' = Owed(e) + 0 /\ used' = used + 0
    BY <1>0, <1>2, <1>q, <2>1, <2>2 DEF Owed
  <2> QED BY <1>e, <1>0, <2>1, <2>2, <2>3, <2>4, StepOfCall
<1> QED BY <1>3, <1>4

(* A commit arms the timer; what was granted is what is written down. *)
LEMMA CommitStep ==
  ASSUME IInv, Commit
  PROVE  IInv'
<1>e. PICK e \in Txs : e = call.tx
  BY CallFacts DEF IInv, Commit, Creating
<1>0. /\ TypeOK /\ restarts' = restarts /\ used' = used /\ call' = None
      /\ call # None /\ call.op = "create"
      /\ txs[e].tokens = call.granted /\ used \in Nat
      /\ txs' = [txs EXCEPT ![e].status = "committed"]
      /\ timers' = [timers EXCEPT ![e] = "armed"]
  BY <1>e, OrchestrationAssumption
  DEF IInv, Commit, Creating, CallOK, TypeOK, OrchestrationAssumption
<1>1. /\ txs' \in [Txs -> TxRow] /\ txs'[e].status = "committed"
      /\ txs'[e].tokens = txs[e].tokens
      /\ \A t \in Txs \ {e} : txs'[t] = txs[t]
  BY <1>0, TxFacts DEF TxRow, Statuses
<1>2. /\ timers' \in [Txs -> {"off", "armed", "fired"}] /\ timers'[e] = "armed"
      /\ \A t \in Txs \ {e} : timers'[t] = timers[t]
  BY <1>0 DEF TypeOK
<1>3. TypeOK'
  BY <1>0, <1>1, <1>2 DEF TypeOK, TxRow
<1>4. CallOK'
  BY <1>0 DEF CallOK
<1>5. CommittedIsWatched'
  BY <1>e, <1>0, <1>1, <1>2 DEF IInv, CommittedIsWatched, Committed
<1>6. Owed(e) \in Int
  BY <1>0, OwedIsNatural DEF IInv
<1>7. Owed(e)' = Owed(e)
  BY <1>e, <1>0, <1>1 DEF Owed
<1>8. Owed(e)' = Owed(e) + 0 /\ used' = used + 0
  BY <1>0, <1>6, <1>7
<1> QED BY <1>e, <1>0, <1>1, <1>3, <1>4, <1>5, <1>8, StepOfCall

(* A rollback returns the last of what was granted, and it was in use. *)
LEMMA RollbackTokenStep ==
  ASSUME IInv, RollbackToken
  PROVE  IInv'
<1>e. PICK e \in Txs : e = call.tx
  BY CallFacts DEF IInv, RollbackToken, RollingBack
<1>n. PICK n : n = Last(call.granted)
  OBVIOUS
<1>0. /\ TypeOK /\ restarts' = restarts /\ timers' = timers /\ txs' = txs
      /\ call # None /\ call.op = "rollback" /\ call.granted # << >>
      /\ txs[e].status = "created"
      /\ used \in 0 .. Quota /\ used \in Nat /\ Returned(n)
      /\ call' = [call EXCEPT !.granted = Front(@)]
  BY <1>e, <1>n, OrchestrationAssumption
  DEF IInv, RollbackToken, RollingBack, CallOK, TypeOK, OrchestrationAssumption
<1>1. /\ call \in CallRow /\ call.granted \in Seq(Nat)
      /\ Front(call.granted) \in Seq(Nat) /\ n \in Nat
  BY <1>0, <1>n, CallFacts, ShorterSequences
<1>2. Total(call.granted) = Total(Front(call.granted)) + n
  BY <1>0, <1>1, <1>n, SumOfFront DEF Total, Front, Last
<1>3. Total(Front(call.granted)) \in Nat
  BY <1>1, SumOfSequence DEF Total
<1>4. Owed(e) = Total(call.granted)
  BY <1>e, <1>0 DEF Owed
<1>5. /\ call' \in CallRow /\ call'.tx = e /\ call'.op = "rollback"
      /\ call'.granted = Front(call.granted) /\ call' # None
  BY <1>e, <1>0, <1>1, OrchestrationAssumption DEF CallRow, OrchestrationAssumption
<1>6. /\ used' \in 0 .. Quota
      /\ n <= used => used' = used - n
  BY <1>0, <1>1, ReturnedFacts
<1>7. restarts = 0 => used' = used + (- n)
  <2> SUFFICES ASSUME restarts = 0 PROVE n <= used
    BY <1>0, <1>1, <1>6
  <2>1. Owed(e) <= used
    BY UsedCovers
  <2> QED BY <1>0, <1>1, <1>2, <1>3, <1>4, <2>1
<1>8. Owed(e)' = Owed(e) + (- n)
  <2>1. Owed(e)' = Total(Front(call.granted))
    BY <1>5 DEF Owed
  <2> QED BY <1>1, <1>2, <1>3, <1>4, <2>1
<1>9. TypeOK' /\ CallOK' /\ CommittedIsWatched'
  <2>1. TypeOK'
    BY <1>0, <1>5, <1>6 DEF TypeOK
  <2>2. CallOK'
    BY <1>0, <1>5 DEF CallOK
  <2>3. CommittedIsWatched'
    BY <1>e, <1>0, <1>5 DEF IInv, CommittedIsWatched, Committed
  <2> QED BY <2>1, <2>2, <2>3
<1> QED BY <1>e, <1>0, <1>1, <1>5, <1>7, <1>8, <1>9, StepOfCall

(* A step that only works off locks, or turns from the rollback to its end,  *)
(* changes nothing the books are about.                                      *)
LEMMA QuietStep ==
  ASSUME IInv, NEW e \in Txs, call # None, call.tx = e,
         call' \in CallRow, call'.tx = e,
         call'.granted = call.granted, call'.wants = call.wants,
         \/ call'.op = call.op
         \/ call.op = "rollback" /\ call'.op = "settle" /\ call.granted = << >>,
         UNCHANGED <<txs, timers, used, restarts>>
  PROVE  IInv'
<1>1. TypeOK /\ CallOK /\ used \in Int /\ Owed(e) \in Int
  BY OwedIsNatural, OrchestrationAssumption DEF IInv, TypeOK, OrchestrationAssumption
<1>2. call' # None
  BY OrchestrationAssumption DEF OrchestrationAssumption
<1>3. TypeOK'
  BY <1>1 DEF TypeOK
<1>4. CallOK'
  BY <1>1 DEF CallOK, Committed
<1>5. CommittedIsWatched'
  BY <1>2 DEF IInv, CommittedIsWatched, Committed
<1>6. Owed(e)' = Owed(e)
  BY <1>2 DEF Owed
<1>7. Owed(e)' = Owed(e) + 0 /\ used' = used + 0
  BY <1>1, <1>6
<1> QED BY <1>3, <1>4, <1>5, <1>7, StepOfCall

(* The locks of a call are worked off from either end. *)
LEMMA LockSteps ==
  ASSUME IInv, RollbackLock \/ RollbackWaits \/ EndLock
  PROVE  IInv'
<1>1. TypeOK /\ call # None /\ UNCHANGED <<txs, timers, used, restarts>>
  BY DEF IInv, RollbackLock, RollbackWaits, EndLock, RollingBack, Ending
<1>2. PICK e \in Txs : e = call.tx
  BY <1>1, CallFacts
<1>3. call \in CallRow
  BY <1>1, CallFacts
<1>4. CASE RollbackLock
  <2>1. call' = [call EXCEPT !.got = Front(@)] /\ call.got # << >>
    BY <1>4 DEF RollbackLock
  <2>2. Front(call.got) \in Seq(Locks)
    BY <1>1, <2>1, CallFacts, ShorterSequences
  <2>3. /\ call' \in CallRow /\ call'.tx = e /\ call'.op = call.op
        /\ call'.granted = call.granted /\ call'.wants = call.wants
    BY <1>2, <1>3, <2>1, <2>2 DEF CallRow
  <2> QED BY <1>1, <1>2, <2>3, QuietStep
<1>5. CASE RollbackWaits
  <2>1. /\ call' = [call EXCEPT !.op = "settle"]
        /\ call.op = "rollback" /\ call.granted = << >>
    BY <1>5 DEF RollbackWaits, RollingBack
  <2>2. /\ call' \in CallRow /\ call'.tx = e /\ call'.op = "settle"
        /\ call'.granted = call.granted /\ call'.wants = call.wants
    BY <1>2, <1>3, <2>1 DEF CallRow
  <2> QED BY <1>1, <1>2, <2>1, <2>2, QuietStep
<1>6. CASE EndLock
  <2>1. call' = [call EXCEPT !.todo = Tail(@)] /\ call.todo # << >>
    BY <1>6 DEF EndLock
  <2>2. Tail(call.todo) \in Seq(Locks)
    BY <1>1, <2>1, CallFacts, ShorterSequences
  <2>3. /\ call' \in CallRow /\ call'.tx = e /\ call'.op = call.op
        /\ call'.granted = call.granted /\ call'.wants = call.wants
    BY <1>2, <1>3, <2>1, <2>2 DEF CallRow
  <2> QED BY <1>1, <1>2, <2>3, QuietStep
<1> QED BY <1>4, <1>5, <1>6

(* A rollback is over when everything was returned. *)
LEMMA RolledBackStep ==
  ASSUME IInv, RolledBack
  PROVE  IInv'
<1>e. PICK e \in Txs : e = call.tx
  BY CallFacts DEF IInv, RolledBack
<1>0. /\ TypeOK /\ restarts' = restarts /\ used' = used /\ call' = None /\ timers' = timers
      /\ call # None /\ call.op = "settle" /\ call.granted = << >>
      /\ txs' = [txs EXCEPT ![e].status = "rolled_back"]
  BY <1>e DEF IInv, RolledBack, CallOK
<1>1. /\ txs' \in [Txs -> TxRow] /\ txs'[e].status = "rolled_back"
      /\ \A t \in Txs \ {e} : txs'[t] = txs[t]
  BY <1>0, TxFacts DEF TxRow, Statuses
<1>2. TypeOK'
  BY <1>0, <1>1 DEF TypeOK, TxRow
<1>3. CallOK'
  BY <1>0 DEF CallOK
<1>4. CommittedIsWatched'
  BY <1>e, <1>0, <1>1 DEF IInv, CommittedIsWatched, Committed
<1>5. Owed(e)' = 0
  BY <1>0, <1>1 DEF Owed
<1>6. Owed(e) = 0
  <2>1. << >> \in Seq(Nat)
    OBVIOUS
  <2>2. Total(<< >>) = 0
    BY <2>1, SumOfSequence DEF Total
  <2> QED BY <1>e, <1>0, <2>2 DEF Owed
<1>7. used \in Int
  BY <1>0, OrchestrationAssumption DEF TypeOK, OrchestrationAssumption
<1>8. Owed(e)' = Owed(e) + 0 /\ used' = used + 0
  BY <1>0, <1>5, <1>6, <1>7
<1> QED BY <1>e, <1>0, <1>1, <1>2, <1>3, <1>4, <1>8, StepOfCall

(* The two ways to end a transaction start from a committed one. *)
LEMMA EndStarts ==
  ASSUME IInv, NEW e \in Txs, NEW op \in {"release", "timeout"}, NEW amounts,
         End(op, e, amounts), call = None, Committed(e),
         amounts = IF op = "release" THEN << >> ELSE txs[e].tokens,
         timers' \in [Txs -> {"off", "armed", "fired"}],
         \A t \in Txs : timers'[t] = timers[t] \/ (t = e /\ op = "timeout"),
         UNCHANGED <<txs, used, restarts>>
  PROVE  IInv'
<1>0. TypeOK
  BY DEF IInv
<1>1. /\ txs[e].locks \in Seq(Locks) /\ txs[e].tokens \in Seq(Nat) /\ amounts \in Seq(Nat)
      /\ << >> \in Seq(Nat) /\ << >> \in Seq(Locks)
  BY <1>0, TxFacts
<1>2. /\ call' \in CallRow /\ call'.op = op /\ call'.tx = e
      /\ call'.granted = << >> /\ call'.wants = amounts
  BY <1>1 DEF End, CallRow
<1>3. call' # None
  BY <1>2, OrchestrationAssumption DEF OrchestrationAssumption
<1>4. TypeOK'
  BY <1>0, <1>2 DEF TypeOK
<1>5. CallOK'
  BY <1>1, <1>2 DEF CallOK, Committed
<1>6. CommittedIsWatched'
  BY <1>2, <1>3 DEF IInv, CommittedIsWatched, Committed
<1>7. TokensAddUp'
  <2>1. \A t \in Txs \ {e} : Owed(t)' = Owed(t)
    BY <1>2, OthersOweTheSame
  <2>2. Total(txs[e].tokens) \in Nat /\ Total(<< >>) = 0
    BY <1>1, SumOfSequence DEF Total
  <2>3. Owed(e) = Total(txs[e].tokens)
    BY DEF Owed, Committed
  <2>4. Owed(e)' = Total(txs[e].tokens) - Total(<< >>)
    BY <1>2, <1>3 DEF Owed
  <2>5. used \in Int
    BY <1>0, OrchestrationAssumption DEF TypeOK, OrchestrationAssumption
  <2>6. Owed(e)' = Owed(e) + 0 /\ used' = used + 0
    BY <2>2, <2>3, <2>4, <2>5
  <2> QED BY <2>1, <2>6, OneOwesMore
<1> QED BY <1>4, <1>5, <1>6, <1>7 DEF IInv

(* A time-out returns the first of the tokens that are left, and they are    *)
(* in use.                                                                   *)
LEMMA EndTokenStep ==
  ASSUME IInv, EndToken
  PROVE  IInv'
<1>e. PICK e \in Txs : e = call.tx
  BY CallFacts DEF IInv, EndToken, Ending
<1>n. PICK n : n = Head(call.wants)
  OBVIOUS
<1>0. /\ TypeOK /\ restarts' = restarts /\ timers' = timers /\ txs' = txs
      /\ call # None /\ call.op = "timeout" /\ call.wants # << >>
      /\ Committed(e) /\ txs[e].tokens = call.granted \o call.wants
      /\ Returned(n)
      /\ call' = [call EXCEPT !.wants = Tail(@), !.granted = Append(@, n)]
  BY <1>e, <1>n DEF IInv, EndToken, Ending, CallOK
<1>q. used \in 0 .. Quota /\ used \in Nat
  BY <1>0, OrchestrationAssumption DEF TypeOK, OrchestrationAssumption
<1>1. /\ call \in CallRow /\ call.granted \in Seq(Nat) /\ call.wants \in Seq(Nat)
      /\ Tail(call.wants) \in Seq(Nat) /\ n \in Nat /\ Append(call.granted, n) \in Seq(Nat)
  BY <1>0, <1>n, CallFacts, ShorterSequences
<1>2. /\ Total(call.granted) + n <= Total(txs[e].tokens)
      /\ Append(call.granted, n) \o Tail(call.wants) = txs[e].tokens
  BY <1>0, <1>1, <1>n, SumOfFollowing DEF Total
<1>3. /\ Total(call.granted) \in Nat /\ Total(txs[e].tokens) \in Nat
      /\ Total(Append(call.granted, n)) = Total(call.granted) + n
  <2>1. txs[e].tokens \in Seq(Nat)
    BY <1>0, TxFacts
  <2> QED BY <1>1, <2>1, SumOfSequence DEF Total
<1>4. Owed(e) = Total(txs[e].tokens) - Total(call.granted)
  BY <1>e, <1>0 DEF Owed
<1>5. /\ call' \in CallRow /\ call'.tx = e /\ call'.op = "timeout"
      /\ call'.granted = Append(call.granted, n) /\ call'.wants = Tail(call.wants)
  BY <1>e, <1>0, <1>1 DEF CallRow
<1>6. call' # None
  BY <1>5, OrchestrationAssumption DEF OrchestrationAssumption
<1>7. /\ used' \in 0 .. Quota
      /\ n <= used => used' = used - n
  BY <1>0, <1>1, <1>q, ReturnedFacts
<1>8. restarts = 0 => used' = used + (- n)
  <2> SUFFICES ASSUME restarts = 0 PROVE n <= used
    BY <1>1, <1>7, <1>q
  <2>1. Owed(e) <= used
    BY UsedCovers
  <2> QED BY <1>1, <1>2, <1>3, <1>4, <1>q, <2>1
<1>9. Owed(e)' = Owed(e) + (- n)
  <2>1. Owed(e)' = Total(txs[e].tokens) - Total(Append(call.granted, n))
    BY <1>0, <1>5, <1>6 DEF Owed
  <2> QED BY <1>1, <1>3, <1>4, <2>1
<1>10. TypeOK' /\ CallOK' /\ CommittedIsWatched'
  <2>1. TypeOK'
    BY <1>0, <1>5, <1>7 DEF TypeOK
  <2>2. CallOK'
    BY <1>0, <1>2, <1>5 DEF CallOK, Committed
  <2>3. CommittedIsWatched'
    BY <1>e, <1>0, <1>5, <1>6 DEF IInv, CommittedIsWatched, Committed
  <2> QED BY <2>1, <2>2, <2>3
<1> QED BY <1>e, <1>0, <1>1, <1>5, <1>8, <1>9, <1>10, StepOfCall

(* A release leaves its tokens in use, a time-out has returned them all. *)
LEMMA EndTxStep ==
  ASSUME IInv, EndTx
  PROVE  IInv'
<1>e. PICK e \in Txs : e = call.tx
  BY CallFacts DEF IInv, EndTx, Ending
<1> DEFINE how == IF call.op = "release" THEN "released" ELSE "timed_out"
<1>0. /\ TypeOK /\ restarts' = restarts /\ used' = used /\ call' = None
      /\ call # None /\ call.op \in {"release", "timeout"} /\ call.wants = << >>
      /\ Committed(e)
      /\ txs' = [txs EXCEPT ![e].status = how]
      /\ timers' = [timers EXCEPT ![e] = IF @ = "armed" THEN "off" ELSE @]
  BY <1>e DEF IInv, EndTx, Ending, CallOK
<1>1. /\ txs' \in [Txs -> TxRow] /\ txs'[e].status = how /\ txs'[e].tokens = txs[e].tokens
      /\ \A t \in Txs \ {e} : txs'[t] = txs[t]
  BY <1>0, TxFacts DEF TxRow, Statuses
<1>2. /\ timers' \in [Txs -> {"off", "armed", "fired"}]
      /\ \A t \in Txs \ {e} : timers'[t] = timers[t]
  BY <1>0 DEF TypeOK
<1>3. TypeOK'
  BY <1>0, <1>1, <1>2 DEF TypeOK, TxRow
<1>4. CallOK'
  BY <1>0 DEF CallOK
<1>5. CommittedIsWatched'
  BY <1>e, <1>0, <1>1, <1>2 DEF IInv, CommittedIsWatched, Committed
<1>6. /\ txs[e].tokens \in Seq(Nat) /\ call.granted \in Seq(Nat) /\ << >> \in Seq(Nat)
  BY <1>0, TxFacts, CallFacts
<1>7. /\ Total(txs[e].tokens) \in Nat /\ Total(call.granted) \in Nat /\ Total(<< >>) = 0
  BY <1>6, SumOfSequence DEF Total
<1>8. Owed(e) = Total(txs[e].tokens) - Total(call.granted)
  BY <1>e, <1>0 DEF Owed
<1>9. Owed(e)' = Owed(e)
  <2>1. CASE call.op = "release"
    <3>1. call.granted = << >>
      BY <1>e, <1>0, <2>1 DEF IInv, CallOK
    <3>2. Owed(e)' = Total(txs[e].tokens)
      BY <1>0, <1>1, <2>1 DEF Owed
    <3> QED BY <1>7, <1>8, <3>1, <3>2
  <2>2. CASE call.op = "timeout"
    <3>1. txs[e].tokens = call.granted
      BY <1>e, <1>0, <1>6, <2>2 DEF IInv, CallOK
    <3>2. Owed(e)' = 0
      BY <1>0, <1>1, <2>2 DEF Owed
    <3> QED BY <1>7, <1>8, <3>1, <3>2
  <2> QED BY <1>0, <2>1, <2>2
<1>10. used \in Int /\ Owed(e) \in Int
  BY <1>0, <1>7, <1>8, OrchestrationAssumption DEF TypeOK, OrchestrationAssumption
<1>11. Owed(e)' = Owed(e) + 0 /\ used' = used + 0
  BY <1>0, <1>9, <1>10
<1> HIDE DEF how
<1> QED BY <1>e, <1>0, <1>1, <1>3, <1>4, <1>5, <1>11, StepOfCall

(* Timers that fire, the world outside and a step that changes nothing. *)
LEMMA TimerStep ==
  ASSUME IInv, UNCHANGED <<txs, used, call, restarts>>,
         timers' \in [Txs -> {"off", "armed", "fired"}],
         \A t \in Txs : timers[t] # "off" => timers'[t] # "off"
  PROVE  IInv'
<1>1. TypeOK' /\ CallOK' /\ CommittedIsWatched'
  BY DEF IInv, TypeOK, CallOK, CommittedIsWatched, Committed
<1>2. [t \in Txs |-> Owed(t)]' = [t \in Txs |-> Owed(t)]
  BY DEF Owed
<1>3. TokensAddUp'
  BY <1>2 DEF IInv, TokensAddUp
<1> QED BY <1>1, <1>3 DEF IInv

(* A restart looks at the table: whoever is committed is watched again.  The *)
(* books of a process that is gone are closed.                               *)
LEMMA RestartStep ==
  ASSUME IInv, Restart
  PROVE  IInv'
<1>1. restarts \in Nat /\ restarts' = restarts + 1 /\ call' = None /\ UNCHANGED <<txs, used>>
  BY DEF IInv, Restart
<1>2. PICK late \in SUBSET Txs :
        timers' = [t \in Txs |-> IF ~ Committed(t) THEN "off"
                                 ELSE IF t \in late THEN "fired" ELSE "armed"]
  BY DEF Restart
<1>3. TypeOK'
  BY <1>1, <1>2 DEF IInv, TypeOK
<1>4. CallOK'
  BY <1>1 DEF CallOK
<1>5. CommittedIsWatched'
  BY <1>1, <1>2 DEF CommittedIsWatched, Committed
<1>6. restarts' \in Nat /\ restarts' # 0
  BY <1>1
<1>7. TokensAddUp'
  BY <1>6 DEF TokensAddUp
<1> QED BY <1>3, <1>4, <1>5, <1>6, <1>7 DEF IInv

(* Every step keeps what the transactions rely on. *)
LEMMA NextStep ==
  ASSUME IInv, [Next]_vars
  PROVE  IInv'
<1>0. TypeOK /\ timers \in [Txs -> {"off", "armed", "fired"}]
  BY DEF IInv, TypeOK
<1>1. ASSUME NEW t \in Txs, NEW h \in Holders, NEW names \in LockLists,
             NEW amounts \in TokenLists, CreateTx(t, h, names, amounts)
      PROVE  IInv'
  BY <1>1, CreateTxStep
<1>2. ASSUME NEW t \in Txs, ReleaseTx(t)
      PROVE  IInv'
  <2>1. /\ End("release", t, << >>) /\ call = None /\ Committed(t)
        /\ UNCHANGED <<txs, timers, used, restarts>>
    BY <1>2 DEF ReleaseTx
  <2> QED BY <1>0, <2>1, EndStarts
<1>3. ASSUME NEW t \in Txs, TimerFires(t)
      PROVE  IInv'
  <2>1. timers' = [timers EXCEPT ![t] = "fired"] /\ UNCHANGED <<txs, used, call, restarts>>
    BY <1>3 DEF TimerFires
  <2> QED BY <1>0, <2>1, TimerStep
<1>4. ASSUME NEW t \in Txs, TimeoutTx(t)
      PROVE  IInv'
  <2>1. /\ call = None /\ timers' = [timers EXCEPT ![t] = "off"]
        /\ UNCHANGED <<txs, used, restarts>>
    BY <1>4 DEF TimeoutTx
  <2>2. /\ timers' \in [Txs -> {"off", "armed", "fired"}]
        /\ \A u \in Txs \ {t} : timers'[u] = timers[u]
    BY <1>0, <2>1
  <2>3. CASE Committed(t)
    <3>1. End("timeout", t, txs[t].tokens)
      BY <1>4, <2>3 DEF TimeoutTx
    <3> QED BY <2>1, <2>2, <2>3, <3>1, EndStarts
  <2>4. CASE ~ Committed(t)
    <3>1. UNCHANGED call
      BY <1>4, <2>4 DEF TimeoutTx
    <3>2. TypeOK' /\ CallOK' /\ CommittedIsWatched'
      BY <2>1, <2>2, <2>4, <3>1 DEF IInv, TypeOK, CallOK, CommittedIsWatched, Committed
    <3>3. [u \in Txs |-> Owed(u)]' = [u \in Txs |-> Owed(u)]
      BY <2>1, <3>1 DEF Owed
    <3>4. TokensAddUp'
      BY <2>1, <3>3 DEF IInv, TokensAddUp
    <3> QED BY <2>1, <3>2, <3>4 DEF IInv
  <2> QED BY <2>3, <2>4
<1>5. CASE Step
  BY <1>5, AcquireNextStep, RequestNextStep, CommitStep, RollbackTokenStep, LockSteps,
     RolledBackStep, EndTokenStep, EndTxStep DEF Step
<1>6. CASE Outside
  <2>1. UNCHANGED <<txs, timers, used, call, restarts>>
    BY <1>6 DEF Outside
  <2> QED BY <1>0, <2>1, TimerStep
<1>7. CASE Restart
  BY <1>7, RestartStep
<1>8. CASE UNCHANGED vars
  <2>1. UNCHANGED <<txs, timers, used, call, restarts>>
    BY <1>8 DEF vars
  <2> QED BY <1>0, <2>1, TimerStep
<1> QED BY <1>1, <1>2, <1>3, <1>4, <1>5, <1>6, <1>7, <1>8 DEF Next

(* The inductive invariant of the transactions holds in every state. *)
THEOREM TransactionInvariant == Spec => []IInv
<1>1. Init => IInv
  BY InitHolds
<1>2. IInv /\ [Next]_vars => IInv'
  BY NextStep
<1> QED BY <1>1, <1>2, PTL DEF Spec

(* Whatever calls, timers, errors and restarts come in whatever order: a     *)
(* committed transaction has a timer or a goroutine that ends it             *)
(* (rebuildTimersLocked, timeoutTx), and until the process restarts the rate *)
(* limiter has exactly those tokens in use that transactions hold, or were   *)
(* released with (rollbackTxLocked, ReturnTokens).                           *)
THEOREM TransactionsSound == Spec => []TransactionsAreSound
<1>1. IInv => TransactionsAreSound
  BY DEF IInv, TransactionsAreSound
<1> QED BY <1>1, TransactionInvariant, PTL

(* No step touches the row of a transaction that ended: a timer that fired   *)
(* before the release finds it over, and so does a second release.           *)
LEMMA EndedStays ==
  ASSUME IInv, [Next]_vars, NEW t \in Txs, Ended(t)
  PROVE  txs'[t] = txs[t]
<1>1. TypeOK /\ CallOK /\ txs \in [Txs -> TxRow]
  BY TxFacts DEF IInv
<1>2. txs[t] # NoTx /\ txs[t].status # "created" /\ txs[t].status # "committed"
  BY DEF Ended, NoTx
<1>3. call # None => call.tx # t /\ call.tx \in Txs
  BY <1>1, <1>2, CallFacts DEF CallOK, Committed
<1>4. ASSUME NEW u \in Txs, NEW h \in Holders, NEW names \in LockLists,
             NEW amounts \in TokenLists, CreateTx(u, h, names, amounts)
      PROVE  txs'[t] = txs[t]
  BY <1>1, <1>2, <1>4 DEF CreateTx
<1>5. CASE Step
  <2>1. call # None
    BY <1>5 DEF Step, AcquireNext, RequestNext, Commit, RollbackToken, RollbackLock, RollbackWaits,
                RolledBack, EndLock, EndToken, EndTx, Creating, RollingBack, Ending
  <2>2. \A row : [txs EXCEPT ![call.tx] = row][t] = txs[t]
    BY <1>1, <1>3, <2>1
  <2> QED
    BY <1>1, <1>3, <1>5, <2>1, <2>2
    DEF Step, AcquireNext, RequestNext, Commit, RollbackToken, RollbackLock, RollbackWaits,
        RolledBack, EndLock, EndToken, EndTx
<1>6. CASE UNCHANGED txs
  BY <1>6
<1> QED
  BY <1>4, <1>5, <1>6
  DEF Next, vars, ReleaseTx, TimerFires, TimeoutTx, Outside, Restart

(* What ended stays as it ended. *)
THEOREM EndedOnce == Spec => EndsOnce
<1>1. IInv /\ [Next]_vars => [\A t \in Txs : Ended(t) => txs'[t] = txs[t]]_vars
  BY EndedStays
<1> QED BY <1>1, TransactionInvariant, PTL DEF Spec, EndsOnce

(***************************** the rate limiter *****************************)

(******************************* the invariant ******************************)

(* The bindings of the callers that have one, each within its limit.         *)
BindingsOK(bs) ==
  /\ DOMAIN bs \subseteq Callers /\ IsFiniteSet(DOMAIN bs) /\ bs \in [DOMAIN bs -> Binding]
  /\ \A c \in DOMAIN bs : bs[c].used <= EffectiveLimit(bs[c])

(* A caller and its row differ at most in what came back by itself, and in   *)
(* what a loan that was only half written takes from the row.                *)
Agreed == {"policy", "quota", "borrowed", "lent", "reserved"}
RowsAgree(bs, rows) ==
  /\ DOMAIN rows = DOMAIN bs
  /\ \A c \in DOMAIN bs : rows[c].reserved = bs[c].reserved /\ Net(rows[c]) <= Net(bs[c])

(* A reservation and its row are the same, but for those that ended while    *)
(* nobody looked; who is not remembered is over.                             *)
EndedUnseen(r, row, t) ==
  row.status = "active" /\ row.end < t /\ r = [row EXCEPT !.status = "completed"]
ReservationsOK(rs, rows, t) ==
  /\ rows \in Seq(Reservation) /\ DOMAIN rs \subseteq DOMAIN rows
  /\ rs \in [DOMAIN rs -> Reservation]
  /\ \A i \in DOMAIN rs : rs[i] = rows[i] \/ EndedUnseen(rs[i], rows[i], t)
  /\ \A i \in DOMAIN rows \ DOMAIN rs : rows[i].status \notin Live

NotOverbooked(rs, end) ==
  \A p \in Policies, t \in 0..end : ReservedAt(t, Restrict(rs, OfPolicy(p, rs))) <= MaxTokens[p]

(* Ids are given once, the queue is in their order, and only callers with a  *)
(* binding wait.                                                             *)
QueueOK(q, rows, last, cs) ==
  /\ q \in Seq(WaitItem) /\ rows \subseteq WaitItem
  /\ \A x \in rows : x.id \in 1..last /\ x.caller \in cs
  /\ \A x, y \in rows : x.id = y.id => x = y
  /\ \A i \in DOMAIN q : q[i] \in rows
  /\ \A i, j \in DOMAIN q : i < j => q[i].id < q[j].id

QuotaInv ==
  /\ bound \in Bounds /\ beat \in BOOLEAN /\ now \in 0..bound.time
  /\ policies \subseteq Policies
  /\ BindingsOK(bindings) /\ BindingsOK(bindingRows) /\ RowsAgree(bindings, bindingRows)
  /\ ReservationsOK(reservations, reservationRows, now)
  /\ Len(reservationRows) <= bound.reservations
  /\ NotOverbooked(reservations, bound.time)
  /\ lastItem \in 0..bound.items
  /\ QueueOK(waitQueue, queueRows, lastItem, DOMAIN bindings)
  /\ borrowRows \in Seq(BorrowRecord)

(******************************** limits ************************************)

LEMMA SmallerOfTwo ==
  ASSUME NEW x \in Int, NEW y \in Int
  PROVE  Min({x, y}) = IF x <= y THEN x ELSE y
<1>1. Max({x, y}) = IF x >= y THEN x ELSE y
  BY MaxOfTwo
<1> QED BY <1>1, MaxOfTwo

LEMMA LimitIs ==
  ASSUME NEW b \in Binding
  PROVE  LET quota == IF b.quota <= MaxTokens[b.policy] THEN b.quota ELSE MaxTokens[b.policy]
             limit == quota + b.borrowed - b.lent + b.reserved
         IN /\ EffectiveLimit(b) = IF limit >= 0 THEN limit ELSE 0
            /\ EffectiveLimit(b) \in Nat
            /\ Remaining(b) = IF EffectiveLimit(b) >= b.used THEN EffectiveLimit(b) - b.used ELSE 0
            /\ Remaining(b) \in Nat
<1> DEFINE quota == IF b.quota <= MaxTokens[b.policy] THEN b.quota ELSE MaxTokens[b.policy]
           limit == quota + b.borrowed - b.lent + b.reserved
<1>1. /\ b.quota \in Nat /\ b.used \in Nat /\ b.borrowed \in Nat /\ b.lent \in Nat
      /\ b.reserved \in Nat /\ MaxTokens[b.policy] \in Nat
  BY RateLimitAssumption DEF Binding
<1>2. Min({b.quota, MaxTokens[b.policy]}) = quota /\ quota \in Nat
  BY <1>1, SmallerOfTwo
<1> HIDE DEF quota
<1>3. limit \in Int
  BY <1>1, <1>2
<1>4. EffectiveLimit(b) = Max({0, limit})
  BY <1>2 DEF EffectiveLimit
<1> HIDE DEF limit
<1>5. EffectiveLimit(b) = IF limit >= 0 THEN limit ELSE 0
  BY <1>3, <1>4, MaxOfTwo
<1>6. EffectiveLimit(b) \in Nat
  BY <1>3, <1>5
<1>7. Remaining(b) = IF EffectiveLimit(b) >= b.used THEN EffectiveLimit(b) - b.used ELSE 0
  <2> DEFINE e == EffectiveLimit(b)
  <2>1. e \in Nat /\ Remaining(b) = Max({0, e - b.used})
    BY <1>6 DEF Remaining
  <2> HIDE DEF e
  <2>2. Max({0, e - b.used}) = IF 0 >= e - b.used THEN 0 ELSE e - b.used
    BY <1>1, <2>1, MaxOfTwo
  <2>3. Remaining(b) = IF e >= b.used THEN e - b.used ELSE 0
    BY <1>1, <2>1, <2>2
  <2> QED BY <2>3 DEF e
<1>8. Remaining(b) \in Nat
  BY <1>1, <1>6, <1>7
<1> QED BY <1>5, <1>6, <1>7, <1>8 DEF quota, limit

(* A binding that differs in what it used only has the same limit.           *)
SameButUsed(b, x) == x \in Binding /\ \A part \in Agreed : x[part] = b[part]

LEMMA SameLimit ==
  ASSUME NEW b \in Binding, NEW x, SameButUsed(b, x)
  PROVE  EffectiveLimit(x) = EffectiveLimit(b)
BY DEF SameButUsed, Agreed, EffectiveLimit

LEMMA UsedIsSet ==
  ASSUME NEW b \in Binding, NEW u \in Nat
  PROVE  LET x == [b EXCEPT !.used = u]
         IN SameButUsed(b, x) /\ x.used = u
BY DEF SameButUsed, Agreed, Binding

(* What comes back by itself leaves less in use.                             *)
LEMMA ReconcileKeeps ==
  ASSUME NEW b \in Binding, NEW x \in Reconcile(b)
  PROVE  SameButUsed(b, x) /\ x.used <= b.used /\ EffectiveLimit(x) = EffectiveLimit(b)
<1>1. b.used \in Nat
  BY DEF Binding
<1>2. PICK u \in Decay(b) : x = [b EXCEPT !.used = u]
  BY DEF Reconcile
<1>3. u \in Nat /\ u <= b.used
  BY <1>1 DEF Decay
<1>4. SameButUsed(b, x) /\ x.used = u
  BY <1>2, <1>3, UsedIsSet
<1> QED BY <1>3, <1>4, SameLimit

(* Clamp changes nothing but the use, and brings it within the limit.        *)
LEMMA ClampKeeps ==
  ASSUME NEW b \in Binding
  PROVE  /\ SameButUsed(b, Clamp(b)) /\ EffectiveLimit(Clamp(b)) = EffectiveLimit(b)
         /\ Clamp(b).used <= EffectiveLimit(b)
<1>1. b.used \in Nat /\ EffectiveLimit(b) \in Nat
  BY LimitIs DEF Binding
<1> DEFINE u == Min({b.used, EffectiveLimit(b)})
<1>2. u \in Nat /\ u <= EffectiveLimit(b)
  <2> DEFINE e == EffectiveLimit(b)
  <2>1. e \in Nat
    BY <1>1
  <2> HIDE DEF e
  <2>2. Min({b.used, e}) = IF b.used <= e THEN b.used ELSE e
    BY <1>1, <2>1, SmallerOfTwo
  <2>3. Min({b.used, e}) \in Nat /\ Min({b.used, e}) <= e
    BY <1>1, <2>1, <2>2
  <2> QED BY <2>3 DEF e
<1>3. Clamp(b) = [b EXCEPT !.used = u]
  BY DEF Clamp
<1> HIDE DEF u
<1>4. SameButUsed(b, Clamp(b)) /\ Clamp(b).used = u
  BY <1>2, <1>3, UsedIsSet
<1> QED BY <1>2, <1>4, SameLimit

(* A binding with another quota, more or less borrowed, lent or reserved.    *)
LEMMA PartIsSet ==
  ASSUME NEW b \in Binding, NEW part \in {"quota", "used", "borrowed", "lent", "reserved"},
         NEW n \in Nat
  PROVE  LET x == [b EXCEPT ![part] = n]
         IN /\ x \in Binding /\ x[part] = n
            /\ \A other \in {"policy", "quota", "used", "borrowed", "lent", "reserved"} \ {part} :
                 x[other] = b[other]
<1> DEFINE x == [b EXCEPT ![part] = n]
<1>1. x.policy \in Policies /\ DOMAIN b = {"policy", "quota", "used", "borrowed", "lent", "reserved"}
  BY DEF Binding
<1>2. x[part] = n /\ \A other \in {"policy", "quota", "used", "borrowed", "lent", "reserved"} \ {part} :
                 x[other] = b[other]
  BY <1>1
<1>3. x \in Binding
  <2>1. \A other \in {"quota", "used", "borrowed", "lent", "reserved"} : x[other] \in Nat
    BY <1>2 DEF Binding
  <2> QED BY <1>1, <2>1 DEF Binding
<1> QED BY <1>2, <1>3

(******************************** sums **************************************)

ActiveOf(rs, c) == {i \in DOMAIN rs : rs[i].caller = c /\ rs[i].status = "active"}
ActiveIn(rs, c) == TokensOf(rs, ActiveOf(rs, c))

ReservationMap(rs) == IsFiniteSet(DOMAIN rs) /\ rs \in [DOMAIN rs -> Reservation]

LEMMA TokensAreNat ==
  ASSUME NEW rs, ReservationMap(rs), NEW S \in SUBSET DOMAIN rs
  PROVE  TokensOf(rs, S) \in Nat /\ \A i \in S : rs[i].tokens <= TokensOf(rs, S)
<1> DEFINE f == [i \in DOMAIN rs |-> rs[i].tokens]
<1>1. \A i \in DOMAIN rs : f[i] = rs[i].tokens /\ f[i] \in Nat
  BY DEF ReservationMap, Reservation
<1>2. TokensOf(rs, S) = SumFunctionOnSet(f, S)
  BY DEF TokensOf
<1>3. IsFiniteSet(S)
  BY FS_Subset DEF ReservationMap
<1> HIDE DEF f
<1>4. SumFunctionOnSet(f, S) \in Nat
  BY <1>1, <1>3, SumIsNumber
<1>5. \A i \in S : f[i] <= SumFunctionOnSet(f, S)
  BY <1>1, <1>3, SumOfOne
<1> QED BY <1>1, <1>2, <1>4, <1>5

(* Reservations that are among others promise no more than those.            *)
LEMMA TokensOfPart ==
  ASSUME NEW rs, ReservationMap(rs), NEW xs, ReservationMap(xs),
         NEW S \in SUBSET DOMAIN rs, NEW P \in SUBSET DOMAIN xs, P \subseteq S,
         \A i \in P : xs[i].tokens = rs[i].tokens
  PROVE  TokensOf(xs, P) <= TokensOf(rs, S)
<1> DEFINE f == [i \in DOMAIN rs |-> rs[i].tokens]
           g == [i \in DOMAIN xs |-> xs[i].tokens]
<1>1. (\A i \in DOMAIN rs : f[i] \in Nat) /\ \A i \in P : f[i] = g[i]
  BY DEF ReservationMap, Reservation
<1>2. TokensOf(rs, S) = SumFunctionOnSet(f, S) /\ TokensOf(xs, P) = SumFunctionOnSet(g, P)
  BY DEF TokensOf
<1>3. IsFiniteSet(S) /\ IsFiniteSet(P)
  BY FS_Subset DEF ReservationMap
<1> HIDE DEF f, g
<1>4. SumFunctionOnSet(f, P) = SumFunctionOnSet(g, P)
  BY <1>1, <1>3, SumOfTheSame
<1>5. SumFunctionOnSet(f, P) <= SumFunctionOnSet(f, S)
  BY <1>1, <1>3, SumOfPart
<1> QED BY <1>2, <1>4, <1>5

(* The reservations that hold at an instant, among some.                     *)
At(rs, S, t) == {i \in S : rs[i].start <= t /\ t < rs[i].end}

LEMMA ReservedIs ==
  ASSUME NEW rs, ReservationMap(rs), NEW S \in SUBSET DOMAIN rs, NEW t
  PROVE  ReservedAt(t, Restrict(rs, S)) = TokensOf(rs, At(rs, S, t))
<1> DEFINE P == At(rs, S, t)
           f == [i \in DOMAIN rs |-> rs[i].tokens]
           x == Restrict(rs, S)
           g == [i \in DOMAIN x |-> x[i].tokens]
<1>1. DOMAIN x = S /\ (\A i \in S : x[i] = rs[i])
  BY DEF Restrict
<1>2. P = {i \in DOMAIN x : x[i].start <= t /\ t < x[i].end}
  BY <1>1 DEF At
<1>3. P \subseteq S
  BY DEF At
<1>4. \A i \in P : g[i] = f[i]
  BY <1>1, <1>3
<1>5. ReservedAt(t, x) = SumFunctionOnSet(g, P)
  BY <1>2 DEF ReservedAt, TokensOf
<1>6. TokensOf(rs, P) = SumFunctionOnSet(f, P)
  BY DEF TokensOf
<1>7. IsFiniteSet(P)
  BY <1>3, FS_Subset DEF ReservationMap
<1> HIDE DEF f, g, P, x
<1>8. SumFunctionOnSet(g, P) = SumFunctionOnSet(f, P)
  BY <1>4, <1>7, SumOfTheSame
<1> QED BY <1>5, <1>6, <1>8 DEF P, x

(* Fewer live reservations of a policy reserve less.                         *)
LEMMA LessReserved ==
  ASSUME NEW rs, ReservationMap(rs), NEW xs, ReservationMap(xs), NEW p, NEW t,
         \A i \in DOMAIN xs : xs[i].status \in Live /\ xs[i].policy = p =>
            /\ i \in DOMAIN rs /\ rs[i].status \in Live
            /\ \A part \in {"policy", "tokens", "start", "end"} : xs[i][part] = rs[i][part]
  PROVE  /\ ReservedAt(t, Restrict(xs, OfPolicy(p, xs))) <= ReservedAt(t, Restrict(rs, OfPolicy(p, rs)))
         /\ ReservedAt(t, Restrict(xs, OfPolicy(p, xs))) \in Nat
         /\ ReservedAt(t, Restrict(rs, OfPolicy(p, rs))) \in Nat
<1> DEFINE S == OfPolicy(p, rs)
           P == OfPolicy(p, xs)
<1>1. S \in SUBSET DOMAIN rs /\ P \in SUBSET DOMAIN xs
  BY DEF OfPolicy
<1>2. \A i \in P : i \in S /\ xs[i].tokens = rs[i].tokens /\ xs[i].start = rs[i].start
                   /\ xs[i].end = rs[i].end
  BY DEF OfPolicy
<1> HIDE DEF S, P
<1>3. /\ At(rs, S, t) \in SUBSET DOMAIN rs /\ At(xs, P, t) \in SUBSET DOMAIN xs
      /\ At(xs, P, t) \subseteq At(rs, S, t)
      /\ \A i \in At(xs, P, t) : xs[i].tokens = rs[i].tokens
  BY <1>1, <1>2 DEF At
<1>4. TokensOf(xs, At(xs, P, t)) <= TokensOf(rs, At(rs, S, t))
  BY <1>3, TokensOfPart
<1>5. /\ ReservedAt(t, Restrict(rs, S)) = TokensOf(rs, At(rs, S, t))
      /\ ReservedAt(t, Restrict(xs, P)) = TokensOf(xs, At(xs, P, t))
  BY <1>1, ReservedIs
<1>6. TokensOf(xs, At(xs, P, t)) \in Nat /\ TokensOf(rs, At(rs, S, t)) \in Nat
  BY <1>3, TokensAreNat
<1> QED BY <1>4, <1>5, <1>6 DEF S, P

(* Fewer live reservations overbook nothing.                                 *)
LEMMA StaysWithin ==
  ASSUME NEW rs, ReservationMap(rs), NEW xs, ReservationMap(xs), NEW end \in Nat,
         NotOverbooked(rs, end),
         \A i \in DOMAIN xs : xs[i].status \in Live =>
            /\ i \in DOMAIN rs /\ rs[i].status \in Live
            /\ \A part \in {"policy", "tokens", "start", "end"} : xs[i][part] = rs[i][part]
  PROVE  NotOverbooked(xs, end)
<1> SUFFICES ASSUME NEW p \in Policies, NEW t \in 0..end
             PROVE  ReservedAt(t, Restrict(xs, OfPolicy(p, xs))) <= MaxTokens[p]
  BY DEF NotOverbooked
<1> DEFINE m == ReservedAt(t, Restrict(rs, OfPolicy(p, rs)))
           n == ReservedAt(t, Restrict(xs, OfPolicy(p, xs)))
<1>1. m \in Nat /\ n \in Nat /\ n <= m
  BY LessReserved
<1>2. m <= MaxTokens[p] /\ MaxTokens[p] \in Nat
  BY RateLimitAssumption DEF NotOverbooked
<1> HIDE DEF m, n
<1>3. n <= MaxTokens[p]
  BY <1>1, <1>2
<1> QED BY <1>3 DEF n

(* Fewer active reservations promise less.                                   *)
LEMMA LessActive ==
  ASSUME NEW rs, ReservationMap(rs), NEW xs, ReservationMap(xs), NEW c,
         \A i \in DOMAIN xs : xs[i].status = "active" =>
            /\ i \in DOMAIN rs /\ rs[i].status = "active"
            /\ \A part \in {"caller", "tokens"} : xs[i][part] = rs[i][part]
  PROVE  ActiveIn(xs, c) <= ActiveIn(rs, c)
<1>1. /\ ActiveOf(rs, c) \in SUBSET DOMAIN rs /\ ActiveOf(xs, c) \in SUBSET DOMAIN xs
      /\ ActiveOf(xs, c) \subseteq ActiveOf(rs, c)
      /\ \A i \in ActiveOf(xs, c) : xs[i].tokens = rs[i].tokens
  BY DEF ActiveOf
<1> QED BY <1>1, TokensOfPart DEF ActiveIn

LEMMA ActiveIsNat ==
  ASSUME NEW rs, ReservationMap(rs), NEW c
  PROVE  ActiveIn(rs, c) \in Nat
BY TokensAreNat DEF ActiveIn, ActiveOf

(* One reservation's part of what is promised to a caller, and what changes  *)
(* with its status.                                                          *)
Part(r, c) == IF r.caller = c /\ r.status = "active" THEN r.tokens ELSE 0

LEMMA ActiveIsSum ==
  ASSUME NEW rs, ReservationMap(rs), NEW c
  PROVE  ActiveIn(rs, c) = SumFunctionOnSet([i \in DOMAIN rs |-> Part(rs[i], c)], DOMAIN rs)
<1> DEFINE f == [i \in DOMAIN rs |-> rs[i].tokens]
           g == [i \in DOMAIN rs |-> Part(rs[i], c)]
           P == ActiveOf(rs, c)
<1>1. P \in SUBSET DOMAIN rs
  BY DEF ActiveOf
<1>2. \A i \in DOMAIN rs : f[i] \in Int /\ g[i] = IF i \in P THEN f[i] ELSE 0
  BY DEF ReservationMap, Reservation, ActiveOf, Part
<1>3. ActiveIn(rs, c) = SumFunctionOnSet(f, P)
  BY DEF ActiveIn, TokensOf
<1> HIDE DEF f, g, P
<1>4. SumFunctionOnSet(f, P) = SumFunctionOnSet(g, DOMAIN rs)
  BY <1>1, <1>2, SumOfChosen DEF ReservationMap
<1> QED BY <1>3, <1>4 DEF g

LEMMA StatusChanges ==
  ASSUME NEW rs, ReservationMap(rs), NEW id \in DOMAIN rs, NEW s \in ReservationStatuses, NEW c
  PROVE  LET xs == [rs EXCEPT ![id].status = s]
         IN /\ ReservationMap(xs) /\ DOMAIN xs = DOMAIN rs
            /\ \A i \in DOMAIN rs \ {id} : xs[i] = rs[i]
            /\ xs[id] = [rs[id] EXCEPT !.status = s]
            /\ ActiveIn(xs, c) = ActiveIn(rs, c) + Part(xs[id], c) - Part(rs[id], c)
            /\ Part(rs[id], c) <= ActiveIn(rs, c)
<1> DEFINE xs == [rs EXCEPT ![id].status = s]
           f == [i \in DOMAIN rs |-> Part(rs[i], c)]
           g == [i \in DOMAIN xs |-> Part(xs[i], c)]
<1>1. DOMAIN xs = DOMAIN rs /\ (\A i \in DOMAIN rs \ {id} : xs[i] = rs[i])
      /\ xs[id] = [rs[id] EXCEPT !.status = s]
  OBVIOUS
<1>2. xs[id] \in Reservation
  BY <1>1 DEF ReservationMap, Reservation
<1>3. ReservationMap(xs)
  BY <1>1, <1>2 DEF ReservationMap
<1> HIDE DEF xs
<1>4. \A i \in DOMAIN rs : Part(rs[i], c) \in Nat /\ Part(xs[i], c) \in Nat
  BY <1>1, <1>3 DEF ReservationMap, Reservation, Part
<1>5. /\ \A i \in DOMAIN rs : f[i] \in Nat /\ g[i] \in Nat
      /\ \A i \in DOMAIN rs \ {id} : f[i] = g[i]
      /\ f[id] = Part(rs[id], c) /\ g[id] = Part(xs[id], c)
  BY <1>1, <1>4
<1>6. ActiveIn(rs, c) = SumFunctionOnSet(f, DOMAIN rs) /\ ActiveIn(xs, c) = SumFunctionOnSet(g, DOMAIN rs)
  BY <1>1, <1>3, ActiveIsSum
<1> HIDE DEF f, g
<1>7. IsFiniteSet(DOMAIN rs)
  BY DEF ReservationMap
<1>8. SumFunctionOnSet(g, DOMAIN rs) = SumFunctionOnSet(f, DOMAIN rs) + (g[id] - f[id])
  BY <1>5, <1>7, SumChanges
<1>9. f[id] <= SumFunctionOnSet(f, DOMAIN rs) /\ SumFunctionOnSet(f, DOMAIN rs) \in Nat
  BY <1>5, <1>7, SumOfOne, SumIsNumber
<1>10. /\ ActiveIn(xs, c) = ActiveIn(rs, c) + Part(xs[id], c) - Part(rs[id], c)
       /\ Part(rs[id], c) <= ActiveIn(rs, c)
  BY <1>4, <1>5, <1>6, <1>8, <1>9
<1> QED BY <1>1, <1>3, <1>10 DEF xs

(* One reservation more.                                                     *)
LEMMA OneMore ==
  ASSUME NEW rs, ReservationMap(rs), NEW id, id \notin DOMAIN rs, NEW r \in Reservation, NEW c,
         NEW xs, xs = [i \in DOMAIN rs \cup {id} |-> IF i = id THEN r ELSE rs[i]]
  PROVE  ReservationMap(xs) /\ ActiveIn(xs, c) = ActiveIn(rs, c) + Part(r, c)
<1> DEFINE f == [i \in DOMAIN rs |-> Part(rs[i], c)]
           g == [i \in DOMAIN xs |-> Part(xs[i], c)]
<1>1. DOMAIN xs = DOMAIN rs \cup {id} /\ (\A i \in DOMAIN rs : xs[i] = rs[i]) /\ xs[id] = r
  OBVIOUS
<1>2. IsFiniteSet(DOMAIN xs)
  BY <1>1, FS_AddElement DEF ReservationMap
<1>3. ReservationMap(xs)
  BY <1>2 DEF ReservationMap
<1>4. \A i \in DOMAIN xs : Part(xs[i], c) \in Nat
  BY <1>3 DEF ReservationMap, Reservation, Part
<1>5. /\ \A i \in DOMAIN xs : g[i] \in Int
      /\ \A i \in DOMAIN rs : f[i] = g[i] /\ g[i] \in Int
      /\ g[id] = Part(r, c) /\ id \in DOMAIN xs /\ DOMAIN xs \ {id} = DOMAIN rs
  BY <1>1, <1>4
<1>6. ActiveIn(rs, c) = SumFunctionOnSet(f, DOMAIN rs) /\ ActiveIn(xs, c) = SumFunctionOnSet(g, DOMAIN xs)
  BY <1>3, ActiveIsSum
<1> HIDE DEF f, g
<1>7. IsFiniteSet(DOMAIN rs)
  BY DEF ReservationMap
<1>8. SumFunctionOnSet(g, DOMAIN xs) = g[id] + SumFunctionOnSet(g, DOMAIN xs \ {id})
  BY <1>2, <1>5, SumWithout
<1>9. SumFunctionOnSet(f, DOMAIN rs) = SumFunctionOnSet(g, DOMAIN rs)
  BY <1>5, <1>7, SumOfTheSame
<1>10. SumFunctionOnSet(g, DOMAIN rs) \in Int
  BY <1>5, <1>7, SumIsNumber
<1>11. ActiveIn(xs, c) = ActiveIn(rs, c) + Part(r, c)
  BY <1>5, <1>6, <1>8, <1>9, <1>10
<1> QED BY <1>3, <1>11

(***************************** what was borrowed ****************************)

BindingMap(bs) == DOMAIN bs \subseteq Callers /\ IsFiniteSet(DOMAIN bs) /\ bs \in [DOMAIN bs -> Binding]

LEMMA NetIsSum ==
  ASSUME NEW bs
  PROVE  NetBorrowed(bs) = SumFunctionOnSet([c \in DOMAIN bs |-> Net(bs[c])], DOMAIN bs)
<1> DEFINE f == [c \in DOMAIN bs |-> Net(bs[c])]
<1>1. DOMAIN f = DOMAIN bs
  OBVIOUS
<1>2. NetBorrowed(bs) = SumFunctionOnSet(f, DOMAIN f)
  BY DEF NetBorrowed, SumFunction
<1> QED BY <1>1, <1>2

LEMMA NetSame ==
  ASSUME NEW bs, BindingMap(bs), NEW xs, DOMAIN xs = DOMAIN bs,
         \A c \in DOMAIN bs : Net(xs[c]) = Net(bs[c])
  PROVE  NetBorrowed(xs) = NetBorrowed(bs)
<1> DEFINE f == [c \in DOMAIN bs |-> Net(bs[c])]
           g == [c \in DOMAIN xs |-> Net(xs[c])]
<1>1. \A c \in DOMAIN bs : f[c] = g[c]
  OBVIOUS
<1>2. NetBorrowed(bs) = SumFunctionOnSet(f, DOMAIN bs) /\ NetBorrowed(xs) = SumFunctionOnSet(g, DOMAIN bs)
  BY NetIsSum
<1> HIDE DEF f, g
<1> QED BY <1>1, <1>2, SumOfTheSame DEF BindingMap

LEMMA NetIsInt ==
  ASSUME NEW bs, BindingMap(bs)
  PROVE  \A c \in DOMAIN bs : Net(bs[c]) \in Int
BY DEF BindingMap, Binding, Net

(* When each has no more, all have no more.                                  *)
LEMMA NetLess ==
  ASSUME NEW bs, BindingMap(bs), NEW xs, BindingMap(xs), DOMAIN xs = DOMAIN bs,
         \A c \in DOMAIN bs : Net(xs[c]) <= Net(bs[c])
  PROVE  /\ NetBorrowed(xs) <= NetBorrowed(bs)
         /\ NetBorrowed(xs) \in Int /\ NetBorrowed(bs) \in Int
<1> DEFINE S == DOMAIN bs
           f == [c \in DOMAIN bs |-> Net(bs[c])]
           g == [c \in DOMAIN xs |-> Net(xs[c])]
           G == {X \in SUBSET S : SumFunctionOnSet(g, X) <= SumFunctionOnSet(f, X)}
<1>1. /\ IsFiniteSet(S)
      /\ \A c \in S : f[c] \in Int /\ g[c] \in Int /\ g[c] <= f[c]
  BY NetIsInt DEF BindingMap
<1>2. NetBorrowed(bs) = SumFunctionOnSet(f, S) /\ NetBorrowed(xs) = SumFunctionOnSet(g, S)
  BY NetIsSum
<1> HIDE DEF S, f, g
<1>3. ASSUME NEW X \in SUBSET S
      PROVE  SumFunctionOnSet(f, X) \in Int /\ SumFunctionOnSet(g, X) \in Int /\ IsFiniteSet(X)
  BY <1>1, FS_Subset, SumIsNumber
<1>4. ASSUME NEW X \in SUBSET S, \A Y \in SUBSET X : Y # X => Y \in G
      PROVE  X \in G
  <2>1. CASE X = {}
    <3>1. SumFunctionOnSet(f, X) = SumFunctionOnSet(g, X)
      BY <1>3, <2>1, SumOfTheSame
    <3> QED BY <1>3, <3>1
  <2>2. CASE X # {}
    <3> DEFINE x == CHOOSE y \in X : TRUE
    <3>1. x \in X /\ X \ {x} # X /\ X \ {x} \in SUBSET X /\ x \in S
      BY <2>2
    <3>2. /\ SumFunctionOnSet(f, X) = f[x] + SumFunctionOnSet(f, X \ {x})
          /\ SumFunctionOnSet(g, X) = g[x] + SumFunctionOnSet(g, X \ {x})
      BY <1>3, <2>2, <3>1, SumUnfolds
    <3> HIDE DEF x
    <3>3. X \ {x} \in G
      BY <1>4, <3>1
    <3>4. SumFunctionOnSet(g, X \ {x}) <= SumFunctionOnSet(f, X \ {x})
      BY <3>3
    <3>5. SumFunctionOnSet(g, X \ {x}) \in Int /\ SumFunctionOnSet(f, X \ {x}) \in Int
      BY <1>3, <3>1
    <3>6. f[x] \in Int /\ g[x] \in Int /\ g[x] <= f[x]
      BY <1>1, <3>1
    <3>7. SumFunctionOnSet(g, X) <= SumFunctionOnSet(f, X)
      BY <3>2, <3>4, <3>5, <3>6
    <3> QED BY <3>7
  <2> QED BY <2>1, <2>2
<1>5. S \in G
  <2> HIDE DEF G
  <2> QED BY <1>1, <1>4, StrongSetInduction
<1> QED BY <1>2, <1>3, <1>5

(* What one caller has more another has less.                                *)
LEMMA NetMoved ==
  ASSUME NEW bs, BindingMap(bs), NEW xs, BindingMap(xs), DOMAIN xs = DOMAIN bs,
         NEW a \in DOMAIN bs, NEW z \in DOMAIN bs,
         \A c \in DOMAIN bs \ {a, z} : Net(xs[c]) = Net(bs[c]),
         a = z => Net(xs[a]) = Net(bs[a]),
         a # z => Net(xs[a]) - Net(bs[a]) = Net(bs[z]) - Net(xs[z])
  PROVE  NetBorrowed(xs) = NetBorrowed(bs)
<1>1. \A c \in DOMAIN bs : Net(bs[c]) \in Int /\ Net(xs[c]) \in Int
  BY DEF BindingMap, Binding, Net
<1>2. CASE a = z
  BY <1>2, NetSame
<1>3. CASE a # z
  <2> DEFINE f == [c \in DOMAIN bs |-> Net(bs[c])]
             h == [c \in DOMAIN bs |-> IF c = a THEN Net(xs[c]) ELSE Net(bs[c])]
             g == [c \in DOMAIN xs |-> Net(xs[c])]
  <2>1. NetBorrowed(bs) = SumFunctionOnSet(f, DOMAIN bs) /\ NetBorrowed(xs) = SumFunctionOnSet(g, DOMAIN bs)
    BY NetIsSum
  <2>2. /\ \A c \in DOMAIN bs : f[c] \in Int /\ h[c] \in Int /\ g[c] \in Int
        /\ \A c \in DOMAIN bs \ {a} : f[c] = h[c]
        /\ \A c \in DOMAIN bs \ {z} : h[c] = g[c]
        /\ h[a] = Net(xs[a]) /\ f[a] = Net(bs[a]) /\ h[z] = Net(bs[z]) /\ g[z] = Net(xs[z])
    BY <1>1, <1>3
  <2> HIDE DEF f, g, h
  <2>3. SumFunctionOnSet(h, DOMAIN bs) = SumFunctionOnSet(f, DOMAIN bs) + (h[a] - f[a])
    BY <2>2, SumChanges DEF BindingMap
  <2>4. SumFunctionOnSet(g, DOMAIN bs) = SumFunctionOnSet(h, DOMAIN bs) + (g[z] - h[z])
    BY <2>2, SumChanges DEF BindingMap
  <2>5. SumFunctionOnSet(f, DOMAIN bs) \in Int
    BY <2>2, SumIsNumber DEF BindingMap
  <2> QED BY <1>1, <1>3, <2>1, <2>2, <2>3, <2>4, <2>5
<1> QED BY <1>2, <1>3

(******************************** the steps *********************************)

StaysCovered == \A c \in BoundCallers : Covered(c) => Rebound(c) \/ Covered(c)'
Moved == \/ \E c \in Callers : Rebound(c)
         \/ NetBorrowed(bindings') = NetBorrowed(bindings)
         \/ RestartLimiter(FALSE) /\ NetBorrowed(bindings') < NetBorrowed(bindings)
FairStep ==
  \A i, j \in DOMAIN waitQueue :
    /\ i < j
    /\ waitQueue[i].caller = waitQueue[j].caller
    /\ waitQueue[i].tokens <= waitQueue[j].tokens
    /\ waitQueue[j].timeout > now'
    /\ waitQueue[j].id \notin Ids(waitQueue')
    => waitQueue[i].id \notin Ids(waitQueue')
GoodStep == QuotaInv' /\ StaysCovered /\ Moved /\ FairStep

(* The bindings after a step, and the callers with one.                      *)
BooksGood(bs, rows) == BindingsOK(bs) /\ BindingsOK(rows) /\ RowsAgree(bs, rows)

LEMMA CoveredIs ==
  ASSUME NEW c
  PROVE  /\ Covered(c) <=> c \in DOMAIN bindings /\ bindings[c].reserved >= ActiveIn(reservations, c)
         /\ Covered(c)' <=> c \in DOMAIN bindings' /\ bindings'[c].reserved >= ActiveIn(reservations', c)
BY DEF Covered, BoundCallers, ActiveTokens, ActiveIn, ActiveOf

LEMMA InvFacts ==
  ASSUME QuotaInv
  PROVE  /\ bound \in BoundSet /\ bound.time \in Nat /\ bound.items \in Nat /\ bound.reservations \in Nat
         /\ bound.amounts \subseteq Nat \ {0} /\ bound.callers \subseteq Callers /\ now \in Nat
         /\ BooksGood(bindings, bindingRows)
         /\ BindingMap(bindings) /\ BindingMap(bindingRows)
<1>1. bound \in BoundSet
  BY RateLimitAssumption DEF QuotaInv
<1>2. /\ bound.time \in Nat /\ bound.items \in Nat /\ bound.reservations \in Nat
      /\ bound.amounts \subseteq Nat \ {0} /\ bound.callers \subseteq Callers
  BY <1>1 DEF BoundSet
<1>3. now \in Nat
  BY <1>2 DEF QuotaInv
<1> QED BY <1>1, <1>2, <1>3 DEF QuotaInv, BooksGood, BindingsOK, BindingMap

LEMMA ReservationsAreMap ==
  ASSUME NEW rs, NEW rows, NEW t, ReservationsOK(rs, rows, t)
  PROVE  ReservationMap(rs) /\ DOMAIN rs \subseteq 1..Len(rows) /\ Len(rows) \in Nat
<1>1. Len(rows) \in Nat /\ DOMAIN rows = 1..Len(rows)
  BY DEF ReservationsOK
<1>2. IsFiniteSet(1..Len(rows))
  BY <1>1, FS_Interval
<1>3. IsFiniteSet(DOMAIN rs)
  BY <1>1, <1>2, FS_Subset DEF ReservationsOK
<1> QED BY <1>1, <1>3 DEF ReservationsOK, ReservationMap

(* A queue that is left alone, or gets one more, is fair.                    *)
LEMMA QueueGrows ==
  ASSUME \A i \in DOMAIN waitQueue : i \in DOMAIN waitQueue' /\ waitQueue'[i] = waitQueue[i]
  PROVE  FairStep
<1>1. \A i \in DOMAIN waitQueue : waitQueue[i].id \in Ids(waitQueue')
  BY DEF Ids
<1> QED BY <1>1 DEF FairStep

(* A step that leaves the queue alone and time where it is, or not before.   *)
LEMMA StepKeeps ==
  ASSUME QuotaInv, bound' = bound, beat' \in BOOLEAN, now' \in now..bound.time,
         policies' \subseteq Policies,
         waitQueue' = waitQueue, queueRows' = queueRows, lastItem' = lastItem,
         BooksGood(bindings', bindingRows'), DOMAIN bindings \subseteq DOMAIN bindings',
         ReservationsOK(reservations', reservationRows', now'),
         Len(reservationRows') <= bound.reservations, NotOverbooked(reservations', bound.time),
         borrowRows' \in Seq(BorrowRecord), StaysCovered, Moved
  PROVE  GoodStep
<1>1. now' \in 0..bound'.time
  BY InvFacts
<1>2. QueueOK(waitQueue', queueRows', lastItem', DOMAIN bindings')
  BY DEF QuotaInv, QueueOK
<1>3. FairStep
  BY QueueGrows
<1> QED BY <1>1, <1>2, <1>3 DEF GoodStep, QuotaInv, BooksGood

(* One caller's binding written to memory and table.                         *)
LEMMA WrittenOnce ==
  ASSUME NEW bs, NEW rows, BooksGood(bs, rows), NEW c \in DOMAIN bs, NEW b \in Binding,
         b.used <= EffectiveLimit(b)
  PROVE  LET x == [bs EXCEPT ![c] = b]
             y == UpdateCallerBinding(rows, c, b)
         IN /\ BooksGood(x, y) /\ DOMAIN x = DOMAIN bs /\ DOMAIN y = DOMAIN bs
            /\ x[c] = b /\ y[c] = b
            /\ \A d \in DOMAIN bs \ {c} : x[d] = bs[d] /\ y[d] = rows[d]
<1> DEFINE x == [bs EXCEPT ![c] = b]
           y == UpdateCallerBinding(rows, c, b)
<1>1. DOMAIN rows = DOMAIN bs
  BY DEF BooksGood, RowsAgree
<1>2. /\ DOMAIN x = DOMAIN bs /\ DOMAIN y = DOMAIN bs /\ x[c] = b /\ y[c] = b
      /\ \A d \in DOMAIN bs \ {c} : x[d] = bs[d] /\ y[d] = rows[d]
  BY <1>1 DEF UpdateCallerBinding
<1>3. x \in [DOMAIN bs -> Binding] /\ y \in [DOMAIN bs -> Binding]
  BY <1>1 DEF BooksGood, BindingsOK, UpdateCallerBinding
<1> HIDE DEF x, y
<1>4. BindingsOK(x) /\ BindingsOK(y)
  <2>1. \A d \in DOMAIN bs : x[d].used <= EffectiveLimit(x[d]) /\ y[d].used <= EffectiveLimit(y[d])
    BY <1>1, <1>2 DEF BooksGood, BindingsOK
  <2> QED BY <1>1, <1>2, <1>3, <2>1 DEF BooksGood, BindingsOK
<1>5. RowsAgree(x, y)
  <2>1. Net(b) <= Net(b)
    BY DEF Binding, Net
  <2> QED BY <1>2, <2>1 DEF BooksGood, RowsAgree
<1> QED BY <1>2, <1>4, <1>5 DEF BooksGood, x, y

(* An operation that writes one binding and touches no reservation.          *)
LEMMA SaveStep ==
  ASSUME QuotaInv, NEW c \in DOMAIN bindings, NEW b \in Binding, b.used <= EffectiveLimit(b),
         b.borrowed = bindings[c].borrowed, b.lent = bindings[c].lent, 
         Save(c, b)
  PROVE  /\ BooksGood(bindings', bindingRows') /\ DOMAIN bindings' = DOMAIN bindings /\ Moved
         /\ b.reserved = bindings[c].reserved /\ reservations' = reservations => StaysCovered
<1>1. BooksGood(bindings, bindingRows) /\ BindingMap(bindings) /\ BindingMap(bindingRows)
  BY InvFacts
<1>2. bindings' = [bindings EXCEPT ![c] = b] /\ bindingRows' = UpdateCallerBinding(bindingRows, c, b)
  BY DEF Save
<1>3. /\ BooksGood(bindings', bindingRows') /\ DOMAIN bindings' = DOMAIN bindings
      /\ DOMAIN bindingRows' = DOMAIN bindings
      /\ bindings'[c] = b /\ bindingRows'[c] = b
      /\ \A d \in DOMAIN bindings \ {c} : bindings'[d] = bindings[d] /\ bindingRows'[d] = bindingRows[d]
  <2> DEFINE x == [bindings EXCEPT ![c] = b]
             y == UpdateCallerBinding(bindingRows, c, b)
  <2>1. /\ BooksGood(x, y) /\ DOMAIN x = DOMAIN bindings /\ DOMAIN y = DOMAIN bindings
        /\ x[c] = b /\ y[c] = b
        /\ \A d \in DOMAIN bindings \ {c} : x[d] = bindings[d] /\ y[d] = bindingRows[d]
    BY <1>1, WrittenOnce
  <2>2. bindings' = x /\ bindingRows' = y
    BY <1>2
  <2> HIDE DEF x, y
  <2> QED BY <2>1, <2>2
<1>4. Net(b) = Net(bindings[c])
  BY DEF Net
<1>5. \A d \in DOMAIN bindings : Net(bindings'[d]) = Net(bindings[d])
  BY <1>3, <1>4
<1>7. NetBorrowed(bindings') = NetBorrowed(bindings)
  BY <1>1, <1>3, <1>5, NetSame
<1>8. ASSUME b.reserved = bindings[c].reserved, reservations' = reservations PROVE StaysCovered
  BY <1>3, <1>8, CoveredIs DEF StaysCovered, BoundCallers
<1> QED BY <1>3, <1>7, <1>8 DEF Moved

(* A step that leaves bindings and reservations alone.                       *)
LEMMA BooksSame ==
  ASSUME bindings' = bindings, bindingRows' = bindingRows, reservations' = reservations
  PROVE  StaysCovered /\ Moved
BY CoveredIs DEF StaysCovered, Moved, BoundCallers

(* Time that passes completes nothing that was seen.                         *)
LEMMA ReservationsLater ==
  ASSUME NEW rs, NEW rows, NEW t \in Nat, NEW u \in Nat, t <= u, ReservationsOK(rs, rows, t)
  PROVE  ReservationsOK(rs, rows, u)
<1>1. \A i \in DOMAIN rows : rows[i].end \in Nat
  <2>1. \A i \in DOMAIN rows : rows[i] \in Reservation
    BY ElementOfSeq DEF ReservationsOK
  <2> QED BY <2>1 DEF Reservation
<1>2. \A i \in DOMAIN rs : EndedUnseen(rs[i], rows[i], t) => EndedUnseen(rs[i], rows[i], u)
  BY <1>1 DEF EndedUnseen, ReservationsOK
<1> QED BY <1>2 DEF ReservationsOK

LEMMA TimeStep ==
  ASSUME QuotaInv, TimePasses
  PROVE  GoodStep
<1>1. now \in Nat /\ bound.time \in Nat /\ BooksGood(bindings, bindingRows)
  BY InvFacts
<1>2. now' \in now..bound.time /\ now' \in Nat /\ now <= now'
  BY <1>1 DEF TimePasses
<1>3. ReservationsOK(reservations', reservationRows', now')
  BY <1>1, <1>2, ReservationsLater DEF TimePasses, QuotaInv
<1>4. StaysCovered /\ Moved
  BY BooksSame DEF TimePasses
<1>5. /\ bound' = bound /\ beat' \in BOOLEAN /\ policies' \subseteq Policies
      /\ waitQueue' = waitQueue /\ queueRows' = queueRows /\ lastItem' = lastItem
      /\ BooksGood(bindings', bindingRows') /\ DOMAIN bindings \subseteq DOMAIN bindings'
      /\ Len(reservationRows') <= bound.reservations /\ NotOverbooked(reservations', bound.time)
      /\ borrowRows' \in Seq(BorrowRecord)
  BY <1>1 DEF TimePasses, QuotaInv
<1> QED BY <1>2, <1>3, <1>4, <1>5, StepKeeps

(* What a step leaves alone that only changes bindings.                      *)
OnlyBooks ==
  /\ bound' = bound /\ beat' \in BOOLEAN /\ now' = now /\ policies' \subseteq Policies
  /\ reservations' = reservations /\ reservationRows' = reservationRows

LEMMA OnlyBooksKeep ==
  ASSUME QuotaInv, OnlyBooks
  PROVE  /\ bound' = bound /\ beat' \in BOOLEAN /\ now' \in now..bound.time /\ policies' \subseteq Policies
         /\ ReservationsOK(reservations', reservationRows', now')
         /\ Len(reservationRows') <= bound.reservations /\ NotOverbooked(reservations', bound.time)
<1>1. now \in Nat /\ bound.time \in Nat /\ now <= bound.time
  BY InvFacts DEF QuotaInv
<1> QED BY <1>1 DEF OnlyBooks, QuotaInv

LEMMA BooksStep ==
  ASSUME QuotaInv, OnlyBooks, waitQueue' = waitQueue, queueRows' = queueRows, lastItem' = lastItem,
         borrowRows' \in Seq(BorrowRecord),
         BooksGood(bindings', bindingRows'), DOMAIN bindings \subseteq DOMAIN bindings',
         StaysCovered, Moved
  PROVE  GoodStep
BY OnlyBooksKeep, StepKeeps

LEMMA PolicyStep ==
  ASSUME QuotaInv, NEW p \in Policies, CreatePolicy(p)
  PROVE  GoodStep
<1>1. BooksGood(bindings, bindingRows)
  BY InvFacts
<1>2. OnlyBooks /\ waitQueue' = waitQueue /\ queueRows' = queueRows /\ lastItem' = lastItem
  BY DEF CreatePolicy, OnlyBooks, QuotaInv
<1>3. StaysCovered /\ Moved
  BY BooksSame DEF CreatePolicy
<1>4. /\ borrowRows' \in Seq(BorrowRecord) /\ BooksGood(bindings', bindingRows')
      /\ DOMAIN bindings \subseteq DOMAIN bindings'
  BY <1>1 DEF CreatePolicy, QuotaInv
<1> QED BY <1>2, <1>3, <1>4, BooksStep

LEMMA BindStep ==
  ASSUME QuotaInv, NEW c \in Callers, NEW p \in Policies, NEW n \in bound.amounts, BindCaller(c, p, n)
  PROVE  GoodStep
<1> DEFINE b == [policy |-> p, quota |-> Min({n, MaxTokens[p]}), used |-> 0,
                 borrowed |-> 0, lent |-> 0, reserved |-> 0]
<1>1. BooksGood(bindings, bindingRows) /\ n \in Nat
  BY InvFacts
<1>2. b \in Binding /\ b.used <= EffectiveLimit(b)
  <2>1. MaxTokens[p] \in Nat
    BY RateLimitAssumption
  <2>2. Min({n, MaxTokens[p]}) \in Nat
    BY <1>1, <2>1, SmallerOfTwo
  <2>3. b \in Binding /\ b.used = 0
    BY <2>2 DEF Binding
  <2> HIDE DEF b
  <2>4. EffectiveLimit(b) \in Nat
    BY <2>3, LimitIs
  <2> QED BY <2>3, <2>4
<1>3. /\ bindings' = [x \in DOMAIN bindings \cup {c} |-> IF x = c THEN b ELSE bindings[x]]
      /\ bindingRows' = [x \in DOMAIN bindingRows \cup {c} |-> IF x = c THEN b ELSE bindingRows[x]]
  BY DEF BindCaller
<1> HIDE DEF b
<1>4. DOMAIN bindingRows = DOMAIN bindings /\ DOMAIN bindings' = DOMAIN bindings \cup {c}
      /\ DOMAIN bindingRows' = DOMAIN bindings \cup {c}
  BY <1>1, <1>3 DEF BooksGood, RowsAgree
<1>5. IsFiniteSet(DOMAIN bindings \cup {c})
  BY <1>1, FS_AddElement DEF BooksGood, BindingsOK
<1>6. BindingsOK(bindings') /\ BindingsOK(bindingRows')
  BY <1>1, <1>2, <1>3, <1>4, <1>5 DEF BooksGood, BindingsOK
<1>7. RowsAgree(bindings', bindingRows')
  <2>1. Net(b) <= Net(b)
    BY <1>2 DEF Binding, Net
  <2> QED BY <1>1, <1>3, <1>4, <2>1 DEF BooksGood, RowsAgree
<1>8. Rebound(c)
  BY DEF Rebound
<1>9. Moved
  BY <1>8 DEF Moved
<1>10. StaysCovered
  <2>1. \A d \in DOMAIN bindings \ {c} : bindings'[d] = bindings[d]
    BY <1>3
  <2>2. reservations' = reservations
    BY DEF BindCaller
  <2> QED BY <1>4, <1>8, <2>1, <2>2, CoveredIs DEF StaysCovered, BoundCallers
<1>11. OnlyBooks /\ waitQueue' = waitQueue /\ queueRows' = queueRows /\ lastItem' = lastItem
       /\ borrowRows' \in Seq(BorrowRecord)
  BY DEF BindCaller, OnlyBooks, QuotaInv
<1> QED BY <1>4, <1>6, <1>7, <1>9, <1>10, <1>11, BooksStep DEF BooksGood

(* A binding after a look, with another use within the limit.                *)
LEMMA LookedAt ==
  ASSUME QuotaInv, NEW c \in DOMAIN bindings, NEW b \in Reconcile(bindings[c])
  PROVE  /\ b \in Binding /\ b.used \in Nat /\ b.used <= EffectiveLimit(b)
         /\ EffectiveLimit(b) \in Nat
         /\ \A part \in Agreed : b[part] = bindings[c][part]
         /\ bindings[c] \in Binding
<1>1. bindings[c] \in Binding /\ bindings[c].used <= EffectiveLimit(bindings[c])
  BY InvFacts DEF BooksGood, BindingsOK
<1>2. SameButUsed(bindings[c], b) /\ b.used <= bindings[c].used
      /\ EffectiveLimit(b) = EffectiveLimit(bindings[c])
  BY <1>1, ReconcileKeeps
<1>3. b \in Binding
  BY <1>2 DEF SameButUsed
<1>4. b.used \in Nat /\ bindings[c].used \in Nat /\ EffectiveLimit(b) \in Nat
  BY <1>1, <1>3, LimitIs DEF Binding
<1> QED BY <1>1, <1>2, <1>3, <1>4 DEF SameButUsed

LEMMA UsedStep ==
  ASSUME QuotaInv, NEW c \in DOMAIN bindings, NEW b \in Reconcile(bindings[c]), NEW u \in Nat,
         u <= EffectiveLimit(b), Save(c, [b EXCEPT !.used = u]), reservations' = reservations
  PROVE  /\ BooksGood(bindings', bindingRows') /\ DOMAIN bindings' = DOMAIN bindings
         /\ Moved /\ StaysCovered
<1> DEFINE x == [b EXCEPT !.used = u]
<1>1. b \in Binding /\ \A part \in Agreed : b[part] = bindings[c][part]
  BY LookedAt
<1>2. SameButUsed(b, x) /\ x.used = u
  BY <1>1, UsedIsSet
<1>3. EffectiveLimit(x) = EffectiveLimit(b)
  BY <1>1, <1>2, SameLimit
<1>4. Save(c, x)
  OBVIOUS
<1> HIDE DEF x
<1>5. x \in Binding /\ x.borrowed = bindings[c].borrowed /\ x.lent = bindings[c].lent
      /\ x.reserved = bindings[c].reserved
  BY <1>1, <1>2 DEF SameButUsed, Agreed
<1>6. x.used <= EffectiveLimit(x)
  BY <1>2, <1>3
<1> QED BY <1>4, <1>5, <1>6, SaveStep

LEMMA UseAsIs ==
  ASSUME NEW b \in Binding
  PROVE  b = [b EXCEPT !.used = b.used]
BY DEF Binding

(* One more that waits, with an id above all others.                         *)
Follows(x, q) == \A i \in DOMAIN q : i \in DOMAIN x /\ x[i] = q[i]

LEMMA WaitsLast ==
  ASSUME NEW q, NEW rows, NEW last \in Nat, NEW cs, QueueOK(q, rows, last, cs),
         NEW item \in WaitItem, item.id = last + 1, item.caller \in cs,
         NEW x, x = Append(q, item), NEW more, more = rows \cup {item}, NEW next, next = last + 1
  PROVE  QueueOK(x, more, next, cs) /\ Follows(x, q)
<1>1. q \in Seq(WaitItem) /\ Len(q) \in Nat /\ DOMAIN q = 1..Len(q)
  BY DEF QueueOK
<1>2. /\ x \in Seq(WaitItem) /\ DOMAIN x = 1..(Len(q) + 1) /\ x[Len(q) + 1] = item
      /\ \A i \in 1..Len(q) : x[i] = q[i]
  <2>1. Len(x) = Len(q) + 1 /\ x \in Seq(WaitItem)
    BY <1>1, AppendProperties
  <2>2. DOMAIN x = 1..Len(x)
    BY <2>1
  <2> QED BY <1>1, <2>1, <2>2, AppendProperties
<1>3. \A r \in rows : r.id \in Nat /\ r.id <= last /\ r.id \in 1..(last + 1)
  BY DEF QueueOK
<1>4. \A r \in rows \cup {item} : r.id \in 1..(last + 1) /\ r.caller \in cs
  BY <1>3 DEF QueueOK
<1>5. \A r, s \in rows \cup {item} : r.id = s.id => r = s
  BY <1>3 DEF QueueOK
<1>6. \A i \in DOMAIN x : x[i] \in rows \cup {item}
  BY <1>1, <1>2 DEF QueueOK
<1>7. ASSUME NEW i \in DOMAIN x, NEW j \in DOMAIN x, i < j
      PROVE  x[i].id < x[j].id
  <2>1. i \in 1..Len(q) /\ x[i] = q[i] /\ q[i] \in rows
    BY <1>1, <1>2, <1>7 DEF QueueOK
  <2>2. CASE j = Len(q) + 1
    BY <1>2, <1>3, <2>1, <2>2
  <2>3. CASE j # Len(q) + 1
    <3>1. j \in 1..Len(q) /\ x[j] = q[j]
      BY <1>1, <1>2, <2>3
    <3> QED BY <1>1, <1>7, <2>1, <3>1 DEF QueueOK
  <2> QED BY <2>2, <2>3
<1>8. rows \cup {item} \subseteq WaitItem
  BY DEF QueueOK
<1>9. QueueOK(x, rows \cup {item}, last + 1, cs)
  BY <1>2, <1>4, <1>5, <1>6, <1>7, <1>8 DEF QueueOK
<1>10. \A i \in DOMAIN q : i \in DOMAIN x /\ x[i] = q[i]
  BY <1>1, <1>2
<1> QED BY <1>9, <1>10 DEF Follows

LEMMA WaitStep ==
  ASSUME QuotaInv, OnlyBooks, borrowRows' = borrowRows,
         BooksGood(bindings', bindingRows'), DOMAIN bindings' = DOMAIN bindings,
         StaysCovered, Moved,
         NEW c \in DOMAIN bindings, NEW n \in Nat, NEW t \in Nat, AddWaitItem(c, n, t)
  PROVE  GoodStep
<1> DEFINE item == [id |-> lastItem + 1, caller |-> c, tokens |-> n, timeout |-> t]
<1>1. bound.items \in Nat /\ DOMAIN bindings \subseteq Callers
  BY InvFacts DEF BooksGood, BindingsOK
<1>2. lastItem \in Nat /\ lastItem + 1 \in 0..bound.items
  BY <1>1 DEF QuotaInv, AddWaitItem
<1>3. item \in WaitItem /\ item.id = lastItem + 1 /\ item.caller = c
  BY <1>1, <1>2 DEF WaitItem
<1>4. waitQueue' = Append(waitQueue, item) /\ queueRows' = queueRows \cup {item} /\ lastItem' = lastItem + 1
  BY DEF AddWaitItem
<1> HIDE DEF item
<1>5. /\ QueueOK(waitQueue', queueRows', lastItem', DOMAIN bindings)
      /\ \A i \in DOMAIN waitQueue : i \in DOMAIN waitQueue' /\ waitQueue'[i] = waitQueue[i]
  <2>1. QueueOK(waitQueue, queueRows, lastItem, DOMAIN bindings)
    BY DEF QuotaInv
  <2> DEFINE cs == DOMAIN bindings
             x == waitQueue'
             more == queueRows'
             next == lastItem'
  <2>2. item \in WaitItem /\ item.id = lastItem + 1 /\ item.caller \in cs
    BY <1>3
  <2>3. x = Append(waitQueue, item) /\ more = queueRows \cup {item} /\ next = lastItem + 1
    BY <1>4
  <2>4. QueueOK(waitQueue, queueRows, lastItem, cs)
    BY <2>1
  <2> HIDE DEF cs, x, more, next
  <2>5. QueueOK(x, more, next, cs) /\ Follows(x, waitQueue)
    BY <1>2, <2>2, <2>3, <2>4, WaitsLast
  <2> QED BY <2>5 DEF Follows, cs, x, more, next
<1>6. FairStep
  BY <1>5, QueueGrows
<1>7. now' \in 0..bound'.time
  BY InvFacts DEF OnlyBooks, QuotaInv
<1> QED BY <1>2, <1>4, <1>5, <1>6, <1>7, OnlyBooksKeep DEF GoodStep, QuotaInv, BooksGood

LEMMA RequestStep ==
  ASSUME QuotaInv, NEW c \in DOMAIN bindings, NEW n \in bound.amounts, RequestTokens(c, n)
  PROVE  GoodStep
<1>1. n \in Nat /\ now \in Nat /\ bound.time \in Nat
  BY InvFacts
<1>2. PICK b \in Reconcile(bindings[c]) :
        \/ /\ Remaining(b) >= n
           /\ Save(c, [b EXCEPT !.used = @ + n])
           /\ UNCHANGED <<waitQueue, queueRows, lastItem>>
        \/ Save(c, b) /\ UNCHANGED <<waitQueue, queueRows, lastItem>>
        \/ Save(c, b) /\ \E t \in (now + 1)..bound.time : AddWaitItem(c, n, t)
  BY DEF RequestTokens
<1>3. OnlyBooks /\ borrowRows' = borrowRows /\ borrowRows' \in Seq(BorrowRecord) /\ reservations' = reservations
  BY DEF RequestTokens, OnlyBooks, QuotaInv
<1>4. b \in Binding /\ b.used \in Nat /\ b.used <= EffectiveLimit(b) /\ EffectiveLimit(b) \in Nat
  BY LookedAt
<1>5. CASE /\ Remaining(b) >= n /\ Save(c, [b EXCEPT !.used = @ + n])
           /\ UNCHANGED <<waitQueue, queueRows, lastItem>>
  <2>1. b.used + n \in Nat /\ b.used + n <= EffectiveLimit(b)
    <3>1. Remaining(b) = EffectiveLimit(b) - b.used
      BY <1>4, LimitIs
    <3> QED BY <1>1, <1>4, <1>5, <3>1
  <2>2. Save(c, [b EXCEPT !.used = b.used + n])
    BY <1>5
  <2>3. /\ BooksGood(bindings', bindingRows') /\ DOMAIN bindings' = DOMAIN bindings
        /\ Moved /\ StaysCovered
    BY <1>3, <2>1, <2>2, UsedStep
  <2> QED BY <1>3, <1>5, <2>3, BooksStep
<1>6. CASE Save(c, b) /\ \/ UNCHANGED <<waitQueue, queueRows, lastItem>>
                         \/ \E t \in (now + 1)..bound.time : AddWaitItem(c, n, t)
  <2>1. Save(c, [b EXCEPT !.used = b.used])
    BY <1>4, <1>6, UseAsIs
  <2>2. /\ BooksGood(bindings', bindingRows') /\ DOMAIN bindings' = DOMAIN bindings
        /\ Moved /\ StaysCovered
    BY <1>3, <1>4, <2>1, UsedStep
  <2>3. CASE UNCHANGED <<waitQueue, queueRows, lastItem>>
    BY <1>3, <2>2, <2>3, BooksStep
  <2>4. ASSUME NEW t \in (now + 1)..bound.time, AddWaitItem(c, n, t) PROVE GoodStep
    <3>1. t \in Nat
      BY <1>1
    <3> QED BY <1>1, <1>3, <2>2, <2>4, <3>1, WaitStep
  <2> QED BY <1>6, <2>3, <2>4
<1> QED BY <1>2, <1>5, <1>6

LEMMA ReturnTokensStep ==
  ASSUME QuotaInv, NEW c \in DOMAIN bindings, NEW n \in bound.amounts, ReturnTokens(c, n)
  PROVE  GoodStep
<1>1. n \in Nat
  BY InvFacts
<1>2. PICK b \in Reconcile(bindings[c]) : Save(c, [b EXCEPT !.used = Max({0, @ - n})])
  BY DEF ReturnTokens
<1>3. /\ OnlyBooks /\ borrowRows' \in Seq(BorrowRecord) /\ reservations' = reservations
      /\ waitQueue' = waitQueue /\ queueRows' = queueRows /\ lastItem' = lastItem
  BY DEF ReturnTokens, OnlyBooks, QuotaInv
<1>4. b \in Binding /\ b.used \in Nat /\ b.used <= EffectiveLimit(b) /\ EffectiveLimit(b) \in Nat
  BY LookedAt
<1> DEFINE u == Max({0, b.used - n})
<1>5. u \in Nat /\ u <= EffectiveLimit(b)
  <2>1. Max({0, b.used - n}) = IF 0 >= b.used - n THEN 0 ELSE b.used - n
    BY <1>1, <1>4, MaxOfTwo
  <2> HIDE DEF u
  <2>2. u = IF 0 >= b.used - n THEN 0 ELSE b.used - n
    BY <2>1 DEF u
  <2> QED BY <1>1, <1>4, <2>2
<1>6. Save(c, [b EXCEPT !.used = u])
  BY <1>2
<1> HIDE DEF u
<1>7. /\ BooksGood(bindings', bindingRows') /\ DOMAIN bindings' = DOMAIN bindings
      /\ Moved /\ StaysCovered
  BY <1>3, <1>5, <1>6, UsedStep
<1> QED BY <1>3, <1>7, BooksStep

LEMMA AdjustStep ==
  ASSUME QuotaInv, NEW c \in DOMAIN bindings, NEW n \in Nat, AdjustQuota(c, n)
  PROVE  GoodStep
<1>1. PICK b \in Reconcile(bindings[c]) : Save(c, Clamp([b EXCEPT !.quota = n]))
  BY DEF AdjustQuota
<1>2. /\ OnlyBooks /\ borrowRows' \in Seq(BorrowRecord) /\ reservations' = reservations
      /\ waitQueue' = waitQueue /\ queueRows' = queueRows /\ lastItem' = lastItem
  BY DEF AdjustQuota, OnlyBooks, QuotaInv
<1>3. b \in Binding /\ \A part \in Agreed : b[part] = bindings[c][part]
  BY LookedAt
<1> DEFINE m == [b EXCEPT !.quota = n]
           x == Clamp(m)
<1>4. m \in Binding /\ m.borrowed = b.borrowed /\ m.lent = b.lent /\ m.reserved = b.reserved
  BY <1>3, PartIsSet
<1>5. Save(c, x)
  BY <1>1
<1>6. SameButUsed(m, x) /\ EffectiveLimit(x) = EffectiveLimit(m) /\ x.used <= EffectiveLimit(m)
  <2> HIDE DEF m
  <2> QED BY <1>4, ClampKeeps
<1> HIDE DEF m, x
<1>7. x \in Binding /\ x.used <= EffectiveLimit(x) /\ x.borrowed = bindings[c].borrowed
      /\ x.lent = bindings[c].lent /\ x.reserved = bindings[c].reserved
  BY <1>3, <1>4, <1>6 DEF SameButUsed, Agreed
<1>8. /\ BooksGood(bindings', bindingRows') /\ DOMAIN bindings' = DOMAIN bindings
      /\ Moved /\ StaysCovered
  BY <1>2, <1>5, <1>7, SaveStep
<1> QED BY <1>2, <1>8, BooksStep

(* A look at some of the callers.                                            *)
LEMMA RefreshedKeeps ==
  ASSUME NEW bs, BindingsOK(bs), NEW cs, NEW x \in Refreshed(bs, cs)
  PROVE  /\ BindingsOK(x) /\ DOMAIN x = DOMAIN bs
         /\ \A c \in DOMAIN bs : SameButUsed(bs[c], x[c])
         /\ \A c \in DOMAIN bs \ cs : x[c] = bs[c]
<1>1. /\ DOMAIN x = DOMAIN bs
      /\ \A c \in DOMAIN bs : x[c] \in IF c \in cs THEN Reconcile(bs[c]) ELSE {bs[c]}
      /\ x = [c \in DOMAIN bs |-> x[c]]
  BY DEF Refreshed
<1>2. ASSUME NEW c \in DOMAIN bs
      PROVE  SameButUsed(bs[c], x[c]) /\ x[c].used <= EffectiveLimit(x[c])
  <2>1. bs[c] \in Binding /\ bs[c].used <= EffectiveLimit(bs[c])
    BY DEF BindingsOK
  <2>2. CASE x[c] \in Reconcile(bs[c])
    <3>1. SameButUsed(bs[c], x[c]) /\ x[c].used <= bs[c].used /\ EffectiveLimit(x[c]) = EffectiveLimit(bs[c])
      BY <2>1, <2>2, ReconcileKeeps
    <3>2. bs[c].used \in Nat /\ x[c].used \in Nat /\ EffectiveLimit(bs[c]) \in Nat
      BY <2>1, <3>1, LimitIs DEF Binding, SameButUsed
    <3> QED BY <2>1, <3>1, <3>2
  <2>3. CASE x[c] = bs[c]
    BY <2>1, <2>3 DEF SameButUsed
  <2> QED BY <1>1, <2>2, <2>3
<1>3. \A c \in DOMAIN bs : x[c] \in Binding
  BY <1>2 DEF SameButUsed
<1>4. BindingsOK(x)
  BY <1>1, <1>2, <1>3 DEF BindingsOK
<1> QED BY <1>1, <1>2, <1>4

(* A look leaves what is agreed with the rows.                               *)
LEMMA RefreshedAgrees ==
  ASSUME NEW bs, BindingsOK(bs), NEW rows, RowsAgree(bs, rows), NEW cs, NEW x \in Refreshed(bs, cs)
  PROVE  RowsAgree(x, rows)
BY RefreshedKeeps DEF RowsAgree, SameButUsed, Agreed, Net

(* More to use is a higher limit.                                            *)
LEMMA LimitGrows ==
  ASSUME NEW b \in Binding, NEW x \in Binding, x.policy = b.policy, x.quota = b.quota,
         b.borrowed - b.lent + b.reserved <= x.borrowed - x.lent + x.reserved
  PROVE  EffectiveLimit(b) <= EffectiveLimit(x)
<1> DEFINE quota == IF b.quota <= MaxTokens[b.policy] THEN b.quota ELSE MaxTokens[b.policy]
<1>1. /\ EffectiveLimit(b) = IF quota + b.borrowed - b.lent + b.reserved >= 0
                             THEN quota + b.borrowed - b.lent + b.reserved ELSE 0
      /\ EffectiveLimit(x) = IF quota + x.borrowed - x.lent + x.reserved >= 0
                             THEN quota + x.borrowed - x.lent + x.reserved ELSE 0
  BY LimitIs
<1>2. quota \in Int
  BY RateLimitAssumption DEF Binding
<1>3. /\ b.borrowed \in Int /\ b.lent \in Int /\ b.reserved \in Int
      /\ x.borrowed \in Int /\ x.lent \in Int /\ x.reserved \in Int
  BY DEF Binding
<1> HIDE DEF quota
<1> QED BY <1>1, <1>2, <1>3

(* The bindings as a look left them, and what passes between two callers.    *)
JustLooked(bs) ==
  /\ BindingsOK(bs) /\ RowsAgree(bs, bindingRows) /\ DOMAIN bs = DOMAIN bindings
  /\ \A c \in DOMAIN bindings :
       Net(bs[c]) = Net(bindings[c]) /\ bs[c].reserved = bindings[c].reserved
Exchanged(bs, x, f, t) ==
  /\ BindingsOK(x) /\ DOMAIN x = DOMAIN bindings
  /\ \A c \in DOMAIN bindings \ {f, t} : x[c] = bs[c]
  /\ \A c \in DOMAIN bindings : x[c].reserved = bs[c].reserved
  /\ Net(x[f]) <= Net(bs[f])
  /\ f = t => Net(x[f]) = Net(bs[f])
  /\ f # t => Net(x[f]) - Net(bs[f]) = Net(bs[t]) - Net(x[t])

(* The bindings after a look, and one row or none written.                   *)
LEMMA HalfOfIt ==
  ASSUME QuotaInv, NEW bs, JustLooked(bs), NEW f \in DOMAIN bindings, NEW t \in DOMAIN bindings,
         NEW x, Exchanged(bs, x, f, t),
         bindings' = bs, reservations' = reservations,
         bindingRows' \in {bindingRows, HalfWritten(f, t, x)}
  PROVE  /\ BooksGood(bindings', bindingRows') /\ DOMAIN bindings' = DOMAIN bindings
         /\ Moved /\ StaysCovered
<1> USE DEF JustLooked, Exchanged
<1>1. /\ BooksGood(bindings, bindingRows) /\ BindingMap(bindings) /\ BindingMap(bindingRows)
      /\ DOMAIN bindingRows = DOMAIN bindings
  BY InvFacts DEF BooksGood, RowsAgree
<1>2. x[f] \in Binding /\ x[f].used <= EffectiveLimit(x[f])
  BY DEF BindingsOK
<1> DEFINE y == bindingRows'
<1>3. BindingsOK(y) /\ RowsAgree(bs, y)
  <2>1. CASE y = bindingRows
    BY <1>1, <2>1 DEF BooksGood
  <2>2. CASE y = HalfWritten(f, t, x)
    <3>1. y = [bindingRows EXCEPT ![f] = x[f]]
      BY <2>2 DEF HalfWritten, UpdateCallerBinding
    <3> HIDE DEF y
    <3>2. /\ DOMAIN y = DOMAIN bindings /\ y[f] = x[f]
          /\ \A c \in DOMAIN bindings \ {f} : y[c] = bindingRows[c]
          /\ y \in [DOMAIN bindings -> Binding]
      BY <1>1, <1>2, <3>1 DEF BindingMap
    <3>3. \A c \in DOMAIN y : y[c].used <= EffectiveLimit(y[c])
      BY <1>1, <1>2, <3>2 DEF BooksGood, BindingsOK
    <3>4. BindingsOK(y)
      BY <1>1, <3>2, <3>3 DEF BindingMap, BindingsOK
    <3>5. RowsAgree(bs, y)
      BY <3>2 DEF RowsAgree
    <3> QED BY <3>4, <3>5
  <2> QED BY <2>1, <2>2
<1>4. BindingMap(bs)
  BY DEF BindingsOK, BindingMap
<1>5. NetBorrowed(bs) = NetBorrowed(bindings)
  BY <1>1, NetSame
<1>6. StaysCovered
  BY CoveredIs DEF StaysCovered, BoundCallers
<1> QED BY <1>3, <1>5, <1>6 DEF Moved, BooksGood

(* Two bindings written to memory and table, the second over the first.      *)
LEMMA WrittenTwice ==
  ASSUME QuotaInv, NEW bs, JustLooked(bs),
         NEW f \in DOMAIN bindings, NEW t \in DOMAIN bindings,
         NEW x, Exchanged(bs, x, f, t),
         bindings' = x, reservations' = reservations,
         bindingRows' = BothWritten(f, t, x)
  PROVE  /\ BooksGood(bindings', bindingRows') /\ DOMAIN bindings' = DOMAIN bindings
         /\ Moved /\ StaysCovered
<1> USE DEF JustLooked, Exchanged
<1>1. /\ BooksGood(bindings, bindingRows) /\ BindingMap(bindings) /\ BindingMap(bindingRows)
      /\ DOMAIN bindingRows = DOMAIN bindings
  BY InvFacts DEF BooksGood, RowsAgree
<1>2. x[f] \in Binding /\ x[t] \in Binding
  BY DEF BindingsOK
<1> DEFINE y == bindingRows'
<1>3. /\ DOMAIN y = DOMAIN bindings /\ y[f] = x[f] /\ y[t] = x[t]
      /\ \A c \in DOMAIN bindings \ {f, t} : y[c] = bindingRows[c]
      /\ y \in [DOMAIN bindings -> Binding]
  BY <1>1, <1>2 DEF BothWritten, HalfWritten, UpdateCallerBinding, BindingMap
<1> HIDE DEF y
<1>4. BindingsOK(y)
  <2>1. \A c \in DOMAIN y : y[c].used <= EffectiveLimit(y[c])
    BY <1>1, <1>3 DEF BooksGood, BindingsOK
  <2> QED BY <1>1, <1>3, <2>1 DEF BindingMap, BindingsOK
<1>5. RowsAgree(x, y)
  <2>1. \A c \in DOMAIN bindings : Net(x[c]) \in Int
    BY NetIsInt DEF BindingsOK, BindingMap
  <2> QED BY <1>3, <2>1 DEF RowsAgree
<1>6. BindingMap(x) /\ BindingMap(bs)
  BY DEF BindingsOK, BindingMap
<1>7. NetBorrowed(x) = NetBorrowed(bindings)
  <2>1. NetBorrowed(x) = NetBorrowed(bs)
    BY <1>6, NetMoved
  <2>2. NetBorrowed(bs) = NetBorrowed(bindings)
    BY <1>1, NetSame
  <2> QED BY <2>1, <2>2
<1>9. Moved
  BY <1>7 DEF Moved
<1>10. StaysCovered
  BY CoveredIs DEF StaysCovered, BoundCallers
<1> QED BY <1>4, <1>5, <1>9, <1>10 DEF BooksGood, y

Passing(bs, w, f, t) ==
  /\ w \in [DOMAIN bindings -> Binding]
  /\ \A c \in DOMAIN bindings \ {f, t} : w[c] = bs[c]
  /\ \A c \in DOMAIN bindings : \A part \in {"policy", "quota", "used", "reserved"} :
       w[c][part] = bs[c][part]
  /\ f = t => Net(w[f]) = Net(bs[f])
  /\ f # t => Net(w[f]) - Net(bs[f]) = Net(bs[t]) - Net(w[t]) /\ Net(bs[t]) <= Net(w[t])

(* Quota that goes from one caller to another: the one that has less is cut  *)
(* to its limit.                                                             *)
LEMMA PassedOn ==
  ASSUME QuotaInv, NEW bs, JustLooked(bs),
         NEW f \in DOMAIN bindings, NEW t \in DOMAIN bindings,
         NEW w, Passing(bs, w, f, t)
  PROVE  Exchanged(bs, [w EXCEPT ![f] = Clamp(@)], f, t)
<1> USE DEF JustLooked, Passing
<1> DEFINE x == [w EXCEPT ![f] = Clamp(@)]
<1>1. w[f] \in Binding /\ w[t] \in Binding /\ bs[t] \in Binding /\ bs[f] \in Binding
  BY DEF BindingsOK
<1>2. /\ SameButUsed(w[f], Clamp(w[f])) /\ EffectiveLimit(Clamp(w[f])) = EffectiveLimit(w[f])
      /\ Clamp(w[f]).used <= EffectiveLimit(w[f])
  BY <1>1, ClampKeeps
<1>3. /\ DOMAIN x = DOMAIN bindings /\ x[f] = Clamp(w[f])
      /\ \A c \in DOMAIN bindings \ {f} : x[c] = w[c]
  OBVIOUS
<1>4. x \in [DOMAIN bindings -> Binding]
  BY <1>2, <1>3 DEF SameButUsed
<1> HIDE DEF x
<1>6. x[f].used <= EffectiveLimit(x[f])
  BY <1>2, <1>3
<1>7. t # f => x[t].used <= EffectiveLimit(x[t])
  <2> SUFFICES ASSUME t # f PROVE w[t].used <= EffectiveLimit(w[t])
    BY <1>3
  <2>1. EffectiveLimit(bs[t]) <= EffectiveLimit(w[t])
    <3>1. bs[t].borrowed - bs[t].lent + bs[t].reserved <= w[t].borrowed - w[t].lent + w[t].reserved
      BY <1>1 DEF Net, Binding
    <3> QED BY <1>1, <3>1, LimitGrows
  <2>2. bs[t].used <= EffectiveLimit(bs[t]) /\ w[t].used = bs[t].used
    BY DEF BindingsOK
  <2>3. EffectiveLimit(bs[t]) \in Nat /\ EffectiveLimit(w[t]) \in Nat /\ bs[t].used \in Nat
    BY <1>1, LimitIs DEF Binding
  <2> QED BY <2>1, <2>2, <2>3
<1>8. \A c \in DOMAIN bindings : x[c].used <= EffectiveLimit(x[c])
  BY <1>3, <1>6, <1>7 DEF BindingsOK
<1>9. BindingsOK(x)
  BY <1>3, <1>4, <1>8 DEF BindingsOK
<1>10. Net(x[f]) = Net(w[f]) /\ x[f].reserved = w[f].reserved
  BY <1>2, <1>3 DEF SameButUsed, Agreed, Net
<1>11. /\ f = t => Net(x[f]) = Net(bs[f])
       /\ f # t => Net(x[f]) - Net(bs[f]) = Net(bs[t]) - Net(x[t])
       /\ \A c \in DOMAIN bindings : x[c].reserved = bs[c].reserved
       /\ \A c \in DOMAIN bindings \ {f, t} : x[c] = bs[c]
  BY <1>3, <1>10
<1>12. Net(x[f]) <= Net(bs[f])
  <2>1. /\ Net(w[f]) \in Int /\ Net(w[t]) \in Int /\ Net(bs[f]) \in Int /\ Net(bs[t]) \in Int
    BY <1>1 DEF Net, Binding
  <2>2. CASE f = t
    BY <1>11, <2>1, <2>2
  <2>3. CASE f # t
    <3>1. Net(w[f]) - Net(bs[f]) = Net(bs[t]) - Net(w[t]) /\ Net(bs[t]) <= Net(w[t])
      BY <2>3
    <3> QED BY <1>10, <2>1, <3>1
  <2> QED BY <2>2, <2>3
<1>13. Exchanged(bs, x, f, t)
  BY <1>3, <1>9, <1>11, <1>12 DEF Exchanged
<1> QED BY <1>13 DEF x

(* What one caller borrowed or lent is written.                              *)
Holds(w, c, part, n, bs) ==
  /\ w \in [DOMAIN bs -> Binding] /\ DOMAIN w = DOMAIN bs /\ w[c][part] = n
  /\ \A d \in DOMAIN bs \ {c} : w[d] = bs[d]
  /\ \A other \in {"policy", "quota", "used", "borrowed", "lent", "reserved"} \ {part} :
       w[c][other] = bs[c][other]

LEMMA PartMoves ==
  ASSUME NEW bs, bs \in [DOMAIN bs -> Binding], NEW c \in DOMAIN bs,
         NEW part \in {"borrowed", "lent"}, NEW n \in Nat,
         NEW w, w = [bs EXCEPT ![c] = [bs[c] EXCEPT ![part] = n]]
  PROVE  Holds(w, c, part, n, bs)
<1> DEFINE x == [bs[c] EXCEPT ![part] = n]
<1>1. bs[c] \in Binding /\ part \in {"quota", "used", "borrowed", "lent", "reserved"}
  OBVIOUS
<1>2. /\ x \in Binding /\ x[part] = n
      /\ \A other \in {"policy", "quota", "used", "borrowed", "lent", "reserved"} \ {part} :
           x[other] = bs[c][other]
  <2> DEFINE b == bs[c]
  <2>1. b \in Binding
    BY <1>1
  <2> HIDE DEF b
  <2> DEFINE y == [b EXCEPT ![part] = n]
  <2>2. /\ y \in Binding /\ y[part] = n
        /\ \A other \in {"policy", "quota", "used", "borrowed", "lent", "reserved"} \ {part} :
             y[other] = b[other]
    BY <1>1, <2>1, PartIsSet
  <2> HIDE DEF y
  <2>3. x = y
    BY DEF b, y
  <2> HIDE DEF x
  <2> QED BY <2>2, <2>3 DEF b
<1>3. w = [bs EXCEPT ![c] = x]
  OBVIOUS
<1> HIDE DEF x
<1>4. w[c] = x /\ (\A d \in DOMAIN bs \ {c} : w[d] = bs[d]) /\ w \in [DOMAIN bs -> Binding]
  BY <1>2, <1>3
<1> QED BY <1>2, <1>4 DEF Holds

(* The one end of what is lent gets or loses as much as the other.           *)
LEMMA BothEnds ==
  ASSUME QuotaInv, NEW bs, JustLooked(bs),
         NEW f \in DOMAIN bindings, NEW t \in DOMAIN bindings,
         NEW p \in {"borrowed", "lent"}, NEW q \in {"borrowed", "lent"}, p # q,
         NEW m \in Nat, NEW k \in Nat, NEW n \in Nat,
         p = "lent" => m = bs[f].lent + n /\ k = bs[t].borrowed + n,
         p = "borrowed" => m = bs[f].borrowed - n /\ k = bs[t].lent - n,
         NEW v, v = [bs EXCEPT ![f] = [bs[f] EXCEPT ![p] = m]],
         NEW w, w = [v EXCEPT ![t] = [v[t] EXCEPT ![q] = k]]
  PROVE  Exchanged(bs, [w EXCEPT ![f] = Clamp(@)], f, t)
<1>1. bs \in [DOMAIN bindings -> Binding] /\ DOMAIN bs = DOMAIN bindings
  BY DEF JustLooked, BindingsOK
<1>2. Holds(v, f, p, m, bs)
  BY <1>1, PartMoves
<1>3. Holds(w, t, q, k, v)
  <2>1. v \in [DOMAIN v -> Binding] /\ t \in DOMAIN v
    BY <1>1, <1>2 DEF Holds
  <2> QED BY <2>1, PartMoves
<1>4. w \in [DOMAIN bindings -> Binding]
  BY <1>1, <1>2, <1>3 DEF Holds
<1>5. \A c \in DOMAIN bindings \ {f, t} : w[c] = bs[c]
  BY <1>1, <1>2, <1>3 DEF Holds
<1>6. \A c \in DOMAIN bindings : \A part \in {"policy", "quota", "used", "reserved"} :
        w[c][part] = bs[c][part]
  <2> SUFFICES ASSUME NEW c \in DOMAIN bindings, NEW part \in {"policy", "quota", "used", "reserved"}
               PROVE  w[c][part] = bs[c][part]
    OBVIOUS
  <2>1. v[c][part] = bs[c][part]
    BY <1>1, <1>2 DEF Holds
  <2>2. w[c][part] = v[c][part]
    BY <1>1, <1>2, <1>3 DEF Holds
  <2> QED BY <2>1, <2>2
<1>7. bs[f] \in Binding /\ bs[t] \in Binding
  BY <1>1
<1>8. /\ bs[f].borrowed \in Nat /\ bs[f].lent \in Nat
      /\ bs[t].borrowed \in Nat /\ bs[t].lent \in Nat
  BY <1>7 DEF Binding
<1>9. CASE f = t
  <2>1. w[f][p] = m /\ w[f][q] = k
    BY <1>1, <1>2, <1>3, <1>9 DEF Holds
  <2>2. Net(w[f]) = Net(bs[f])
    BY <1>8, <1>9, <2>1 DEF Net
  <2>3. Passing(bs, w, f, t)
    BY <1>4, <1>5, <1>6, <1>9, <2>2 DEF Passing
  <2> QED BY <2>3, PassedOn
<1>10. CASE f # t
  <2>1. /\ w[f][p] = m /\ w[f][q] = bs[f][q]
        /\ w[t][q] = k /\ w[t][p] = bs[t][p]
    BY <1>1, <1>2, <1>3, <1>10 DEF Holds
  <2>2. Net(w[f]) - Net(bs[f]) = Net(bs[t]) - Net(w[t]) /\ Net(bs[t]) <= Net(w[t])
    <3>1. CASE p = "lent" /\ q = "borrowed"
      <4>1. /\ w[f].lent = m /\ w[f].borrowed = bs[f].borrowed
            /\ w[t].borrowed = k /\ w[t].lent = bs[t].lent
        BY <2>1, <3>1
      <4>2. m = bs[f].lent + n /\ k = bs[t].borrowed + n
        BY <3>1
      <4>3. /\ Net(w[f]) = bs[f].borrowed - m /\ Net(bs[f]) = bs[f].borrowed - bs[f].lent
            /\ Net(w[t]) = k - bs[t].lent /\ Net(bs[t]) = bs[t].borrowed - bs[t].lent
        BY <4>1 DEF Net
      <4> QED BY <1>8, <4>2, <4>3
    <3>2. CASE p = "borrowed" /\ q = "lent"
      <4>1. /\ w[f].borrowed = m /\ w[f].lent = bs[f].lent
            /\ w[t].lent = k /\ w[t].borrowed = bs[t].borrowed
        BY <2>1, <3>2
      <4>2. m = bs[f].borrowed - n /\ k = bs[t].lent - n
        BY <3>2
      <4>3. /\ Net(w[f]) = m - bs[f].lent /\ Net(bs[f]) = bs[f].borrowed - bs[f].lent
            /\ Net(w[t]) = bs[t].borrowed - k /\ Net(bs[t]) = bs[t].borrowed - bs[t].lent
        BY <4>1 DEF Net
      <4> QED BY <1>8, <4>2, <4>3
    <3> QED BY <3>1, <3>2
  <2>3. Passing(bs, w, f, t)
    BY <1>4, <1>5, <1>6, <1>10, <2>2 DEF Passing
  <2> QED BY <2>3, PassedOn
<1> QED BY <1>9, <1>10

LEMMA LookKeeps ==
  ASSUME QuotaInv, NEW cs, NEW bs \in Refreshed(bindings, cs)
  PROVE  JustLooked(bs) /\ BindingsOK(bs)
<1>1. BooksGood(bindings, bindingRows)
  BY InvFacts
<1>2. /\ BindingsOK(bs) /\ DOMAIN bs = DOMAIN bindings
      /\ \A c \in DOMAIN bindings : SameButUsed(bindings[c], bs[c])
  BY <1>1, RefreshedKeeps DEF BooksGood
<1>3. RowsAgree(bs, bindingRows)
  BY <1>1, RefreshedAgrees DEF BooksGood
<1>4. \A c \in DOMAIN bindings :
        Net(bs[c]) = Net(bindings[c]) /\ bs[c].reserved = bindings[c].reserved
  BY <1>2 DEF SameButUsed, Agreed, Net
<1> QED BY <1>2, <1>3, <1>4 DEF JustLooked

(* A look that only memory keeps.                                            *)
LEMMA LookStep ==
  ASSUME QuotaInv, NEW cs, bindings' \in Refreshed(bindings, cs), bindingRows' = bindingRows,
         reservations' = reservations
  PROVE  /\ BooksGood(bindings', bindingRows') /\ DOMAIN bindings' = DOMAIN bindings
         /\ Moved /\ StaysCovered
<1> DEFINE bs == bindings'
<1>1. JustLooked(bs)
  <2>1. bs \in Refreshed(bindings, cs)
    OBVIOUS
  <2> HIDE DEF bs
  <2> QED BY <2>1, LookKeeps
<1>2. BooksGood(bindings, bindingRows) /\ BindingMap(bindings)
  BY InvFacts
<1> HIDE DEF bs
<1>3. NetBorrowed(bs) = NetBorrowed(bindings)
  BY <1>1, <1>2, NetSame DEF JustLooked
<1>4. StaysCovered
  BY <1>1, CoveredIs DEF StaysCovered, JustLooked, BoundCallers, bs
<1> QED BY <1>1, <1>2, <1>3, <1>4 DEF Moved, JustLooked, BooksGood, bs

LEMMA BorrowStep ==
  ASSUME QuotaInv, NEW f \in DOMAIN bindings, NEW t \in DOMAIN bindings, NEW n \in bound.amounts,
         BorrowQuota(f, t, n)
  PROVE  GoodStep
<1>1. n \in Nat /\ DOMAIN bindings \subseteq Callers
  BY InvFacts DEF BindingMap
<1>2. PICK bs \in Refreshed(bindings, {f, t}) :
       LET moved == [bs EXCEPT ![f].lent = @ + n, ![t].borrowed = @ + n]
           after == [moved EXCEPT ![f] = Clamp(@)]
       IN \/ bindings' = bs /\ UNCHANGED <<bindingRows, borrowRows>>
          \/ /\ Remaining(bs[f]) >= n
             /\ bindings' = bs
             /\ bindingRows' \in {bindingRows, HalfWritten(f, t, after)}
             /\ CreateBorrowRecord(f, t, n)
          \/ /\ Remaining(bs[f]) >= n
             /\ bindings' = after
             /\ bindingRows' = BothWritten(f, t, after)
             /\ CreateBorrowRecord(f, t, n)
  BY DEF BorrowQuota
<1>3. /\ OnlyBooks /\ reservations' = reservations
      /\ waitQueue' = waitQueue /\ queueRows' = queueRows /\ lastItem' = lastItem
  BY DEF BorrowQuota, OnlyBooks, QuotaInv
<1>4. JustLooked(bs) /\ bs \in [DOMAIN bindings -> Binding] /\ DOMAIN bs = DOMAIN bindings
  BY LookKeeps DEF JustLooked, BindingsOK
<1>5. /\ BooksGood(bindings', bindingRows') /\ DOMAIN bindings' = DOMAIN bindings
      /\ Moved /\ StaysCovered
  <2> DEFINE m == bs[f].lent + n
             k == bs[t].borrowed + n
             v == [bs EXCEPT ![f] = [bs[f] EXCEPT !.lent = m]]
             w == [v EXCEPT ![t] = [v[t] EXCEPT !.borrowed = k]]
             after == [w EXCEPT ![f] = Clamp(@)]
  <2>2. bs[f] \in Binding /\ bs[t] \in Binding
    BY <1>4
  <2>3. m \in Nat /\ k \in Nat
    BY <1>1, <2>2 DEF Binding
  <2>4. [bs EXCEPT ![f].lent = @ + n, ![t].borrowed = @ + n] = w
    <3>1. [bs EXCEPT ![f].lent = @ + n] = v
      BY <1>4
    <3>2. v[t].borrowed = bs[t].borrowed
      BY <1>4, <2>2 DEF Binding
    <3>3. [bs EXCEPT ![f].lent = @ + n, ![t].borrowed = @ + n] = [v EXCEPT ![t].borrowed = @ + n]
      BY <3>1
    <3> HIDE DEF v
    <3> QED BY <3>2, <3>3
  <2>5. Exchanged(bs, after, f, t)
    <3> HIDE DEF m, k, v, w
    <3>1. /\ m = bs[f].lent + n /\ k = bs[t].borrowed + n
          /\ v = [bs EXCEPT ![f] = [bs[f] EXCEPT !["lent"] = m]]
          /\ w = [v EXCEPT ![t] = [v[t] EXCEPT !["borrowed"] = k]]
      BY DEF m, k, v, w
    <3>2. "lent" \in {"borrowed", "lent"} /\ "borrowed" \in {"borrowed", "lent"} /\ "lent" # "borrowed"
      OBVIOUS
    <3> QED BY <1>1, <1>4, <2>3, <3>1, <3>2, BothEnds
  <2> HIDE DEF w
  <2>6. \/ bindings' = bs /\ bindingRows' \in {bindingRows, HalfWritten(f, t, after)}
        \/ bindings' = after /\ bindingRows' = BothWritten(f, t, after)
    BY <1>2, <2>4
  <2> HIDE DEF after
  <2>7. CASE bindings' = bs /\ bindingRows' \in {bindingRows, HalfWritten(f, t, after)}
    BY <1>3, <1>4, <2>5, <2>7, HalfOfIt
  <2>8. CASE bindings' = after /\ bindingRows' = BothWritten(f, t, after)
    BY <1>3, <1>4, <2>5, <2>8, WrittenTwice
  <2> QED BY <2>6, <2>7, <2>8
<1>6. borrowRows' \in Seq(BorrowRecord)
  <2> DEFINE r == [from |-> f, to |-> t, amount |-> n, status |-> "active"]
  <2>1. r \in BorrowRecord
    BY <1>1 DEF BorrowRecord
  <2>2. borrowRows \in Seq(BorrowRecord)
    BY DEF QuotaInv
  <2>3. borrowRows' = borrowRows \/ borrowRows' = Append(borrowRows, r)
    BY <1>2 DEF CreateBorrowRecord
  <2> HIDE DEF r
  <2> QED BY <2>1, <2>2, <2>3, AppendProperties
<1> QED BY <1>3, <1>5, <1>6, BooksStep

LEMMA GiveBackStep ==
  ASSUME QuotaInv, NEW f \in DOMAIN bindings, NEW t \in DOMAIN bindings, NEW n \in bound.amounts,
         ReturnQuota(f, t, n)
  PROVE  GoodStep
<1>1. n \in Nat /\ DOMAIN bindings \subseteq Callers /\ BooksGood(bindings, bindingRows)
  BY InvFacts DEF BindingMap
<1>2. /\ OnlyBooks /\ reservations' = reservations
      /\ waitQueue' = waitQueue /\ queueRows' = queueRows /\ lastItem' = lastItem
  BY DEF ReturnQuota, OnlyBooks, QuotaInv
<1>3. JustLooked(bindings) /\ bindings \in [DOMAIN bindings -> Binding]
  BY <1>1 DEF JustLooked, BooksGood, BindingsOK
<1>4. /\ BooksGood(bindings', bindingRows') /\ DOMAIN bindings' = DOMAIN bindings
      /\ Moved /\ StaysCovered
  <2> DEFINE m == bindings[f].borrowed - n
             k == bindings[t].lent - n
             v == [bindings EXCEPT ![f] = [bindings[f] EXCEPT !.borrowed = m]]
             w == [v EXCEPT ![t] = [v[t] EXCEPT !.lent = k]]
             after == [w EXCEPT ![f] = Clamp(@)]
  <2>1. bindings[f] \in Binding /\ bindings[t] \in Binding
    BY <1>3
  <2>2. m \in Nat /\ k \in Nat
    BY <1>1, <2>1 DEF Binding, ReturnQuota
  <2>3. [bindings EXCEPT ![f].borrowed = @ - n, ![t].lent = @ - n] = w
    <3>1. [bindings EXCEPT ![f].borrowed = @ - n] = v
      BY <1>3
    <3>2. v[t].lent = bindings[t].lent
      BY <1>3, <2>1 DEF Binding
    <3>3. [bindings EXCEPT ![f].borrowed = @ - n, ![t].lent = @ - n] = [v EXCEPT ![t].lent = @ - n]
      BY <3>1
    <3> HIDE DEF v
    <3> QED BY <3>2, <3>3
  <2>4. \/ bindings' = bindings /\ bindingRows' \in {bindingRows, HalfWritten(f, t, after)}
        \/ bindings' = after /\ bindingRows' = BothWritten(f, t, after)
    <3> HIDE DEF w
    <3> QED BY <2>3 DEF ReturnQuota
  <2> HIDE DEF m, k, v, w
  <2>5. /\ m = bindings[f].borrowed - n /\ k = bindings[t].lent - n
        /\ v = [bindings EXCEPT ![f] = [bindings[f] EXCEPT !["borrowed"] = m]]
        /\ w = [v EXCEPT ![t] = [v[t] EXCEPT !["lent"] = k]]
    BY DEF m, k, v, w
  <2>6. "lent" \in {"borrowed", "lent"} /\ "borrowed" \in {"borrowed", "lent"} /\ "lent" # "borrowed"
    OBVIOUS
  <2>7. Exchanged(bindings, after, f, t)
    BY <1>1, <1>3, <2>2, <2>5, <2>6, BothEnds
  <2> HIDE DEF after
  <2>8. CASE bindings' = bindings /\ bindingRows' \in {bindingRows, HalfWritten(f, t, after)}
    BY <1>2, <1>3, <2>7, <2>8, HalfOfIt
  <2>9. CASE bindings' = after /\ bindingRows' = BothWritten(f, t, after)
    BY <1>2, <1>3, <2>7, <2>9, WrittenTwice
  <2> QED BY <2>4, <2>8, <2>9
<1>5. borrowRows' \in Seq(BorrowRecord)
  <2> DEFINE open == {i \in DOMAIN borrowRows :
                 borrowRows[i] = [from |-> f, to |-> t, amount |-> n, status |-> "active"]}
             i == Min(open)
  <2>1. borrowRows \in Seq(BorrowRecord) /\ Len(borrowRows) \in Nat /\ DOMAIN borrowRows = 1..Len(borrowRows)
    BY DEF QuotaInv
  <2>2. borrowRows' = IF open = {} THEN borrowRows ELSE [borrowRows EXCEPT ![i].status = "returned"]
    BY DEF ReturnQuota, ReturnBorrow
  <2>3. \A j \in DOMAIN borrowRows : borrowRows[j] \in BorrowRecord
    BY <2>1, ElementOfSeq
  <2> HIDE DEF i, open
  <2>4. [borrowRows EXCEPT ![i].status = "returned"] \in [1..Len(borrowRows) -> BorrowRecord]
    BY <2>1, <2>3 DEF BorrowRecord
  <2>5. [borrowRows EXCEPT ![i].status = "returned"] \in Seq(BorrowRecord)
    BY <2>1, <2>4, SeqDef
  <2> QED BY <2>1, <2>2, <2>5
<1> QED BY <1>2, <1>4, <1>5, BooksStep

(****************************** reservations ********************************)

(* Tokens that are taken back.                                               *)
LEMMA UnreserveKeeps ==
  ASSUME NEW b \in Binding, NEW n \in Nat
  PROVE  LET x == Unreserve(b, n)
         IN /\ x \in Binding /\ x.used <= EffectiveLimit(x)
            /\ x.borrowed = b.borrowed /\ x.lent = b.lent
            /\ x.reserved = IF b.reserved >= n THEN b.reserved - n ELSE 0
<1> DEFINE m == Max({0, b.reserved - n})
           y == [b EXCEPT !.reserved = m]
           x == Clamp(y)
<1>1. b.reserved \in Nat
  BY DEF Binding
<1>2. m = IF b.reserved >= n THEN b.reserved - n ELSE 0
  <2>1. m = IF 0 >= b.reserved - n THEN 0 ELSE b.reserved - n
    BY <1>1, MaxOfTwo
  <2> HIDE DEF m
  <2> QED BY <1>1, <2>1
<1>3. m \in Nat
  <2> HIDE DEF m
  <2> QED BY <1>1, <1>2
<1>4. Unreserve(b, n) = x
  BY DEF Unreserve
<1> HIDE DEF m
<1>5. y \in Binding /\ y.reserved = m /\ y.borrowed = b.borrowed /\ y.lent = b.lent
  BY <1>3, PartIsSet
<1> HIDE DEF y
<1>6. SameButUsed(y, x) /\ EffectiveLimit(x) = EffectiveLimit(y) /\ x.used <= EffectiveLimit(y)
  BY <1>5, ClampKeeps
<1> HIDE DEF x
<1>7. x \in Binding /\ x.used <= EffectiveLimit(x) /\ x.reserved = m
      /\ x.borrowed = b.borrowed /\ x.lent = b.lent
  BY <1>5, <1>6 DEF SameButUsed, Agreed
<1> QED BY <1>2, <1>4, <1>7

(* Tokens that are promised.                                                 *)
LEMMA ReserveKeeps ==
  ASSUME NEW b \in Binding, b.used <= EffectiveLimit(b), NEW n \in Nat
  PROVE  LET x == [b EXCEPT !.reserved = @ + n]
         IN /\ x \in Binding /\ x.used <= EffectiveLimit(x)
            /\ x.borrowed = b.borrowed /\ x.lent = b.lent /\ x.reserved = b.reserved + n
<1> DEFINE m == b.reserved + n
           x == [b EXCEPT !.reserved = m]
<1>1. b.reserved \in Nat /\ b.borrowed \in Nat /\ b.lent \in Nat /\ b.used \in Nat /\ m \in Nat
  BY DEF Binding
<1>2. m = b.reserved + n
  OBVIOUS
<1> HIDE DEF m
<1>3. x \in Binding /\ x.reserved = m /\ x.borrowed = b.borrowed /\ x.lent = b.lent
      /\ x.policy = b.policy /\ x.quota = b.quota /\ x.used = b.used
  BY <1>1, PartIsSet
<1> HIDE DEF x
<1>4. EffectiveLimit(b) <= EffectiveLimit(x)
  <2>1. b.borrowed - b.lent + b.reserved <= x.borrowed - x.lent + x.reserved
    BY <1>1, <1>2, <1>3
  <2> QED BY <1>3, <2>1, LimitGrows
<1>5. EffectiveLimit(b) \in Nat /\ EffectiveLimit(x) \in Nat
  BY <1>3, LimitIs
<1>6. x.used <= EffectiveLimit(x)
  BY <1>1, <1>3, <1>4, <1>5
<1> QED BY <1>2, <1>3, <1>6 DEF x, m

(* The books a tick works on, and what happens to them in one.               *)
KSound(k) ==
  /\ k = Books(k.b, k.bRows, k.r, k.rRows)
  /\ BooksGood(k.b, k.bRows) /\ ReservationsOK(k.r, k.rRows, now)
Kept(k, x) ==
  /\ DOMAIN x.b = DOMAIN k.b /\ DOMAIN x.r = DOMAIN k.r /\ Len(x.rRows) = Len(k.rRows)
  /\ \A c \in DOMAIN k.b : Net(x.b[c]) = Net(k.b[c])
  /\ \A i \in DOMAIN k.r :
       /\ \A part \in {"policy", "caller", "tokens", "start", "end"} : x.r[i][part] = k.r[i][part]
       /\ x.r[i].status \in Live => k.r[i].status \in Live
  /\ \A c \in DOMAIN k.b :
       k.b[c].reserved >= ActiveIn(k.r, c) => x.b[c].reserved >= ActiveIn(x.r, c)

LEMMA KeptIsOrder ==
  ASSUME NEW k, NEW x, NEW y
  PROVE  /\ KSound(k) => Kept(k, k)
         /\ Kept(k, x) /\ Kept(x, y) => Kept(k, y)
<1>1. Kept(k, k)
  BY DEF Kept
<1>2. ASSUME Kept(k, x), Kept(x, y) PROVE Kept(k, y)
  <2>1. /\ DOMAIN y.b = DOMAIN k.b /\ DOMAIN y.r = DOMAIN k.r /\ Len(y.rRows) = Len(k.rRows)
        /\ \A c \in DOMAIN k.b : Net(y.b[c]) = Net(k.b[c])
    BY <1>2 DEF Kept
  <2>2. \A i \in DOMAIN k.r : \A part \in {"policy", "caller", "tokens", "start", "end"} :
          y.r[i][part] = k.r[i][part]
    BY <1>2 DEF Kept
  <2>3. \A i \in DOMAIN k.r : y.r[i].status \in Live => k.r[i].status \in Live
    BY <1>2 DEF Kept
  <2>4. \A c \in DOMAIN k.b :
       k.b[c].reserved >= ActiveIn(k.r, c) => y.b[c].reserved >= ActiveIn(y.r, c)
    BY <1>2 DEF Kept
  <2> QED BY <2>1, <2>2, <2>3, <2>4 DEF Kept
<1> QED BY <1>1, <1>2

(* A live reservation that gets another status, here and in its row.         *)
LEMMA RowIsLive ==
  ASSUME NEW rs, NEW rows, NEW t, ReservationsOK(rs, rows, t), NEW id \in DOMAIN rs,
         rs[id].status \in Live
  PROVE  rs[id] = rows[id] /\ id \in DOMAIN rows
<1>1. rs[id] = rows[id] \/ EndedUnseen(rs[id], rows[id], t)
  BY DEF ReservationsOK
<1>2. rows[id] \in Reservation /\ id \in DOMAIN rows
  BY ElementOfSeq DEF ReservationsOK
<1>3. EndedUnseen(rs[id], rows[id], t) => rs[id].status = "completed"
  BY <1>2 DEF EndedUnseen, Reservation
<1> QED BY <1>1, <1>2, <1>3 DEF Live

LEMMA StatusWritten ==
  ASSUME NEW rs, NEW rows, NEW t, ReservationsOK(rs, rows, t), NEW id \in DOMAIN rs,
         rs[id].status \in Live, NEW s \in ReservationStatuses,
         NEW xs, xs = UpdateReservationStatus(rs, id, s),
         NEW more, more = UpdateReservationStatus(rows, id, s)
  PROVE  ReservationsOK(xs, more, t) /\ DOMAIN xs = DOMAIN rs /\ Len(more) = Len(rows)
<1>1. rs[id] = rows[id] /\ id \in DOMAIN rows
  BY RowIsLive
<1>2. rows \in Seq(Reservation) /\ Len(rows) \in Nat /\ DOMAIN rows = 1..Len(rows)
      /\ rs \in [DOMAIN rs -> Reservation] /\ DOMAIN rs \subseteq DOMAIN rows
  BY DEF ReservationsOK
<1>3. \A i \in 1..Len(rows) : rows[i] \in Reservation
  BY <1>2, ElementOfSeq
<1> DEFINE r == [rows[id] EXCEPT !.status = s]
<1>4. r \in Reservation
  BY <1>1, <1>2, <1>3 DEF Reservation
<1>5. more = [rows EXCEPT ![id] = r] /\ xs = [rs EXCEPT ![id] = r]
  BY <1>1, <1>2 DEF UpdateReservationStatus
<1> HIDE DEF r
<1>6. more \in Seq(Reservation) /\ Len(more) = Len(rows) /\ DOMAIN more = DOMAIN rows
  <2>1. more \in [1..Len(rows) -> Reservation]
    BY <1>2, <1>3, <1>4, <1>5
  <2>2. more \in Seq(Reservation)
    BY <1>2, <2>1, SeqDef
  <2>3. DOMAIN more = 1..Len(rows)
    BY <2>1
  <2> QED BY <1>2, <2>2, <2>3, LenProperties
<1>7. DOMAIN xs = DOMAIN rs /\ xs \in [DOMAIN xs -> Reservation]
  BY <1>2, <1>4, <1>5
<1>8. \A i \in DOMAIN rows \ {id} : more[i] = rows[i] /\ (i \in DOMAIN rs => xs[i] = rs[i])
  BY <1>2, <1>5
<1>9. more[id] = xs[id]
  BY <1>1, <1>2, <1>5
<1>10. \A i \in DOMAIN xs : xs[i] = more[i] \/ EndedUnseen(xs[i], more[i], t)
  BY <1>2, <1>7, <1>8, <1>9 DEF ReservationsOK
<1>11. \A i \in DOMAIN more \ DOMAIN xs : more[i].status \notin Live
  BY <1>6, <1>7, <1>8 DEF ReservationsOK
<1> QED BY <1>2, <1>6, <1>7, <1>10, <1>11 DEF ReservationsOK

(* One reservation changes its status, and its caller's binding with it.     *)
LEMMA StatusStep ==
  ASSUME NEW k, KSound(k), NEW id \in DOMAIN k.r, k.r[id].status \in Live,
         NEW s \in ReservationStatuses,
         NEW bs, NEW rows, BooksGood(bs, rows), DOMAIN bs = DOMAIN k.b,
         \A c \in DOMAIN k.b : Net(bs[c]) = Net(k.b[c]),
         \A c \in DOMAIN k.b : k.b[c].reserved >= ActiveIn(k.r, c) =>
           bs[c].reserved >= ActiveIn(k.r, c) + Part([k.r[id] EXCEPT !.status = s], c) - Part(k.r[id], c),
         NEW x, x = Books(bs, rows, UpdateReservationStatus(k.r, id, s),
                          UpdateReservationStatus(k.rRows, id, s))
  PROVE  KSound(x) /\ Kept(k, x)
<1> DEFINE xs == UpdateReservationStatus(k.r, id, s)
           more == UpdateReservationStatus(k.rRows, id, s)
<1>1. ReservationsOK(k.r, k.rRows, now) /\ ReservationMap(k.r)
  BY ReservationsAreMap DEF KSound
<1>2. /\ x = Books(x.b, x.bRows, x.r, x.rRows)
      /\ x.b = bs /\ x.bRows = rows /\ x.r = xs /\ x.rRows = more
  BY DEF Books
<1>3. ReservationsOK(xs, more, now) /\ DOMAIN xs = DOMAIN k.r /\ Len(more) = Len(k.rRows)
  BY <1>1, StatusWritten
<1>4. /\ \A i \in DOMAIN k.r \ {id} : xs[i] = k.r[i]
      /\ xs[id] = [k.r[id] EXCEPT !.status = s]
      /\ \A c : ActiveIn(xs, c) = ActiveIn(k.r, c) + Part(xs[id], c) - Part(k.r[id], c)
  BY <1>1, StatusChanges DEF UpdateReservationStatus
<1>5. k.r[id] \in Reservation
  BY <1>1 DEF ReservationMap
<1> HIDE DEF xs, more
<1>6. KSound(x)
  BY <1>2, <1>3 DEF KSound
<1>7. \A i \in DOMAIN k.r : \A part \in {"policy", "caller", "tokens", "start", "end"} :
        xs[i][part] = k.r[i][part]
  <2>1. \A part \in {"policy", "caller", "tokens", "start", "end"} : xs[id][part] = k.r[id][part]
    BY <1>4, <1>5 DEF Reservation
  <2> QED BY <1>4, <2>1
<1>8. \A i \in DOMAIN k.r : xs[i].status \in Live => k.r[i].status \in Live
  BY <1>4
<1>9. \A c \in DOMAIN k.b :
        k.b[c].reserved >= ActiveIn(k.r, c) => bs[c].reserved >= ActiveIn(xs, c)
  BY <1>4
<1>10. Kept(k, x)
  BY <1>2, <1>3, <1>7, <1>8, <1>9 DEF Kept
<1> QED BY <1>6, <1>10

(* Its tokens are given to the caller, or taken back, or there is no caller. *)
LEMMA StatusCases ==
  ASSUME NEW k, KSound(k), NEW id \in DOMAIN k.r, k.r[id].status \in Live,
         NEW s \in ReservationStatuses,
         NEW bs, NEW rows,
         LET r == k.r[id]
         IN \/ /\ bs = k.b /\ rows = k.bRows
               /\ s # "active"
            \/ /\ r.caller \in DOMAIN k.b /\ s = "active" /\ r.status = "pending"
               /\ bs = [k.b EXCEPT ![r.caller] = [k.b[r.caller] EXCEPT !.reserved = @ + r.tokens]]
               /\ rows = UpdateCallerBinding(k.bRows, r.caller, bs[r.caller])
            \/ /\ r.caller \in DOMAIN k.b /\ s # "active" /\ r.status = "active"
               /\ bs = [k.b EXCEPT ![r.caller] = Unreserve(k.b[r.caller], r.tokens)]
               /\ rows = UpdateCallerBinding(k.bRows, r.caller, bs[r.caller]),
         NEW x, x = Books(bs, rows, UpdateReservationStatus(k.r, id, s),
                          UpdateReservationStatus(k.rRows, id, s))
  PROVE  KSound(x) /\ Kept(k, x)
<1> DEFINE r == k.r[id]
           new == [k.r[id] EXCEPT !.status = s]
<1>1. BooksGood(k.b, k.bRows) /\ ReservationMap(k.r) /\ r \in Reservation
  BY ReservationsAreMap DEF KSound, ReservationMap
<1>2. r.tokens \in Nat /\ r.status \in ReservationStatuses
  BY <1>1 DEF Reservation
<1>3. new.caller = r.caller /\ new.tokens = r.tokens /\ new.status = s
  BY <1>1 DEF Reservation
<1>4. \A c : ActiveIn(k.r, c) \in Nat /\ Part(r, c) \in Nat /\ Part(r, c) <= ActiveIn(k.r, c)
  <2>1. \A c : ActiveIn(k.r, c) \in Nat
    BY <1>1, ActiveIsNat
  <2>2. \A c : Part(r, c) \in Nat
    BY <1>2 DEF Part
  <2>3. \A c : Part(r, c) <= ActiveIn(k.r, c)
    BY <1>1, StatusChanges
  <2> QED BY <2>1, <2>2, <2>3
<1>5. \A c \in DOMAIN k.b : k.b[c] \in Binding /\ k.b[c].reserved \in Nat
                            /\ k.b[c].used <= EffectiveLimit(k.b[c])
  <2>1. \A c \in DOMAIN k.b : k.b[c] \in Binding /\ k.b[c].used <= EffectiveLimit(k.b[c])
    BY <1>1 DEF BooksGood, BindingsOK
  <2> QED BY <2>1 DEF Binding
<1>6. CASE bs = k.b /\ rows = k.bRows /\ s # "active"
  <2>1. \A c : Part(new, c) = 0
    BY <1>3, <1>6 DEF Part
  <2>2. \A c \in DOMAIN k.b : k.b[c].reserved >= ActiveIn(k.r, c) =>
          bs[c].reserved >= ActiveIn(k.r, c) + Part(new, c) - Part(r, c)
    <3> HIDE DEF r, new
    <3> QED BY <1>4, <1>5, <1>6, <2>1
  <2>3. \A c \in DOMAIN k.b : Net(bs[c]) = Net(k.b[c])
    BY <1>6
  <2> QED BY <1>1, <1>6, <2>2, <2>3, StatusStep
<1>7. ASSUME r.caller \in DOMAIN k.b, NEW b \in Binding, b.used <= EffectiveLimit(b),
             b.borrowed = k.b[r.caller].borrowed, b.lent = k.b[r.caller].lent,
             bs = [k.b EXCEPT ![r.caller] = b],
             rows = UpdateCallerBinding(k.bRows, r.caller, b),
             \A c : c # r.caller => Part(new, c) = 0,
             k.b[r.caller].reserved >= ActiveIn(k.r, r.caller) =>
               b.reserved >= ActiveIn(k.r, r.caller) + Part(new, r.caller) - Part(r, r.caller)
      PROVE  KSound(x) /\ Kept(k, x)
  <2> DEFINE a == r.caller
  <2>1. /\ a \in DOMAIN k.b /\ bs = [k.b EXCEPT ![a] = b]
        /\ rows = UpdateCallerBinding(k.bRows, a, b)
    BY <1>7
  <2> HIDE DEF a
  <2>2. /\ BooksGood(bs, rows) /\ DOMAIN bs = DOMAIN k.b /\ bs[a] = b
        /\ \A d \in DOMAIN k.b \ {a} : bs[d] = k.b[d]
    BY <1>1, <1>7, <2>1, WrittenOnce
  <2>3. Net(b) = Net(k.b[a])
    BY <1>7 DEF Net, a
  <2>4. \A c \in DOMAIN k.b : Net(bs[c]) = Net(k.b[c])
    BY <2>2, <2>3
  <2>5. \A c \in DOMAIN k.b : k.b[c].reserved >= ActiveIn(k.r, c) =>
          bs[c].reserved >= ActiveIn(k.r, c) + Part(new, c) - Part(r, c)
    <3>1. \A c \in DOMAIN k.b \ {a} : Part(new, c) = 0 /\ bs[c] = k.b[c]
      BY <1>7, <2>2 DEF a
    <3>2. k.b[a].reserved >= ActiveIn(k.r, a) =>
            bs[a].reserved >= ActiveIn(k.r, a) + Part(new, a) - Part(r, a)
      BY <1>7, <2>2 DEF a
    <3> HIDE DEF r, new
    <3>3. \A c \in DOMAIN k.b \ {a} : k.b[c].reserved >= ActiveIn(k.r, c) =>
            bs[c].reserved >= ActiveIn(k.r, c) + Part(new, c) - Part(r, c)
      BY <1>4, <1>5, <3>1
    <3> QED BY <3>2, <3>3
  <2> QED BY <2>2, <2>4, <2>5, StatusStep
<1>8. CASE /\ r.caller \in DOMAIN k.b /\ s = "active" /\ r.status = "pending"
           /\ bs = [k.b EXCEPT ![r.caller] = [k.b[r.caller] EXCEPT !.reserved = @ + r.tokens]]
           /\ rows = UpdateCallerBinding(k.bRows, r.caller, bs[r.caller])
  <2> DEFINE a == r.caller
             n == r.tokens
             o == k.b[a]
  <2>1. o \in Binding /\ o.used <= EffectiveLimit(o) /\ n \in Nat /\ a \in DOMAIN k.b
    BY <1>2, <1>5, <1>8
  <2>2. bs = [k.b EXCEPT ![a] = [o EXCEPT !.reserved = @ + n]] /\ rows = UpdateCallerBinding(k.bRows, a, bs[a])
    BY <1>8
  <2>3. Part(r, a) = 0 /\ Part(new, a) = n /\ \A c : c # a => Part(new, c) = 0
    BY <1>3, <1>8 DEF Part
  <2> HIDE DEF n, o
  <2> DEFINE b == [o EXCEPT !.reserved = @ + n]
  <2>4. /\ b \in Binding /\ b.used <= EffectiveLimit(b)
        /\ b.borrowed = o.borrowed /\ b.lent = o.lent /\ b.reserved = o.reserved + n
    BY <2>1, ReserveKeeps
  <2>5. bs = [k.b EXCEPT ![a] = b] /\ bs[a] = b
    BY <2>1, <2>2
  <2> HIDE DEF b
  <2>6. k.b[a].reserved >= ActiveIn(k.r, a) =>
          b.reserved >= ActiveIn(k.r, a) + Part(new, a) - Part(r, a)
    <3>1. o.reserved \in Nat /\ o = k.b[a]
      BY <1>5, <2>1 DEF o
    <3>2. ActiveIn(k.r, a) \in Nat
      BY <1>4
    <3> HIDE DEF a, r, new
    <3> QED BY <2>1, <2>3, <2>4, <3>1, <3>2
  <2> QED BY <1>7, <2>1, <2>2, <2>3, <2>4, <2>5, <2>6 DEF o
<1>9. CASE /\ r.caller \in DOMAIN k.b /\ s # "active" /\ r.status = "active"
           /\ bs = [k.b EXCEPT ![r.caller] = Unreserve(k.b[r.caller], r.tokens)]
           /\ rows = UpdateCallerBinding(k.bRows, r.caller, bs[r.caller])
  <2> DEFINE a == r.caller
             n == r.tokens
             o == k.b[a]
  <2>1. o \in Binding /\ n \in Nat /\ a \in DOMAIN k.b
    BY <1>2, <1>5, <1>9
  <2>2. bs = [k.b EXCEPT ![a] = Unreserve(o, n)] /\ rows = UpdateCallerBinding(k.bRows, a, bs[a])
    BY <1>9
  <2>3. Part(r, a) = n /\ Part(new, a) = 0 /\ \A c : c # a => Part(new, c) = 0
    BY <1>3, <1>9 DEF Part
  <2> HIDE DEF n, o
  <2> DEFINE b == Unreserve(o, n)
  <2>4. /\ b \in Binding /\ b.used <= EffectiveLimit(b)
        /\ b.borrowed = o.borrowed /\ b.lent = o.lent
        /\ b.reserved = IF o.reserved >= n THEN o.reserved - n ELSE 0
    BY <2>1, UnreserveKeeps
  <2>5. bs = [k.b EXCEPT ![a] = b] /\ bs[a] = b
    BY <2>1, <2>2
  <2> HIDE DEF b
  <2>6. k.b[a].reserved >= ActiveIn(k.r, a) =>
          b.reserved >= ActiveIn(k.r, a) + Part(new, a) - Part(r, a)
    <3>1. o.reserved \in Nat /\ o = k.b[a]
      BY <1>5, <2>1 DEF o
    <3>2. ActiveIn(k.r, a) \in Nat /\ Part(r, a) <= ActiveIn(k.r, a)
      BY <1>4
    <3> HIDE DEF a, r, new
    <3> QED BY <2>1, <2>3, <2>4, <3>1, <3>2
  <2> QED BY <1>7, <2>1, <2>2, <2>3, <2>4, <2>5, <2>6 DEF o
<1> QED BY <1>6, <1>8, <1>9

(* What is written in one go.                                                *)
LEMMA WriteIs ==
  ASSUME NEW k, k = Books(k.b, k.bRows, k.r, k.rRows)
  PROVE  /\ \A id, s : WriteStatus(k, id, s) =
              Books(k.b, k.bRows, UpdateReservationStatus(k.r, id, s),
                    UpdateReservationStatus(k.rRows, id, s))
         /\ \A c, b : WriteBinding(k, c, b) =
              Books([k.b EXCEPT ![c] = b], UpdateCallerBinding(k.bRows, c, b), k.r, k.rRows)
<1> DEFINE b0 == k.b
           br == k.bRows
           r0 == k.r
           rr == k.rRows
<1>1. k = [b |-> b0, bRows |-> br, r |-> r0, rRows |-> rr]
  BY DEF Books
<1> HIDE DEF b0, br, r0, rr
<1>2. ASSUME NEW id, NEW s
      PROVE  WriteStatus(k, id, s) = Books(b0, br, UpdateReservationStatus(r0, id, s),
                                           UpdateReservationStatus(rr, id, s))
  <2> DEFINE xs == UpdateReservationStatus(r0, id, s)
             more == UpdateReservationStatus(rr, id, s)
  <2>1. k.r = r0 /\ k.rRows = rr
    BY <1>1
  <2>2. WriteStatus(k, id, s) = [k EXCEPT !.r = xs, !.rRows = more]
    BY <2>1 DEF WriteStatus
  <2> HIDE DEF xs, more
  <2>3. [k EXCEPT !.r = xs, !.rRows = more] = [b |-> b0, bRows |-> br, r |-> xs, rRows |-> more]
    <3> DEFINE m == [k EXCEPT !.r = xs]
    <3>1. m = [b |-> b0, bRows |-> br, r |-> xs, rRows |-> rr]
      BY <1>1
    <3>2. [k EXCEPT !.r = xs, !.rRows = more] = [m EXCEPT !.rRows = more]
      OBVIOUS
    <3> HIDE DEF m
    <3>3. [m EXCEPT !.rRows = more] = [b |-> b0, bRows |-> br, r |-> xs, rRows |-> more]
      BY <3>1
    <3> QED BY <3>2, <3>3
  <2> QED BY <2>2, <2>3 DEF Books, xs, more
<1>3. ASSUME NEW c, NEW b
      PROVE  WriteBinding(k, c, b) = Books([b0 EXCEPT ![c] = b], UpdateCallerBinding(br, c, b), r0, rr)
  <2> DEFINE bs == [b0 EXCEPT ![c] = b]
             rows == UpdateCallerBinding(br, c, b)
  <2>1. k.b = b0 /\ k.bRows = br
    BY <1>1
  <2>2. WriteBinding(k, c, b) = [k EXCEPT !.b = bs, !.bRows = rows]
    BY <1>1, <2>1 DEF WriteBinding
  <2> HIDE DEF bs, rows
  <2>3. [k EXCEPT !.b = bs, !.bRows = rows] = [b |-> bs, bRows |-> rows, r |-> r0, rRows |-> rr]
    <3> DEFINE m == [k EXCEPT !.b = bs]
    <3>1. m = [b |-> bs, bRows |-> br, r |-> r0, rRows |-> rr]
      BY <1>1
    <3>2. [k EXCEPT !.b = bs, !.bRows = rows] = [m EXCEPT !.bRows = rows]
      OBVIOUS
    <3> HIDE DEF m
    <3>3. [m EXCEPT !.bRows = rows] = [b |-> bs, bRows |-> rows, r |-> r0, rRows |-> rr]
      BY <3>1
    <3> QED BY <3>2, <3>3
  <2> QED BY <2>2, <2>3 DEF Books, bs, rows
<1> QED BY <1>2, <1>3 DEF b0, br, r0, rr

(* A reservation that begins.                                                *)
LEMMA ActivateKeeps ==
  ASSUME NEW k, KSound(k), NEW id \in DOMAIN k.r, k.r[id].status = "pending"
  PROVE  KSound(ActivateReservation(k, id)) /\ Kept(k, ActivateReservation(k, id))
<1> DEFINE c == k.r[id].caller
           x == ActivateReservation(k, id)
           b == [k.b[c] EXCEPT !.reserved = @ + k.r[id].tokens]
           w == WriteBinding(k, c, b)
           bs == [k.b EXCEPT ![c] = b]
           rows == UpdateCallerBinding(k.bRows, c, b)
<1>1. k = Books(k.b, k.bRows, k.r, k.rRows)
  BY DEF KSound
<1>2. k.r[id].status \in Live /\ "active" \in ReservationStatuses /\ "cancelled" \in ReservationStatuses
  BY DEF Live, ReservationStatuses
<1>3. CASE c \in DOMAIN k.b
  <2>1. x = WriteStatus(w, id, "active")
    BY <1>3 DEF ActivateReservation
  <2>2. w = Books(bs, rows, k.r, k.rRows)
    <3> HIDE DEF b, c
    <3> QED BY <1>1, WriteIs
  <2>3. w = Books(w.b, w.bRows, w.r, w.rRows) /\ w.b = bs /\ w.bRows = rows /\ w.r = k.r /\ w.rRows = k.rRows
    <3> HIDE DEF bs, rows, w
    <3> QED BY <2>2 DEF Books
  <2>4. bs[c] = b
    BY <1>3
  <2>5. rows = UpdateCallerBinding(k.bRows, c, bs[c])
    <3> HIDE DEF b, bs
    <3> QED BY <2>4
  <2> HIDE DEF w, rows
  <2>6. x = Books(bs, rows, UpdateReservationStatus(k.r, id, "active"),
                  UpdateReservationStatus(k.rRows, id, "active"))
    <3> HIDE DEF bs, x
    <3> QED BY <2>1, <2>3, WriteIs
  <2> HIDE DEF x
  <2>7. bs = [k.b EXCEPT ![k.r[id].caller] = [k.b[k.r[id].caller] EXCEPT !.reserved = @ + k.r[id].tokens]]
        /\ rows = UpdateCallerBinding(k.bRows, k.r[id].caller, bs[k.r[id].caller])
    BY <2>5
  <2> HIDE DEF bs
  <2>8. KSound(x) /\ Kept(k, x)
    BY <1>2, <1>3, <2>6, <2>7, StatusCases
  <2> QED BY <2>8 DEF x
<1>4. CASE c \notin DOMAIN k.b
  <2>1. x = WriteStatus(k, id, "cancelled")
    BY <1>4 DEF ActivateReservation
  <2>2. x = Books(k.b, k.bRows, UpdateReservationStatus(k.r, id, "cancelled"),
                  UpdateReservationStatus(k.rRows, id, "cancelled"))
    <3> HIDE DEF x
    <3> QED BY <1>1, <2>1, WriteIs
  <2> HIDE DEF x
  <2>3. KSound(x) /\ Kept(k, x)
    BY <1>2, <2>2, StatusCases
  <2> QED BY <2>3 DEF x
<1> QED BY <1>3, <1>4

(* A reservation that ends.                                                  *)
LEMMA CompleteKeeps ==
  ASSUME NEW k, KSound(k), NEW id \in DOMAIN k.r, k.r[id].status = "active"
  PROVE  KSound(CompleteReservation(k, id)) /\ Kept(k, CompleteReservation(k, id))
<1> DEFINE c == k.r[id].caller
           x == CompleteReservation(k, id)
           b == Unreserve(k.b[c], k.r[id].tokens)
           w == WriteBinding(k, c, b)
           bs == [k.b EXCEPT ![c] = b]
           rows == UpdateCallerBinding(k.bRows, c, b)
<1>1. k = Books(k.b, k.bRows, k.r, k.rRows)
  BY DEF KSound
<1>2. k.r[id].status \in Live /\ "completed" \in ReservationStatuses
  BY DEF Live, ReservationStatuses
<1>3. CASE c \in DOMAIN k.b
  <2>1. x = WriteStatus(w, id, "completed")
    BY <1>3 DEF CompleteReservation
  <2>2. w = Books(bs, rows, k.r, k.rRows)
    <3> HIDE DEF b, c
    <3> QED BY <1>1, WriteIs
  <2>3. w = Books(w.b, w.bRows, w.r, w.rRows) /\ w.b = bs /\ w.bRows = rows /\ w.r = k.r /\ w.rRows = k.rRows
    <3> HIDE DEF bs, rows, w
    <3> QED BY <2>2 DEF Books
  <2>4. bs[c] = b
    BY <1>3
  <2>5. rows = UpdateCallerBinding(k.bRows, c, bs[c])
    <3> HIDE DEF b, bs
    <3> QED BY <2>4
  <2> HIDE DEF w, rows
  <2>6. x = Books(bs, rows, UpdateReservationStatus(k.r, id, "completed"),
                  UpdateReservationStatus(k.rRows, id, "completed"))
    <3> HIDE DEF bs, x
    <3> QED BY <2>1, <2>3, WriteIs
  <2> HIDE DEF x
  <2>7. bs = [k.b EXCEPT ![k.r[id].caller] = Unreserve(k.b[k.r[id].caller], k.r[id].tokens)]
        /\ rows = UpdateCallerBinding(k.bRows, k.r[id].caller, bs[k.r[id].caller])
    BY <2>5
  <2> HIDE DEF bs
  <2>8. KSound(x) /\ Kept(k, x)
    BY <1>2, <1>3, <2>6, <2>7, StatusCases
  <2> QED BY <2>8 DEF x
<1>4. CASE c \notin DOMAIN k.b
  <2>1. x = WriteStatus(k, id, "completed")
    BY <1>4 DEF CompleteReservation
  <2>2. x = Books(k.b, k.bRows, UpdateReservationStatus(k.r, id, "completed"),
                  UpdateReservationStatus(k.rRows, id, "completed"))
    <3> HIDE DEF x
    <3> QED BY <1>1, <2>1, WriteIs
  <2> HIDE DEF x
  <2>3. KSound(x) /\ Kept(k, x)
    BY <1>2, <2>2, StatusCases
  <2> QED BY <2>3 DEF x
<1> QED BY <1>3, <1>4

(* A look at one reservation.                                                *)
LEMMA ProcessKeeps ==
  ASSUME NEW k, KSound(k), NEW id \in DOMAIN k.r
  PROVE  KSound(ProcessReservation(k, id)) /\ Kept(k, ProcessReservation(k, id))
<1> DEFINE begun == IF k.r[id].status = "pending" /\ k.r[id].start <= now
                    THEN ActivateReservation(k, id) ELSE k
           x == ProcessReservation(k, id)
<1>1. KSound(begun) /\ Kept(k, begun)
  BY ActivateKeeps, KeptIsOrder
<1>2. x = IF begun.r[id].status = "active" /\ begun.r[id].end <= now
          THEN CompleteReservation(begun, id) ELSE begun
  BY DEF ProcessReservation
<1> HIDE DEF begun, x
<1>3. id \in DOMAIN begun.r
  BY <1>1 DEF Kept
<1>4. CASE x = begun
  BY <1>1, <1>4 DEF x
<1>5. CASE begun.r[id].status = "active" /\ x = CompleteReservation(begun, id)
  <2>1. KSound(x) /\ Kept(begun, x)
    BY <1>1, <1>3, <1>5, CompleteKeeps
  <2>2. Kept(k, x)
    BY <1>1, <2>1, KeptIsOrder
  <2> QED BY <2>1, <2>2 DEF x
<1> QED BY <1>2, <1>4, <1>5

(* The reservations are walked one after the other.                          *)
LEMMA InOrderStays ==
  ASSUME NEW V, NEW D, NEW n \in Nat, NEW order \in [1..n -> D], NEW k \in V,
         \A x \in V : \A id \in D : ProcessReservation(x, id) \in V
  PROVE  ProcessInOrder(k, order) \in V
<1> DEFINE f == [a \in V \X D |-> ProcessReservation(a[1], a[2])]
           Is(x) == x = [s \in SUBSET DOMAIN order |->
                           IF s = {} THEN k
                           ELSE ProcessReservation(x[s \ {Max(s)}], order[Max(s)])]
           h == CHOOSE x : Is(x)
<1>1. f \in [V \X D -> V] /\ \A x \in V : \A id \in D : f[<<x, id>>] = ProcessReservation(x, id)
  OBVIOUS
<1> HIDE DEF f
<1>2. ASSUME NEW s \in SUBSET (1..n), s # {}
      PROVE  Max(s) \in 1..n /\ order[Max(s)] \in D
  <2>1. IsFiniteSet(1..n) /\ 1..n \subseteq Nat
    BY FS_Interval
  <2>2. IsFiniteSet(s) /\ s \in SUBSET Nat
    BY <2>1, FS_Subset
  <2>3. Max(s) \in 1..n
    BY <1>2, <2>2, MaxOfFinite
  <2> QED BY <2>3
<1>3. PICK g \in [SUBSET (1..n) -> V] : FoldOf(g, n, k, order, f)
  BY <1>1, FoldIsThere
<1>4. Is(g)
  <2>1. ASSUME NEW s \in SUBSET (1..n), s # {}
        PROVE  g[s] = ProcessReservation(g[s \ {Max(s)}], order[Max(s)])
    <3>1. g[s] = f[<<g[s \ {Max(s)}], order[Max(s)]>>] /\ g[s \ {Max(s)}] \in V
      BY <1>3, <2>1 DEF FoldOf
    <3> QED BY <1>1, <1>2, <2>1, <3>1
  <2>2. g[{}] = k
    BY <1>3 DEF FoldOf
  <2>3. DOMAIN order = 1..n
    OBVIOUS
  <2> QED BY <2>1, <2>2, <2>3
<1>5. Is(h)
  <2> HIDE DEF Is
  <2> QED BY <1>4
<1>6. ProcessInOrder(k, order) = h[DOMAIN order]
  BY DEF ProcessInOrder, FoldLeft, MapThenFoldSet
<1>7. \A s \in SUBSET (1..n) :
        h[s] = IF s = {} THEN k ELSE ProcessReservation(h[s \ {Max(s)}], order[Max(s)])
  <2>1. \A x : Is(x) => \A s \in SUBSET (1..n) :
          x[s] = IF s = {} THEN k ELSE ProcessReservation(x[s \ {Max(s)}], order[Max(s)])
    OBVIOUS
  <2> HIDE DEF h, Is
  <2> QED BY <1>5, <2>1
<1> HIDE DEF h, Is
<1>8. h[1..n] \in V
  <2>1. h[{}] = k
    BY <1>7
  <2>2. ASSUME NEW s \in SUBSET (1..n), s # {}, h[s \ {Max(s)}] \in V
        PROVE  h[s] = f[<<h[s \ {Max(s)}], order[Max(s)]>>]
    BY <1>1, <1>2, <1>7, <2>2
  <2>3. FoldWithin(h, n, k, order, f, V)
    BY <2>1, <2>2 DEF FoldWithin
  <2> QED BY <1>1, <2>3, FoldStays
<1> QED BY <1>6, <1>8

LEMMA ProcessedKeeps ==
  ASSUME NEW k, KSound(k), NEW x \in ProcessReservations(k)
  PROVE  KSound(x) /\ Kept(k, x)
<1> DEFINE All == [b : [DOMAIN k.b -> Binding], bRows : [DOMAIN k.b -> Binding],
                   r : [DOMAIN k.r -> Reservation], rRows : Seq(Reservation)]
           V == {y \in All : KSound(y) /\ Kept(k, y)}
<1>1. PICK order \in SetToSeqs(DOMAIN k.r) : x = ProcessInOrder(k, order)
  BY DEF ProcessReservations
<1>2. ReservationMap(k.r)
  BY ReservationsAreMap DEF KSound
<1> DEFINE n == Cardinality(DOMAIN k.r)
<1>3. n \in Nat /\ order \in [1..n -> DOMAIN k.r]
  <2>1. n \in Nat
    BY <1>2, FS_CardinalityType DEF ReservationMap
  <2> QED BY <2>1 DEF SetToSeqs
<1>4. ASSUME NEW y, KSound(y), Kept(k, y) PROVE y \in V
  <2>1. /\ y.b \in [DOMAIN k.b -> Binding] /\ y.bRows \in [DOMAIN k.b -> Binding]
        /\ y.r \in [DOMAIN k.r -> Reservation] /\ y.rRows \in Seq(Reservation)
    BY <1>4 DEF KSound, Kept, BooksGood, BindingsOK, RowsAgree, ReservationsOK
  <2>2. y = [b |-> y.b, bRows |-> y.bRows, r |-> y.r, rRows |-> y.rRows]
    BY <1>4 DEF KSound, Books
  <2> QED BY <1>4, <2>1, <2>2
<1>5. k \in V
  BY <1>4, KeptIsOrder
<1>6. ASSUME NEW y \in V, NEW id \in DOMAIN k.r PROVE ProcessReservation(y, id) \in V
  <2>1. KSound(y) /\ Kept(k, y) /\ id \in DOMAIN y.r
    BY DEF Kept
  <2>2. KSound(ProcessReservation(y, id)) /\ Kept(y, ProcessReservation(y, id))
    BY <2>1, ProcessKeeps
  <2>3. Kept(k, ProcessReservation(y, id))
    BY <2>1, <2>2, KeptIsOrder
  <2> HIDE DEF V
  <2> QED BY <1>4, <2>2, <2>3
<1>7. ProcessInOrder(k, order) \in V
  <2> HIDE DEF V, n
  <2> QED BY <1>3, <1>5, <1>6, InOrderStays
<1> QED BY <1>1, <1>7

(* The books before a step, and a step that ends with books kept.            *)
BooksNow == Books(bindings, bindingRows, reservations, reservationRows)

LEMMA BooksNowSound ==
  ASSUME QuotaInv
  PROVE  /\ KSound(BooksNow) /\ BooksNow.b = bindings /\ BooksNow.bRows = bindingRows
         /\ BooksNow.r = reservations /\ BooksNow.rRows = reservationRows
BY InvFacts DEF BooksNow, KSound, Books, QuotaInv

LEMMA TickBooks ==
  ASSUME QuotaInv, NEW x, KSound(x), Kept(BooksNow, x), now' = now, bound' = bound,
         reservations' = x.r, reservationRows' = x.rRows,
         BooksGood(bindings', bindingRows'), DOMAIN bindings' = DOMAIN bindings,
         \A c \in DOMAIN bindings :
           Net(bindings'[c]) = Net(x.b[c]) /\ bindings'[c].reserved = x.b[c].reserved
  PROVE  /\ ReservationsOK(reservations', reservationRows', now')
         /\ Len(reservationRows') <= bound.reservations
         /\ NotOverbooked(reservations', bound.time)
         /\ StaysCovered /\ Moved
<1>1. /\ KSound(BooksNow) /\ BooksNow.b = bindings /\ BooksNow.bRows = bindingRows
      /\ BooksNow.r = reservations /\ BooksNow.rRows = reservationRows
  BY BooksNowSound
<1>2. /\ DOMAIN x.b = DOMAIN bindings /\ DOMAIN x.r = DOMAIN reservations
      /\ Len(x.rRows) = Len(reservationRows)
      /\ \A c \in DOMAIN bindings : Net(x.b[c]) = Net(bindings[c])
      /\ \A i \in DOMAIN reservations :
           /\ \A part \in {"policy", "caller", "tokens", "start", "end"} :
                x.r[i][part] = reservations[i][part]
           /\ x.r[i].status \in Live => reservations[i].status \in Live
      /\ \A c \in DOMAIN bindings : bindings[c].reserved >= ActiveIn(reservations, c) =>
           x.b[c].reserved >= ActiveIn(x.r, c)
  BY <1>1 DEF Kept
<1>3. ReservationsOK(reservations', reservationRows', now')
  BY DEF KSound
<1>4. Len(reservationRows') <= bound.reservations
  BY <1>2 DEF QuotaInv
<1>5. NotOverbooked(reservations', bound.time)
  <2>1. ReservationMap(reservations) /\ ReservationMap(x.r) /\ bound.time \in Nat
    BY ReservationsAreMap, InvFacts DEF KSound, QuotaInv
  <2>2. NotOverbooked(reservations, bound.time)
    BY DEF QuotaInv
  <2>3. \A i \in DOMAIN x.r : x.r[i].status \in Live =>
            /\ i \in DOMAIN reservations /\ reservations[i].status \in Live
            /\ \A part \in {"policy", "tokens", "start", "end"} : x.r[i][part] = reservations[i][part]
    BY <1>2
  <2>4. NotOverbooked(x.r, bound.time)
    BY <2>1, <2>2, <2>3, StaysWithin
  <2> QED BY <2>4
<1>6. StaysCovered
  BY <1>2, CoveredIs DEF StaysCovered, BoundCallers
<1>7. Moved
  <2>1. BindingMap(bindings)
    BY InvFacts
  <2> DEFINE bs == bindings'
  <2>2. \A c \in DOMAIN bindings : Net(bs[c]) = Net(bindings[c])
    BY <1>2
  <2>5. DOMAIN bs = DOMAIN bindings
    OBVIOUS
  <2> HIDE DEF bs
  <2>6. NetBorrowed(bs) = NetBorrowed(bindings)
    BY <2>1, <2>2, <2>5, NetSame
  <2> QED BY <2>6 DEF Moved, bs
<1> QED BY <1>3, <1>4, <1>5, <1>6, <1>7

(* Books that are kept, and the rest left alone.                             *)
LEMMA KeptStep ==
  ASSUME QuotaInv, NEW x, KSound(x), Kept(BooksNow, x), now' = now, bound' = bound,
         beat' \in BOOLEAN, policies' = policies,
         waitQueue' = waitQueue, queueRows' = queueRows, lastItem' = lastItem,
         borrowRows' = borrowRows,
         reservations' = x.r, reservationRows' = x.rRows,
         BooksGood(bindings', bindingRows'), DOMAIN bindings' = DOMAIN bindings,
         \A c \in DOMAIN bindings :
           Net(bindings'[c]) = Net(x.b[c]) /\ bindings'[c].reserved = x.b[c].reserved
  PROVE  GoodStep
<1>1. /\ ReservationsOK(reservations', reservationRows', now')
      /\ Len(reservationRows') <= bound.reservations
      /\ NotOverbooked(reservations', bound.time)
      /\ StaysCovered /\ Moved
  BY TickBooks
<1>2. now' \in now..bound.time
  BY InvFacts DEF QuotaInv
<1>3. policies' \subseteq Policies /\ borrowRows' \in Seq(BorrowRecord)
  BY DEF QuotaInv
<1> QED BY <1>1, <1>2, <1>3, StepKeeps

LEMMA CancelStep ==
  ASSUME QuotaInv, NEW id \in DOMAIN reservations, CancelReservation(id)
  PROVE  GoodStep
<1> DEFINE r == reservations[id]
           k == BooksNow
           bs == bindings'
           rows == bindingRows'
           x == Books(bs, rows, UpdateReservationStatus(k.r, id, "cancelled"),
                      UpdateReservationStatus(k.rRows, id, "cancelled"))
<1>1. /\ KSound(k) /\ k.b = bindings /\ k.bRows = bindingRows
      /\ k.r = reservations /\ k.rRows = reservationRows
  BY BooksNowSound
<1> HIDE DEF k
<1>2. k.r[id].status \in Live /\ id \in DOMAIN k.r /\ "cancelled" \in ReservationStatuses
  BY <1>1 DEF CancelReservation, ReservationStatuses
<1>3. \/ /\ bs = k.b /\ rows = k.bRows
         /\ "cancelled" # "active"
      \/ /\ k.r[id].caller \in DOMAIN k.b /\ "cancelled" # "active" /\ k.r[id].status = "active"
         /\ bs = [k.b EXCEPT ![k.r[id].caller] = Unreserve(k.b[k.r[id].caller], k.r[id].tokens)]
         /\ rows = UpdateCallerBinding(k.bRows, k.r[id].caller, bs[k.r[id].caller])
  <2>1. CASE r.status = "active" /\ r.caller \in DOMAIN bindings
    <3> DEFINE b == Unreserve(bindings[r.caller], r.tokens)
    <3>1. Save(r.caller, b)
      BY <2>1 DEF CancelReservation
    <3>2. bs = [bindings EXCEPT ![r.caller] = b] /\ rows = UpdateCallerBinding(bindingRows, r.caller, b)
      BY <3>1 DEF Save
    <3> HIDE DEF b
    <3>3. bs[r.caller] = b
      BY <2>1, <3>2
    <3> QED BY <1>1, <2>1, <3>2, <3>3 DEF b
  <2>2. CASE ~ (r.status = "active" /\ r.caller \in DOMAIN bindings)
    <3>1. bs = bindings /\ rows = bindingRows
      BY <2>2 DEF CancelReservation
    <3> QED BY <1>1, <3>1
  <2> QED BY <2>1, <2>2
<1>4. /\ now' = now /\ bound' = bound /\ beat' \in BOOLEAN /\ policies' = policies
      /\ waitQueue' = waitQueue /\ queueRows' = queueRows /\ lastItem' = lastItem
      /\ borrowRows' = borrowRows
  BY DEF CancelReservation, QuotaInv
<1>5. /\ reservations' = UpdateReservationStatus(k.r, id, "cancelled")
      /\ reservationRows' = UpdateReservationStatus(k.rRows, id, "cancelled")
  BY <1>1 DEF CancelReservation
<1> HIDE DEF bs, rows
<1>6. x.r = reservations' /\ x.rRows = reservationRows' /\ x.b = bs /\ x.bRows = rows
  BY <1>5 DEF Books
<1> HIDE DEF x
<1>7. KSound(x) /\ Kept(k, x)
  <2>1. x = Books(bs, rows, UpdateReservationStatus(k.r, id, "cancelled"),
                  UpdateReservationStatus(k.rRows, id, "cancelled"))
    BY DEF x
  <2> QED BY <1>1, <1>2, <1>3, <2>1, StatusCases
<1>8. BooksGood(bindings', bindingRows') /\ DOMAIN bindings' = DOMAIN bindings
  BY <1>1, <1>6, <1>7 DEF KSound, Kept, bs, rows
<1>9. \A c \in DOMAIN bindings :
        Net(bindings'[c]) = Net(x.b[c]) /\ bindings'[c].reserved = x.b[c].reserved
  BY <1>6 DEF bs
<1> QED BY <1>4, <1>6, <1>7, <1>8, <1>9, KeptStep DEF k

(* A look at some callers, which first walks the reservations.               *)
LEMMA LookAtStep ==
  ASSUME QuotaInv, NEW cs, GetCallerStatus(cs)
  PROVE  GoodStep
<1>1. PICK k \in ProcessReservations(BooksNow) :
        /\ bindings' \in Refreshed(k.b, cs)
        /\ bindingRows' = k.bRows
        /\ reservations' = k.r
        /\ reservationRows' = k.rRows
  BY DEF GetCallerStatus, BooksNow
<1>2. KSound(BooksNow) /\ BooksNow.b = bindings
  BY BooksNowSound
<1>3. KSound(k) /\ Kept(BooksNow, k)
  BY <1>2, ProcessedKeeps
<1>4. BooksGood(k.b, k.bRows) /\ DOMAIN k.b = DOMAIN bindings
  BY <1>2, <1>3 DEF KSound, Kept
<1> DEFINE bs == bindings'
<1>5. bs \in Refreshed(k.b, cs)
  BY <1>1
<1> HIDE DEF bs
<1>6. /\ BindingsOK(bs) /\ DOMAIN bs = DOMAIN k.b
      /\ \A c \in DOMAIN k.b : SameButUsed(k.b[c], bs[c])
      /\ RowsAgree(bs, k.bRows)
  BY <1>4, <1>5, RefreshedKeeps, RefreshedAgrees DEF BooksGood
<1>7. \A c \in DOMAIN bindings : Net(bs[c]) = Net(k.b[c]) /\ bs[c].reserved = k.b[c].reserved
  BY <1>4, <1>6 DEF SameButUsed, Agreed, Net
<1>8. BooksGood(bindings', bindingRows') /\ DOMAIN bindings' = DOMAIN bindings
  BY <1>1, <1>4, <1>6 DEF BooksGood, bs
<1>9. /\ now' = now /\ bound' = bound /\ beat' \in BOOLEAN /\ policies' = policies
      /\ waitQueue' = waitQueue /\ queueRows' = queueRows /\ lastItem' = lastItem
      /\ borrowRows' = borrowRows
  BY DEF GetCallerStatus, QuotaInv
<1>10. \A c \in DOMAIN bindings :
        Net(bindings'[c]) = Net(k.b[c]) /\ bindings'[c].reserved = k.b[c].reserved
  BY <1>7 DEF bs
<1> QED BY <1>1, <1>3, <1>8, <1>9, <1>10, KeptStep

(* A new reservation fits: the sweep meets every instant.                    *)
LEMMA SweepMeetsAll ==
  ASSUME bound.time \in Nat, NEW xs, ReservationMap(xs), NEW p \in Policies,
         FALSE \in Conflicts(p, Restrict(xs, OfPolicy(p, xs))), NEW t \in 0..bound.time
  PROVE  ReservedAt(t, Restrict(xs, OfPolicy(p, xs))) <= MaxTokens[p]
<1> DEFINE y == Restrict(xs, OfPolicy(p, xs))
           f == [u \in 0..bound.time |-> ReservedAt(u, y)]
           S == {f[u] : u \in 0..bound.time}
<1>1. \A u : ReservedAt(u, y) \in Nat
  BY LessReserved
<1>2. LowestSweep(y) <= MaxTokens[p]
  <2>1. FALSE \in Conflicts(p, y)
    OBVIOUS
  <2> HIDE DEF y
  <2> QED BY <2>1 DEF Conflicts
<1> HIDE DEF y
<1>3. {ReservedAt(u, y) : u \in 0..bound.time} = S
  OBVIOUS
<1>4. LowestSweep(y) = Max(S)
  <2> HIDE DEF S
  <2> QED BY <1>3 DEF LowestSweep
<1>5. IsFiniteSet(S)
  <2>1. IsFiniteSet(0..bound.time) /\ f = [u \in 0..bound.time |-> f[u]]
    BY FS_Interval
  <2> HIDE DEF f
  <2> QED BY <2>1, ImageIsFinite
<1>6. S \in SUBSET Nat /\ ReservedAt(t, y) \in S
  BY <1>1
<1> HIDE DEF S, f
<1>7. Max(S) \in S /\ Max(S) >= ReservedAt(t, y)
  BY <1>5, <1>6, MaxOfFinite
<1>8. MaxTokens[p] \in Nat /\ Max(S) \in Nat /\ ReservedAt(t, y) \in Nat
  BY <1>6, <1>7, RateLimitAssumption
<1>9. ReservedAt(t, y) <= MaxTokens[p]
  BY <1>2, <1>4, <1>7, <1>8
<1> QED BY <1>9 DEF y

LEMMA ReserveStep ==
  ASSUME QuotaInv, NEW p \in Policies, NEW c \in DOMAIN bindings, NEW n \in bound.amounts,
         NEW s \in 0..bound.time, NEW e \in 0..bound.time, CreateReservation(p, c, n, s, e)
  PROVE  GoodStep
<1> DEFINE id == Len(reservationRows) + 1
           r == [policy |-> p, caller |-> c, tokens |-> n, start |-> s, end |-> e,
                 status |-> IF s <= now THEN "active" ELSE "pending"]
           rs == [i \in DOMAIN reservations \cup {id} |-> IF i = id THEN r ELSE reservations[i]]
           b == [bindings[c] EXCEPT !.reserved = @ + n]
<1>1. /\ n \in Nat /\ now \in Nat /\ bound.time \in Nat /\ bound.reservations \in Nat
      /\ DOMAIN bindings \subseteq Callers
      /\ BooksGood(bindings, bindingRows)
  BY InvFacts DEF BindingMap
<1>2. r \in Reservation /\ r.caller = c /\ r.tokens = n /\ r.policy = p
      /\ r.status = IF s <= now THEN "active" ELSE "pending"
  <2>1. s \in Nat /\ e \in Nat /\ c \in Callers
    BY <1>1
  <2> QED BY <1>1, <2>1 DEF Reservation, ReservationStatuses
<1>3. /\ FALSE \in Conflicts(p, Restrict(rs, OfPolicy(p, rs)))
      /\ id <= bound.reservations
      /\ reservationRows' = Append(reservationRows, r)
      /\ reservations' = rs
      /\ IF r.status = "active" THEN Save(c, b) ELSE UNCHANGED <<bindings, bindingRows>>
  BY DEF CreateReservation
<1>4. /\ bound' = bound /\ beat' \in BOOLEAN /\ now' \in now..bound.time /\ now' = now
      /\ policies' \subseteq Policies
      /\ waitQueue' = waitQueue /\ queueRows' = queueRows /\ lastItem' = lastItem
      /\ borrowRows' \in Seq(BorrowRecord)
  <2>1. now \in now..bound.time
    BY <1>1 DEF QuotaInv
  <2> QED BY <2>1 DEF CreateReservation, QuotaInv
<1>5. /\ ReservationsOK(reservations, reservationRows, now) /\ ReservationMap(reservations)
      /\ DOMAIN reservations \subseteq 1..Len(reservationRows) /\ Len(reservationRows) \in Nat
      /\ reservationRows \in Seq(Reservation)
  BY ReservationsAreMap DEF QuotaInv, ReservationsOK
<1>6. id \notin DOMAIN reservations
  BY <1>5
<1>7. DOMAIN rs = DOMAIN reservations \cup {id} /\ rs[id] = r
      /\ \A i \in DOMAIN reservations : rs[i] = reservations[i]
  BY <1>6
<1> HIDE DEF r
<1>8. ReservationMap(rs) /\ \A d : ActiveIn(rs, d) = ActiveIn(reservations, d) + Part(r, d)
  <2>1. rs = [i \in DOMAIN reservations \cup {id} |-> IF i = id THEN r ELSE reservations[i]]
    OBVIOUS
  <2>2. r \in Reservation /\ ReservationMap(reservations) /\ id \notin DOMAIN reservations
    BY <1>2, <1>5, <1>6
  <2> HIDE DEF rs, id
  <2>3. ASSUME NEW d
        PROVE  ReservationMap(rs) /\ ActiveIn(rs, d) = ActiveIn(reservations, d) + Part(r, d)
    BY <2>1, <2>2, OneMore
  <2> QED BY <2>3
<1> HIDE DEF rs
<1>9. ReservationsOK(reservations', reservationRows', now') /\ Len(reservationRows') <= bound.reservations
  <2> DEFINE rows == Append(reservationRows, r)
  <2>1. /\ rows \in Seq(Reservation) /\ Len(rows) = id /\ rows[id] = r
        /\ \A i \in 1..Len(reservationRows) : rows[i] = reservationRows[i]
        /\ DOMAIN reservationRows = 1..Len(reservationRows)
    BY <1>2, <1>5, AppendProperties
  <2>2. DOMAIN rows = 1..id
    <3> HIDE DEF rows
    <3> QED BY <2>1
  <2> HIDE DEF rows
  <2>3. id \in 1..id /\ (\A i \in 1..id : i # id => i \in 1..Len(reservationRows))
        /\ 1..Len(reservationRows) \subseteq 1..id
    BY <1>5
  <2> HIDE DEF id
  <2>4. DOMAIN rs \subseteq DOMAIN rows
    BY <1>5, <1>7, <2>2, <2>3
  <2>5. rs \in [DOMAIN rs -> Reservation]
    BY <1>8 DEF ReservationMap
  <2>6. \A i \in DOMAIN rs : rs[i] = rows[i] \/ EndedUnseen(rs[i], rows[i], now)
    BY <1>5, <1>7, <2>1, <2>3 DEF ReservationsOK
  <2>7. \A i \in DOMAIN rows \ DOMAIN rs : rows[i].status \notin Live
    BY <1>5, <1>7, <2>1, <2>2, <2>3 DEF ReservationsOK
  <2>8. ReservationsOK(rs, rows, now)
    BY <2>1, <2>4, <2>5, <2>6, <2>7 DEF ReservationsOK
  <2>9. reservations' = rs /\ reservationRows' = rows
    BY <1>3 DEF rows
  <2> QED BY <1>3, <1>4, <2>1, <2>8, <2>9
<1>10. NotOverbooked(reservations', bound.time)
  <2> SUFFICES ASSUME NEW q \in Policies, NEW t \in 0..bound.time
               PROVE  ReservedAt(t, Restrict(rs, OfPolicy(q, rs))) <= MaxTokens[q]
    BY <1>3 DEF NotOverbooked
  <2>1. CASE q = p
    BY <1>1, <1>3, <1>8, <2>1, SweepMeetsAll
  <2>2. CASE q # p
    <3> DEFINE m == ReservedAt(t, Restrict(reservations, OfPolicy(q, reservations)))
               k == ReservedAt(t, Restrict(rs, OfPolicy(q, rs)))
    <3>1. \A i \in DOMAIN rs : rs[i].status \in Live /\ rs[i].policy = q =>
            /\ i \in DOMAIN reservations /\ reservations[i].status \in Live
            /\ \A part \in {"policy", "tokens", "start", "end"} : rs[i][part] = reservations[i][part]
      BY <1>2, <1>7, <2>2
    <3>2. k <= m /\ k \in Nat /\ m \in Nat
      BY <1>5, <1>8, <3>1, LessReserved
    <3>3. m <= MaxTokens[q] /\ MaxTokens[q] \in Nat
      BY RateLimitAssumption DEF QuotaInv, NotOverbooked
    <3> HIDE DEF m, k
    <3>4. k <= MaxTokens[q]
      BY <3>2, <3>3
    <3> QED BY <3>4 DEF k
  <2> QED BY <2>1, <2>2
<1>11. bindings[c] \in Binding /\ bindings[c].used <= EffectiveLimit(bindings[c])
       /\ \A d \in DOMAIN bindings : bindings[d].reserved \in Nat
  BY <1>1 DEF BooksGood, BindingsOK, Binding
<1>12. \A d : ActiveIn(reservations, d) \in Nat
  BY <1>5, ActiveIsNat
<1>13. CASE s <= now
  <2>1. Save(c, b)
    BY <1>2, <1>3, <1>13
  <2>2. /\ b \in Binding /\ b.used <= EffectiveLimit(b)
        /\ b.borrowed = bindings[c].borrowed /\ b.lent = bindings[c].lent
        /\ b.reserved = bindings[c].reserved + n
    <3> DEFINE o == bindings[c]
    <3>1. o \in Binding /\ o.used <= EffectiveLimit(o)
      BY <1>11
    <3> HIDE DEF o
    <3> DEFINE x == [o EXCEPT !.reserved = @ + n]
    <3>2. /\ x \in Binding /\ x.used <= EffectiveLimit(x)
          /\ x.borrowed = o.borrowed /\ x.lent = o.lent /\ x.reserved = o.reserved + n
      BY <1>1, <3>1, ReserveKeeps
    <3>3. b = x
      BY DEF o
    <3> HIDE DEF b, x
    <3> QED BY <3>2, <3>3 DEF o
  <2>3. bindings' = [bindings EXCEPT ![c] = b]
    BY <2>1 DEF Save
  <2> HIDE DEF b
  <2>4. BooksGood(bindings', bindingRows') /\ DOMAIN bindings' = DOMAIN bindings /\ Moved
    BY <2>1, <2>2, SaveStep
  <2>5. bindings'[c] = b /\ \A d \in DOMAIN bindings \ {c} : bindings'[d] = bindings[d]
    BY <2>3
  <2>6. StaysCovered
    <3> SUFFICES ASSUME NEW d \in DOMAIN bindings, bindings[d].reserved >= ActiveIn(reservations, d)
                 PROVE  bindings'[d].reserved >= ActiveIn(rs, d)
      BY <1>3, <2>4, CoveredIs DEF StaysCovered, BoundCallers
    <3>1. CASE d = c
      <4>1. Part(r, d) = n /\ bindings'[d].reserved = bindings[d].reserved + n
        BY <1>2, <1>13, <2>2, <2>5, <3>1 DEF Part
      <4> QED BY <1>1, <1>8, <1>11, <1>12, <4>1
    <3>2. CASE d # c
      <4>1. Part(r, d) = 0 /\ bindings'[d] = bindings[d]
        BY <1>2, <2>5, <3>2 DEF Part
      <4> QED BY <1>8, <1>11, <1>12, <4>1
    <3> QED BY <3>1, <3>2
  <2> QED BY <1>4, <1>9, <1>10, <2>4, <2>6, StepKeeps
<1>14. CASE ~ (s <= now)
  <2>1. bindings' = bindings /\ bindingRows' = bindingRows
    BY <1>2, <1>3, <1>14
  <2>2. BooksGood(bindings', bindingRows') /\ DOMAIN bindings' = DOMAIN bindings /\ Moved
    BY <1>1, <2>1 DEF Moved
  <2>3. \A d : Part(r, d) = 0
    BY <1>2, <1>14 DEF Part
  <2>4. \A d : ActiveIn(rs, d) = ActiveIn(reservations, d)
    BY <1>8, <1>12, <2>3
  <2>5. StaysCovered
    BY <1>3, <2>1, <2>4, CoveredIs DEF StaysCovered, BoundCallers
  <2> QED BY <1>4, <1>9, <1>10, <2>2, <2>5, StepKeeps
<1> QED BY <1>13, <1>14

(********************************* the queue *********************************)

(* A walk of the queue as a sequence of states: the one after each request.  *)
GrantsBy(v, n, base, order) ==
  /\ v[0] = base /\ v[n] = FoldLeft(TryGrant, base, order)
  /\ \A m \in 1..n : v[m] = TryGrant(v[m-1], order[m])

LEMMA GrantFold ==
  ASSUME NEW V, NEW D, NEW n \in Nat, NEW order \in [1..n -> D], NEW base \in V,
         \A g \in V : \A item \in D : TryGrant(g, item) \in V
  PROVE  \E v \in [0..n -> V] : GrantsBy(v, n, base, order)
<1> DEFINE f == [a \in (1..n) \X V |-> TryGrant(a[2], order[a[1]])]
           Is(x) == x = [s \in SUBSET DOMAIN order |->
                           IF s = {} THEN base
                           ELSE TryGrant(x[s \ {Max(s)}], order[Max(s)])]
<1>1. f \in [(1..n) \X V -> V]
  OBVIOUS
<1>2. PICK g \in [SUBSET (1..n) -> V] : IsFold(g, n, base, f)
  <2> HIDE DEF f
  <2> QED BY <1>1, FoldExists
<1>3. ASSUME NEW s \in SUBSET (1..n), s # {}
      PROVE  Max(s) \in s
  <2>1. IsFiniteSet(1..n) /\ 1..n \subseteq Nat
    BY FS_Interval
  <2>2. IsFiniteSet(s) /\ s \in SUBSET Nat
    BY <2>1, FS_Subset
  <2> QED BY <1>3, <2>2, MaxOfFinite
<1>4. ASSUME NEW x, Is(x) PROVE \A s \in SUBSET (1..n) :
        x[s] = IF s = {} THEN base ELSE TryGrant(x[s \ {Max(s)}], order[Max(s)])
  BY <1>4
<1>5. Is(g)
  <2>1. ASSUME NEW s \in SUBSET (1..n), s # {}
        PROVE  f[<<Max(s), g[s \ {Max(s)}]>>] = TryGrant(g[s \ {Max(s)}], order[Max(s)])
    <3>1. Max(s) \in 1..n /\ g[s \ {Max(s)}] \in V
      BY <1>3, <2>1
    <3> QED BY <3>1
  <2>2. DOMAIN order = 1..n
    OBVIOUS
  <2> HIDE DEF f
  <2> QED BY <1>2, <2>1, <2>2 DEF IsFold
<1> DEFINE h == CHOOSE y : Is(y)
<1>6. Is(h)
  <2> HIDE DEF Is
  <2> QED BY <1>5
<1>7. FoldLeft(TryGrant, base, order) = h[DOMAIN order]
  BY DEF FoldLeft, MapThenFoldSet
<1>8. \A s \in SUBSET (1..n) :
        h[s] = IF s = {} THEN base ELSE TryGrant(h[s \ {Max(s)}], order[Max(s)])
  <2> HIDE DEF h, Is
  <2> QED BY <1>4, <1>6
<1> HIDE DEF h
<1>9. /\ h[1..0] = base
      /\ \A m \in 1..n : h[1..m] = TryGrant(h[1..(m-1)], order[m])
  <2>1. h[1..0] = base
    <3>1. 1..0 = {} /\ {} \in SUBSET (1..n)
      OBVIOUS
    <3> HIDE DEF h
    <3> QED BY <1>8, <3>1
  <2>2. ASSUME NEW m \in 1..n PROVE h[1..m] = TryGrant(h[1..(m-1)], order[m])
    <3>1. m \in Nat \ {0} /\ 1..m \in SUBSET (1..n)
      OBVIOUS
    <3>2. Max(1..m) = m /\ (1..m) \ {m} = 1..(m-1) /\ 1..m # {}
      BY <3>1, LastPosition
    <3> QED BY <1>8, <3>1, <3>2
  <2> QED BY <2>1, <2>2
<1> DEFINE v == [m \in 0..n |-> h[1..m]]
           T == {m \in Nat : m <= n => h[1..m] \in V}
<1>10. T = Nat
  <2>1. 0 \in T
    BY <1>9
  <2>2. ASSUME NEW m \in T PROVE m + 1 \in T
    <3> SUFFICES ASSUME m + 1 <= n PROVE h[1..(m+1)] \in V
      OBVIOUS
    <3>1. h[1..m] \in V /\ m + 1 \in 1..n /\ (m + 1) - 1 = m
      OBVIOUS
    <3>2. order[m + 1] \in D
      BY <3>1
    <3> QED BY <1>9, <3>1, <3>2
  <2>3. T \in SUBSET Nat
    OBVIOUS
  <2> HIDE DEF T
  <2> QED BY <2>1, <2>2, <2>3, NatSetInduction
<1>11. v \in [0..n -> V]
  <2>1. \A m \in 0..n : h[1..m] \in V
    <3>1. \A m \in 0..n : m \in T
      BY <1>10
    <3> QED BY <3>1
  <2> QED BY <2>1
<1>12. DOMAIN order = 1..n /\ v[0] = base /\ v[n] = h[1..n]
  BY <1>9
<1>13. \A m \in 1..n : v[m] = TryGrant(v[m-1], order[m])
  BY <1>9
<1> HIDE DEF v
<1> QED BY <1>7, <1>11, <1>12, <1>13 DEF GrantsBy

(* Books that differ in what was used only.                                  *)
UsedOnly(k, x) ==
  /\ KSound(x) /\ DOMAIN x.b = DOMAIN k.b /\ x.r = k.r /\ x.rRows = k.rRows
  /\ \A c \in DOMAIN k.b : SameButUsed(k.b[c], x.b[c])

LEMMA UsedOnlyTwice ==
  ASSUME NEW k, NEW x, NEW y, UsedOnly(k, x), UsedOnly(x, y)
  PROVE  UsedOnly(k, y)
BY DEF UsedOnly, SameButUsed

(* A request that is granted leaves nobody more.                             *)
LEMMA GrantOne ==
  ASSUME NEW k, KSound(k), NEW item \in WaitItem, item.caller \in DOMAIN k.b,
         Remaining(k.b[item.caller]) >= item.tokens,
         NEW x, x = WriteBinding(k, item.caller,
                                 [k.b[item.caller] EXCEPT !.used = @ + item.tokens])
  PROVE  UsedOnly(k, x) /\ \A c \in DOMAIN k.b : Remaining(x.b[c]) <= Remaining(k.b[c])
<1> DEFINE a == item.caller
           o == k.b[a]
           u == o.used + item.tokens
           b == [o EXCEPT !.used = u]
<1>1. BooksGood(k.b, k.bRows) /\ k = Books(k.b, k.bRows, k.r, k.rRows)
      /\ ReservationsOK(k.r, k.rRows, now)
  BY DEF KSound
<1>2. /\ \A c \in DOMAIN k.b : k.b[c] \in Binding
      /\ o \in Binding /\ o.used <= EffectiveLimit(o) /\ o.used \in Nat
      /\ item.tokens \in Nat /\ a \in DOMAIN k.b
  BY <1>1 DEF BooksGood, BindingsOK, Binding, WaitItem
<1>3. x = WriteBinding(k, a, b) /\ Remaining(o) >= item.tokens
  OBVIOUS
<1> HIDE DEF a, o
<1>4. EffectiveLimit(o) \in Nat /\ Remaining(o) = EffectiveLimit(o) - o.used
  BY <1>2, LimitIs
<1>5. u \in Nat /\ u <= EffectiveLimit(o) /\ o.used <= u
  BY <1>2, <1>3, <1>4
<1>6. u = o.used + item.tokens
  OBVIOUS
<1> HIDE DEF u
<1>7. SameButUsed(o, b) /\ b.used = u
  BY <1>2, <1>5, UsedIsSet
<1>8. EffectiveLimit(b) = EffectiveLimit(o)
  BY <1>2, <1>7, SameLimit
<1> HIDE DEF b
<1>9. b \in Binding /\ b.used <= EffectiveLimit(b)
  BY <1>5, <1>7, <1>8 DEF SameButUsed
<1>10. Remaining(b) <= Remaining(o)
  <2>1. Remaining(b) = IF EffectiveLimit(b) >= b.used THEN EffectiveLimit(b) - b.used ELSE 0
    BY <1>9, LimitIs
  <2> QED BY <1>2, <1>4, <1>5, <1>7, <1>8, <2>1
<1> DEFINE bs == [k.b EXCEPT ![a] = b]
           rows == UpdateCallerBinding(k.bRows, a, b)
<1>11. /\ BooksGood(bs, rows) /\ DOMAIN bs = DOMAIN k.b /\ bs[a] = b
       /\ \A d \in DOMAIN k.b \ {a} : bs[d] = k.b[d]
  BY <1>1, <1>2, <1>9, WrittenOnce
<1>12. x = Books(bs, rows, k.r, k.rRows)
  <2> HIDE DEF bs, rows
  <2>1. WriteBinding(k, a, b) = Books([k.b EXCEPT ![a] = b], UpdateCallerBinding(k.bRows, a, b), k.r, k.rRows)
    BY <1>1, WriteIs
  <2> QED BY <1>3, <2>1 DEF bs, rows
<1> HIDE DEF bs, rows
<1>13. x = Books(x.b, x.bRows, x.r, x.rRows) /\ x.b = bs /\ x.bRows = rows /\ x.r = k.r /\ x.rRows = k.rRows
  BY <1>12 DEF Books
<1>14. KSound(x)
  BY <1>1, <1>11, <1>13 DEF KSound
<1>15. ASSUME NEW c \in DOMAIN k.b
       PROVE  SameButUsed(k.b[c], x.b[c]) /\ Remaining(x.b[c]) <= Remaining(k.b[c])
  <2>1. CASE c = a
    BY <1>7, <1>10, <1>11, <1>13, <2>1 DEF o
  <2>2. CASE c # a
    <3>1. x.b[c] = k.b[c] /\ k.b[c] \in Binding
      BY <1>2, <1>11, <1>13, <2>2
    <3>2. Remaining(k.b[c]) \in Nat
      BY <3>1, LimitIs
    <3> QED BY <3>1, <3>2 DEF SameButUsed
  <2> QED BY <2>1, <2>2
<1> QED BY <1>11, <1>13, <1>14, <1>15 DEF UsedOnly

(* The walk after m requests: what is kept is of those, in their order and   *)
(* too much for its caller, and no later one was granted instead.            *)
InOrder(q) == \A i, j \in DOMAIN q : i < j => q[i].id < q[j].id
Requests(q, cs) ==
  /\ q \in Seq(WaitItem) /\ InOrder(q)
  /\ \A i \in DOMAIN q : q[i].caller \in cs
OfFirst(kp, q, m) == \A j \in DOMAIN kp : \E i \in 1..m : kp[j] = q[i]
TooMuch(kp, bs) == \A j \in DOMAIN kp : kp[j].tokens > Remaining(bs[kp[j].caller])
NotPassed(kp, q, m) ==
  \A i, j \in 1..m :
    /\ i < j /\ q[i].caller = q[j].caller /\ q[i].tokens <= q[j].tokens
    /\ q[i].id \in Ids(kp)
    => q[j].id \in Ids(kp)
Walked(k, g, q, m) ==
  /\ g = [k |-> g.k, keep |-> g.keep]
  /\ UsedOnly(k, g.k) /\ g.keep \in Seq(WaitItem) /\ InOrder(g.keep)
  /\ OfFirst(g.keep, q, m) /\ TooMuch(g.keep, g.k.b) /\ NotPassed(g.keep, q, m)

LEMMA FirstOnes ==
  ASSUME NEW q, NEW cs, Requests(q, cs), NEW m \in Nat, m + 1 \in DOMAIN q,
         NEW kp, kp \in Seq(WaitItem), OfFirst(kp, q, m)
  PROVE  /\ 1..(m+1) \subseteq DOMAIN q
         /\ \A i \in 1..(m+1) : q[i] \in WaitItem /\ q[i].id \in Nat /\ q[i].tokens \in Nat
                                /\ q[i].caller \in cs
         /\ \A j \in DOMAIN kp : kp[j] \in WaitItem /\ kp[j].id \in Nat /\ kp[j].tokens \in Nat
                                /\ kp[j].caller \in cs /\ kp[j].id < q[m+1].id
         /\ \A i \in 1..m : q[i].id \in Ids(kp) => \E j \in DOMAIN kp : kp[j] = q[i]
         /\ q[m+1].id \notin Ids(kp)
<1>1. Len(q) \in Nat /\ DOMAIN q = 1..Len(q) /\ \A i \in DOMAIN q : q[i] \in WaitItem
  BY LenProperties, ElementOfSeq DEF Requests
<1>2. 1..(m+1) \subseteq DOMAIN q
  BY <1>1
<1>3. \A i \in 1..(m+1) : q[i] \in WaitItem /\ q[i].id \in Nat /\ q[i].tokens \in Nat
                          /\ q[i].caller \in cs
  BY <1>1, <1>2 DEF Requests, WaitItem
<1>4. \A j \in DOMAIN kp : kp[j] \in WaitItem /\ kp[j].id \in Nat /\ kp[j].tokens \in Nat
  <2>1. \A j \in DOMAIN kp : kp[j] \in WaitItem
    BY ElementOfSeq
  <2> QED BY <2>1 DEF WaitItem
<1>5. \A i \in 1..m : q[i].id < q[m+1].id
  BY <1>2 DEF Requests, InOrder
<1>6. \A j \in DOMAIN kp : kp[j].caller \in cs /\ kp[j].id < q[m+1].id
  BY <1>3, <1>5 DEF OfFirst
<1>7. ASSUME NEW i \in 1..m, q[i].id \in Ids(kp)
      PROVE  \E j \in DOMAIN kp : kp[j] = q[i]
  <2>1. PICK j \in DOMAIN kp : kp[j].id = q[i].id
    BY <1>7 DEF Ids
  <2>2. PICK h \in 1..m : kp[j] = q[h]
    BY DEF OfFirst
  <2>3. i \in DOMAIN q /\ h \in DOMAIN q /\ q[h].id = q[i].id /\ q[i].id \in Nat
    BY <1>2, <1>3, <2>1, <2>2
  <2>4. ~ (i < h) /\ ~ (h < i)
    BY <2>3 DEF Requests, InOrder
  <2> QED BY <2>2, <2>4
<1>8. q[m+1].id \notin Ids(kp)
  <2>1. q[m+1].id \in Nat
    BY <1>3
  <2> QED BY <1>4, <1>6, <2>1 DEF Ids
<1> QED BY <1>2, <1>3, <1>4, <1>6, <1>7, <1>8

LEMMA WalkStep ==
  ASSUME NEW k, NEW q, Requests(q, DOMAIN k.b), NEW m \in Nat, m + 1 \in DOMAIN q,
         NEW g, Walked(k, g, q, m)
  PROVE  Walked(k, TryGrant(g, q[m+1]), q, m+1)
<1> DEFINE item == q[m+1]
           kp == g.keep
           x == TryGrant(g, item)
           y == WriteBinding(g.k, item.caller, [g.k.b[item.caller] EXCEPT !.used = @ + item.tokens])
<1>1. /\ g = [k |-> g.k, keep |-> kp] /\ UsedOnly(k, g.k) /\ kp \in Seq(WaitItem) /\ InOrder(kp)
      /\ OfFirst(kp, q, m) /\ TooMuch(kp, g.k.b) /\ NotPassed(kp, q, m)
  BY DEF Walked
<1>2. /\ \A i \in 1..(m+1) : q[i] \in WaitItem /\ q[i].id \in Nat /\ q[i].tokens \in Nat
                             /\ q[i].caller \in DOMAIN k.b
      /\ \A j \in DOMAIN kp : kp[j] \in WaitItem /\ kp[j].id \in Nat /\ kp[j].tokens \in Nat
                              /\ kp[j].caller \in DOMAIN k.b /\ kp[j].id < item.id
      /\ \A i \in 1..m : q[i].id \in Ids(kp) => \E j \in DOMAIN kp : kp[j] = q[i]
      /\ item.id \notin Ids(kp)
  <2> HIDE DEF kp
  <2> QED BY <1>1, FirstOnes
<1>3. item \in WaitItem /\ item.id \in Nat /\ item.tokens \in Nat /\ item.caller \in DOMAIN k.b
  <2>1. m + 1 \in 1..(m+1)
    OBVIOUS
  <2> QED BY <1>2, <2>1
<1>4. KSound(g.k) /\ DOMAIN g.k.b = DOMAIN k.b
  BY <1>1 DEF UsedOnly
<1>5. \A c \in DOMAIN k.b : Remaining(g.k.b[c]) \in Nat
  <2>1. \A c \in DOMAIN k.b : g.k.b[c] \in Binding
    BY <1>4 DEF KSound, BooksGood, BindingsOK
  <2> QED BY <2>1, LimitIs
<1>6. \A i \in 1..(m+1) : i = m + 1 \/ i \in 1..m
  OBVIOUS
<1>7. CASE Remaining(g.k.b[item.caller]) >= item.tokens
  <2>1. x = [g EXCEPT !.k = y]
    BY <1>7 DEF TryGrant
  <2>2. UsedOnly(g.k, y) /\ \A c \in DOMAIN k.b : Remaining(y.b[c]) <= Remaining(g.k.b[c])
    <3> HIDE DEF item
    <3> QED BY <1>3, <1>4, <1>7, GrantOne
  <2> HIDE DEF y
  <2>3. x = [k |-> y, keep |-> kp] /\ x.k = y /\ x.keep = kp
    BY <1>1, <2>1
  <2> HIDE DEF x
  <2>4. UsedOnly(k, y)
    BY <1>1, <2>2, UsedOnlyTwice
  <2>5. \A c \in DOMAIN k.b : Remaining(y.b[c]) \in Nat
    <3>1. \A c \in DOMAIN k.b : y.b[c] \in Binding
      BY <2>4 DEF UsedOnly, KSound, BooksGood, BindingsOK
    <3> QED BY <3>1, LimitIs
  <2> HIDE DEF kp
  <2>6. OfFirst(kp, q, m+1)
    BY <1>1 DEF OfFirst
  <2>7. TooMuch(kp, y.b)
    <3> SUFFICES ASSUME NEW j \in DOMAIN kp PROVE kp[j].tokens > Remaining(y.b[kp[j].caller])
      BY DEF TooMuch
    <3>1. kp[j].tokens > Remaining(g.k.b[kp[j].caller])
      BY <1>1 DEF TooMuch
    <3> QED BY <1>2, <1>5, <2>2, <2>5, <3>1
  <2>8. NotPassed(kp, q, m+1)
    <3> SUFFICES ASSUME NEW i \in 1..(m+1), NEW j \in 1..(m+1), i < j, q[i].caller = q[j].caller,
                        q[i].tokens <= q[j].tokens, q[i].id \in Ids(kp)
                 PROVE  q[j].id \in Ids(kp)
      BY DEF NotPassed
    <3>1. i \in 1..m
      OBVIOUS
    <3>2. CASE j \in 1..m
      BY <1>1, <3>1, <3>2 DEF NotPassed
    <3>3. CASE j = m + 1
      <4>1. PICK h \in DOMAIN kp : kp[h] = q[i]
        BY <1>2, <3>1
      <4>2. q[i].tokens > Remaining(g.k.b[item.caller])
        BY <1>1, <3>3, <4>1 DEF TooMuch
      <4>3. q[i].tokens \in Nat /\ Remaining(g.k.b[item.caller]) \in Nat /\ q[i].tokens <= item.tokens
        BY <1>2, <1>3, <1>5, <3>3
      <4> HIDE DEF item
      <4> QED BY <1>3, <1>7, <4>2, <4>3
    <3> QED BY <1>6, <3>2, <3>3
  <2>9. Walked(k, x, q, m+1)
    BY <1>1, <2>3, <2>4, <2>6, <2>7, <2>8 DEF Walked
  <2> QED BY <2>9 DEF x
<1>8. CASE ~ (Remaining(g.k.b[item.caller]) >= item.tokens)
  <2> DEFINE kp2 == Append(kp, item)
  <2>1. x = [g EXCEPT !.keep = kp2]
    BY <1>8 DEF TryGrant
  <2>2. x = [k |-> g.k, keep |-> kp2] /\ x.k = g.k /\ x.keep = kp2
    <3> HIDE DEF kp2
    <3> QED BY <1>1, <2>1
  <2> HIDE DEF x, kp, item
  <2>3. /\ kp2 \in Seq(WaitItem) /\ Len(kp) \in Nat /\ DOMAIN kp = 1..Len(kp)
        /\ DOMAIN kp2 = 1..(Len(kp) + 1) /\ kp2[Len(kp) + 1] = item
        /\ \A j \in 1..Len(kp) : kp2[j] = kp[j]
    <3>1. /\ kp2 \in Seq(WaitItem) /\ Len(kp2) = Len(kp) + 1 /\ kp2[Len(kp) + 1] = item
          /\ \A j \in 1..Len(kp) : kp2[j] = kp[j]
      BY <1>1, <1>3, AppendProperties
    <3>2. Len(kp) \in Nat /\ DOMAIN kp = 1..Len(kp)
      BY <1>1, LenProperties
    <3> HIDE DEF kp2
    <3>3. DOMAIN kp2 = 1..Len(kp2)
      BY <3>1, LenProperties
    <3> QED BY <3>1, <3>2, <3>3
  <2> HIDE DEF kp2
  <2>4. \A j \in DOMAIN kp2 : j = Len(kp) + 1 \/ j \in DOMAIN kp
    BY <2>3
  <2>5. InOrder(kp2)
    <3> SUFFICES ASSUME NEW i \in DOMAIN kp2, NEW j \in DOMAIN kp2, i < j
                 PROVE  kp2[i].id < kp2[j].id
      BY DEF InOrder
    <3>1. i \in DOMAIN kp /\ kp2[i] = kp[i]
      BY <2>3, <2>4
    <3>2. CASE j \in DOMAIN kp
      BY <1>1, <2>3, <3>1, <3>2 DEF InOrder
    <3>3. CASE j = Len(kp) + 1
      BY <1>2, <2>3, <3>1, <3>3
    <3> QED BY <2>4, <3>2, <3>3
  <2>6. OfFirst(kp2, q, m+1)
    <3>1. m + 1 \in 1..(m+1) /\ 1..m \subseteq 1..(m+1) /\ item = q[m+1]
      BY DEF item
    <3>2. \A j \in DOMAIN kp : \E i \in 1..m : kp[j] = q[i]
      BY <1>1 DEF OfFirst
    <3>3. \A j \in DOMAIN kp2 : \E i \in 1..(m+1) : kp2[j] = q[i]
      BY <2>3, <2>4, <3>1, <3>2
    <3> QED BY <3>3 DEF OfFirst
  <2>7. TooMuch(kp2, g.k.b)
    <3>1. item.tokens > Remaining(g.k.b[item.caller])
      <4>1. Remaining(g.k.b[item.caller]) \in Nat
        BY <1>3, <1>5
      <4> QED BY <1>3, <1>8, <4>1 DEF item
    <3> QED BY <1>1, <2>3, <2>4, <3>1 DEF TooMuch
  <2>8. Ids(kp2) = Ids(kp) \cup {item.id}
    <3>1. ASSUME NEW z \in Ids(kp2) PROVE z \in Ids(kp) \cup {item.id}
      <4>1. PICK j \in DOMAIN kp2 : z = kp2[j].id
        BY DEF Ids
      <4> QED BY <2>3, <2>4, <4>1 DEF Ids
    <3>2. ASSUME NEW z \in Ids(kp) PROVE z \in Ids(kp2)
      <4>1. PICK j \in DOMAIN kp : z = kp[j].id
        BY DEF Ids
      <4>2. j \in DOMAIN kp2 /\ kp2[j] = kp[j]
        BY <2>3
      <4> QED BY <4>1, <4>2 DEF Ids
    <3>3. item.id \in Ids(kp2)
      <4>1. Len(kp) + 1 \in DOMAIN kp2
        BY <2>3
      <4> QED BY <2>3, <4>1 DEF Ids
    <3> QED BY <3>1, <3>2, <3>3
  <2>9. NotPassed(kp2, q, m+1)
    <3> SUFFICES ASSUME NEW i \in 1..(m+1), NEW j \in 1..(m+1), i < j, q[i].caller = q[j].caller,
                        q[i].tokens <= q[j].tokens, q[i].id \in Ids(kp2)
                 PROVE  q[j].id \in Ids(kp2)
      BY DEF NotPassed
    <3>1. i \in 1..m
      OBVIOUS
    <3>2. CASE j = m + 1
      BY <2>8, <3>2 DEF item
    <3>3. CASE j \in 1..m
      <4>1. q[i].id < item.id
        <5>1. i \in DOMAIN q /\ m + 1 \in DOMAIN q /\ i < m + 1
          <6>1. DOMAIN q = 1..Len(q) /\ Len(q) \in Nat
            BY LenProperties DEF Requests
          <6> QED BY <3>1, <6>1
        <5> QED BY <5>1 DEF Requests, InOrder, item
      <4>2. q[i].id \in Ids(kp)
        BY <1>2, <1>3, <2>8, <4>1
      <4> QED BY <1>1, <2>8, <3>1, <3>3, <4>2 DEF NotPassed
    <3> QED BY <1>6, <3>2, <3>3
  <2>10. Walked(k, x, q, m+1)
    BY <1>1, <2>2, <2>3, <2>5, <2>6, <2>7, <2>9 DEF Walked, kp
  <2> QED BY <2>10 DEF x, item
<1> QED BY <1>7, <1>8

(* The queue that the tick walks.                                            *)
LEMMA NotExpired ==
  ASSUME NEW q, NEW rows, NEW last, NEW cs, QueueOK(q, rows, last, cs)
  PROVE  /\ Requests(CleanupExpired(q), cs)
         /\ \A i \in DOMAIN CleanupExpired(q) : \E a \in DOMAIN q : CleanupExpired(q)[i] = q[a]
         /\ \A a \in DOMAIN q : q[a].timeout > now =>
              \E i \in DOMAIN CleanupExpired(q) : CleanupExpired(q)[i] = q[a]
<1> DEFINE K == {i \in DOMAIN q : q[i].timeout > now}
           x == CleanupExpired(q)
<1>1. x = Keep(q, K)
  BY DEF CleanupExpired
<1>2. q \in Seq(WaitItem) /\ K \in SUBSET (DOMAIN q) /\ Len(q) \in Nat /\ DOMAIN q = 1..Len(q)
  BY LenProperties DEF QueueOK
<1>3. \A a \in DOMAIN q : q[a].timeout > now => a \in K
  OBVIOUS
<1> HIDE DEF K, x
<1>4. /\ x \in Seq(WaitItem) /\ DOMAIN x = 1..Cardinality(K)
      /\ \A n \in DOMAIN x : Nth(K, n) \in K /\ x[n] = q[Nth(K, n)]
      /\ \A m, n \in DOMAIN x : m < n => Nth(K, m) < Nth(K, n)
  BY <1>1, <1>2, KeepPositions
<1>5. \A j \in K : \E n \in 1..Cardinality(K) : Nth(K, n) = j
  BY <1>2, NthAreAll
<1>6. InOrder(x)
  BY <1>2, <1>4 DEF InOrder, QueueOK
<1>7. \A i \in DOMAIN x : x[i].caller \in cs
  BY <1>2, <1>4 DEF QueueOK
<1>8. Requests(x, cs)
  BY <1>4, <1>6, <1>7 DEF Requests
<1>9. \A i \in DOMAIN x : \E a \in DOMAIN q : x[i] = q[a]
  BY <1>2, <1>4
<1>10. \A a \in DOMAIN q : q[a].timeout > now => \E i \in DOMAIN x : x[i] = q[a]
  <2> SUFFICES ASSUME NEW a \in DOMAIN q, q[a].timeout > now PROVE \E i \in DOMAIN x : x[i] = q[a]
    OBVIOUS
  <2>1. PICK n \in 1..Cardinality(K) : Nth(K, n) = a
    BY <1>3, <1>5
  <2>2. n \in DOMAIN x /\ x[n] = q[a]
    BY <1>4, <2>1
  <2> QED BY <2>2
<1> QED BY <1>8, <1>9, <1>10 DEF x

(* The walk of the whole queue.                                              *)
LEMMA WalkEnds ==
  ASSUME NEW k, KSound(k), NEW q, Requests(q, DOMAIN k.b)
  PROVE  Walked(k, TryGrantFromQueue(k, q), q, Len(q))
<1> DEFINE Books2 == [b : [DOMAIN k.b -> Binding], bRows : [DOMAIN k.b -> Binding],
                      r : {k.r}, rRows : {k.rRows}]
           V == {g \in [k : Books2, keep : Seq(WaitItem)] : UsedOnly(k, g.k)}
           D == {w \in WaitItem : w.caller \in DOMAIN k.b}
           n == Len(q)
           base == [k |-> k, keep |-> <<>>]
<1>1. n \in Nat /\ DOMAIN q = 1..n /\ q \in [1..n -> D]
  <2>1. n \in Nat /\ DOMAIN q = 1..n /\ \A i \in DOMAIN q : q[i] \in WaitItem
    BY LenProperties, ElementOfSeq DEF Requests
  <2>2. q = [i \in 1..n |-> q[i]]
    BY <2>1 DEF Requests
  <2>3. \A i \in 1..n : q[i] \in D
    BY <2>1 DEF Requests
  <2> HIDE DEF D, n
  <2> QED BY <2>1, <2>2, <2>3
<1>2. ASSUME NEW y, NEW kp \in Seq(WaitItem), UsedOnly(k, y) PROVE [k |-> y, keep |-> kp] \in V
  <2>1. /\ y.b \in [DOMAIN k.b -> Binding] /\ y.bRows \in [DOMAIN k.b -> Binding]
        /\ y.r = k.r /\ y.rRows = k.rRows
    BY <1>2 DEF UsedOnly, KSound, BooksGood, BindingsOK, RowsAgree
  <2>2. y = [b |-> y.b, bRows |-> y.bRows, r |-> y.r, rRows |-> y.rRows]
    BY <1>2 DEF UsedOnly, KSound, Books
  <2>3. y \in Books2
    BY <2>1, <2>2
  <2> HIDE DEF Books2
  <2> QED BY <1>2, <2>3
<1>3. UsedOnly(k, k)
  <2>1. \A c \in DOMAIN k.b : k.b[c] \in Binding
    BY DEF KSound, BooksGood, BindingsOK
  <2> QED BY <2>1 DEF UsedOnly, SameButUsed
<1>4. base \in V
  <2>1. <<>> \in Seq(WaitItem)
    OBVIOUS
  <2> HIDE DEF V
  <2> QED BY <1>2, <1>3, <2>1
<1>5. ASSUME NEW g \in V, NEW item \in D PROVE TryGrant(g, item) \in V
  <2> DEFINE y == WriteBinding(g.k, item.caller, [g.k.b[item.caller] EXCEPT !.used = @ + item.tokens])
             kp == Append(g.keep, item)
  <2>1. g = [k |-> g.k, keep |-> g.keep] /\ g.keep \in Seq(WaitItem) /\ UsedOnly(k, g.k)
        /\ item \in WaitItem /\ item.caller \in DOMAIN k.b
    OBVIOUS
  <2>2. KSound(g.k) /\ DOMAIN g.k.b = DOMAIN k.b
    BY <2>1 DEF UsedOnly
  <2>3. CASE Remaining(g.k.b[item.caller]) >= item.tokens
    <3>1. TryGrant(g, item) = [g EXCEPT !.k = y]
      BY <2>3 DEF TryGrant
    <3>2. UsedOnly(g.k, y)
      BY <2>1, <2>2, <2>3, GrantOne
    <3> HIDE DEF y, V
    <3>3. UsedOnly(k, y)
      BY <2>1, <3>2, UsedOnlyTwice
    <3>4. TryGrant(g, item) = [k |-> y, keep |-> g.keep]
      BY <2>1, <3>1
    <3> QED BY <1>2, <2>1, <3>3, <3>4
  <2>4. CASE ~ (Remaining(g.k.b[item.caller]) >= item.tokens)
    <3>1. TryGrant(g, item) = [g EXCEPT !.keep = kp]
      BY <2>4 DEF TryGrant
    <3>2. kp \in Seq(WaitItem)
      BY <2>1, AppendProperties
    <3> HIDE DEF kp, V
    <3>3. TryGrant(g, item) = [k |-> g.k, keep |-> kp]
      BY <2>1, <3>1
    <3> QED BY <1>2, <2>1, <3>2, <3>3
  <2> QED BY <2>3, <2>4
<1>6. PICK v \in [0..n -> V] : GrantsBy(v, n, base, q)
  <2> HIDE DEF V, D, n, base
  <2> QED BY <1>1, <1>4, <1>5, GrantFold
<1>7. TryGrantFromQueue(k, q) = v[n]
  BY <1>6 DEF GrantsBy, TryGrantFromQueue
<1> DEFINE T == {m \in Nat : m <= n => Walked(k, v[m], q, m)}
<1>8. 0 \in T
  <2>1. v[0] = base /\ base.k = k /\ base.keep = <<>>
    BY <1>6 DEF GrantsBy
  <2>2. DOMAIN <<>> = {} /\ 1..0 = {} /\ <<>> \in Seq(WaitItem)
    OBVIOUS
  <2> DEFINE none == base.keep
  <2>3. none \in Seq(WaitItem) /\ InOrder(none) /\ OfFirst(none, q, 0) /\ TooMuch(none, k.b)
        /\ NotPassed(none, q, 0)
    BY <2>2 DEF InOrder, OfFirst, TooMuch, NotPassed
  <2>4. Walked(k, base, q, 0)
    BY <1>3, <2>1, <2>3 DEF Walked
  <2> QED BY <2>1, <2>4
<1>9. ASSUME NEW m \in T PROVE m + 1 \in T
  <2> SUFFICES ASSUME m + 1 <= n PROVE Walked(k, v[m+1], q, m+1)
    OBVIOUS
  <2>1. m \in Nat /\ Walked(k, v[m], q, m) /\ m + 1 \in 1..n /\ (m + 1) - 1 = m
    BY <1>1
  <2>2. v[m+1] = TryGrant(v[m], q[m+1])
    BY <1>6, <2>1 DEF GrantsBy
  <2> HIDE DEF T, n, V
  <2>3. m + 1 \in DOMAIN q
    BY <1>1, <2>1
  <2> QED BY <2>1, <2>2, <2>3, WalkStep
<1>10. T = Nat
  <2>1. T \in SUBSET Nat
    OBVIOUS
  <2> HIDE DEF T
  <2> QED BY <1>8, <1>9, <2>1, NatSetInduction
<1>11. Walked(k, v[n], q, n)
  <2>1. n \in T
    BY <1>1, <1>10
  <2> HIDE DEF n
  <2> QED BY <1>1, <2>1
<1> QED BY <1>7, <1>11

(* What the tick leaves in the queue and in its table.                       *)
LEMMA QueueWalked ==
  ASSUME NEW q, NEW rows, NEW last, NEW cs, QueueOK(q, rows, last, cs),
         NEW k, NEW g, Walked(k, g, CleanupExpired(q), Len(CleanupExpired(q))),
         NEW kp, kp = g.keep, NEW more, more = RemoveWaitItems(rows, Ids(q) \ Ids(kp))
  PROVE  /\ QueueOK(kp, more, last, cs)
         /\ \A i, j \in DOMAIN q :
              /\ i < j /\ q[i].caller = q[j].caller /\ q[i].tokens <= q[j].tokens
              /\ q[j].timeout > now /\ q[j].id \notin Ids(kp)
              => q[i].id \notin Ids(kp)
<1> DEFINE x == CleanupExpired(q)
           m == Len(x)
<1>1. /\ q \in Seq(WaitItem) /\ rows \subseteq WaitItem
      /\ \A r \in rows : r.id \in 1..last /\ r.caller \in cs
      /\ \A r, s \in rows : r.id = s.id => r = s
      /\ \A i \in DOMAIN q : q[i] \in rows
      /\ \A i, j \in DOMAIN q : i < j => q[i].id < q[j].id
  BY DEF QueueOK
<1>2. /\ Requests(x, cs)
      /\ \A i \in DOMAIN x : \E a \in DOMAIN q : x[i] = q[a]
      /\ \A a \in DOMAIN q : q[a].timeout > now => \E i \in DOMAIN x : x[i] = q[a]
  BY NotExpired
<1>3. Walked(k, g, x, m)
  OBVIOUS
<1> HIDE DEF x
<1>4. x \in Seq(WaitItem) /\ InOrder(x) /\ m \in Nat /\ DOMAIN x = 1..m
  BY <1>2, LenProperties DEF Requests
<1> HIDE DEF m
<1>5. kp \in Seq(WaitItem) /\ InOrder(kp) /\ OfFirst(kp, x, m) /\ NotPassed(kp, x, m)
  BY <1>3 DEF Walked
<1>6. \A j \in DOMAIN kp : \E i \in DOMAIN x : kp[j] = x[i]
  BY <1>4, <1>5 DEF OfFirst
<1>7. \A j \in DOMAIN kp : kp[j] \in rows /\ kp[j].id \in Ids(kp)
  BY <1>1, <1>2, <1>6 DEF Ids
<1>8. more \subseteq rows /\ \A r \in rows : r.id \in Ids(kp) => r \in more
  BY DEF RemoveWaitItems
<1>9. QueueOK(kp, more, last, cs)
  BY <1>1, <1>5, <1>7, <1>8 DEF QueueOK, InOrder
<1>10. \A r \in rows : r.id \in Nat
  BY <1>1 DEF WaitItem
<1>11. ASSUME NEW i \in DOMAIN q, NEW j \in DOMAIN q, i < j, q[i].caller = q[j].caller,
              q[i].tokens <= q[j].tokens, q[j].timeout > now, q[i].id \in Ids(kp)
       PROVE  q[j].id \in Ids(kp)
  <2>1. PICK h \in DOMAIN kp : kp[h].id = q[i].id
    BY <1>11 DEF Ids
  <2>2. kp[h] = q[i]
    BY <1>1, <1>7, <2>1
  <2>3. PICK a \in DOMAIN x : x[a] = q[i]
    BY <1>6, <2>2
  <2>4. PICK d \in DOMAIN x : x[d] = q[j]
    BY <1>2, <1>11
  <2>5. q[i].id < q[j].id /\ q[i].id \in Nat /\ q[j].id \in Nat
    BY <1>1, <1>10, <1>11
  <2>6. ~ (d < a) /\ a # d
    BY <1>4, <2>3, <2>4, <2>5 DEF InOrder
  <2>7. a < d /\ a \in 1..m /\ d \in 1..m
    BY <1>4, <2>6
  <2> QED BY <1>5, <1>11, <2>3, <2>4, <2>7 DEF NotPassed
<1> QED BY <1>9, <1>11

LEMMA TickStep ==
  ASSUME QuotaInv, RefillTick
  PROVE  GoodStep
<1> DEFINE Walk(k, bs) == TryGrantFromQueue([k EXCEPT !.b = bs], CleanupExpired(waitQueue))
           Left(g, dirty) ==
             /\ bindings' = g.k.b
             /\ bindingRows' = IF dirty THEN g.k.b ELSE g.k.bRows
             /\ reservations' = g.k.r
             /\ reservationRows' = g.k.rRows
             /\ waitQueue' = g.keep
             /\ queueRows' = RemoveWaitItems(queueRows, Ids(waitQueue) \ Ids(g.keep))
<1>1. \E k \in ProcessReservations(BooksNow) : \E bs \in Refreshed(k.b, DOMAIN k.b) :
        \E g \in {Walk(k, bs)} : \E dirty \in BOOLEAN : Left(g, dirty)
  BY DEF RefillTick, BooksNow
<1> HIDE DEF Walk, Left
<1>2. PICK k \in ProcessReservations(BooksNow) : \E bs \in Refreshed(k.b, DOMAIN k.b) :
        \E g \in {Walk(k, bs)} : \E dirty \in BOOLEAN : Left(g, dirty)
  BY <1>1
<1>3. PICK bs \in Refreshed(k.b, DOMAIN k.b) :
        \E g \in {Walk(k, bs)} : \E dirty \in BOOLEAN : Left(g, dirty)
  BY <1>2
<1>4. PICK g \in {Walk(k, bs)}, dirty \in BOOLEAN : Left(g, dirty)
  BY <1>3
<1>5. /\ bindings' = g.k.b
      /\ bindingRows' = IF dirty THEN g.k.b ELSE g.k.bRows
      /\ reservations' = g.k.r
      /\ reservationRows' = g.k.rRows
      /\ waitQueue' = g.keep
      /\ queueRows' = RemoveWaitItems(queueRows, Ids(waitQueue) \ Ids(g.keep))
  BY <1>4 DEF Left
<1>6. /\ beat' \in BOOLEAN /\ bound' = bound /\ now' = now /\ policies' = policies
      /\ lastItem' = lastItem /\ borrowRows' = borrowRows
  BY DEF RefillTick, QuotaInv
<1>7. KSound(BooksNow) /\ BooksNow.b = bindings
  BY BooksNowSound
<1>8. KSound(k) /\ Kept(BooksNow, k)
  BY <1>7, ProcessedKeeps
<1>9. BooksGood(k.b, k.bRows) /\ DOMAIN k.b = DOMAIN bindings
  BY <1>7, <1>8 DEF KSound, Kept
<1>10. /\ BindingsOK(bs) /\ DOMAIN bs = DOMAIN k.b
       /\ \A c \in DOMAIN k.b : SameButUsed(k.b[c], bs[c])
       /\ RowsAgree(bs, k.bRows)
  BY <1>9, RefreshedKeeps, RefreshedAgrees DEF BooksGood
<1> DEFINE x == [k EXCEPT !.b = bs]
<1>11. x = Books(bs, k.bRows, k.r, k.rRows)
  BY <1>8 DEF KSound, Books
<1> HIDE DEF x
<1>12. /\ KSound(x) /\ DOMAIN x.b = DOMAIN bindings /\ x.r = k.r /\ x.rRows = k.rRows
       /\ x.b = bs
  <2>1. x.b = bs /\ x.bRows = k.bRows /\ x.r = k.r /\ x.rRows = k.rRows
    BY <1>11 DEF Books
  <2>2. BooksGood(bs, k.bRows)
    <3>1. BindingsOK(bs) /\ BindingsOK(k.bRows) /\ RowsAgree(bs, k.bRows)
      BY <1>9, <1>10 DEF BooksGood
    <3> QED BY <3>1 DEF BooksGood
  <2> QED BY <1>8, <1>9, <1>10, <1>11, <2>1, <2>2 DEF KSound
<1> DEFINE q == CleanupExpired(waitQueue)
<1>13. QueueOK(waitQueue, queueRows, lastItem, DOMAIN bindings)
  BY DEF QuotaInv
<1>14. Requests(q, DOMAIN x.b)
  BY <1>12, <1>13, NotExpired
<1>15. g = TryGrantFromQueue(x, q)
  BY DEF x, Walk
<1>16. Walked(x, g, q, Len(q))
  <2> HIDE DEF q
  <2> QED BY <1>12, <1>14, <1>15, WalkEnds
<1>17. /\ KSound(g.k) /\ DOMAIN g.k.b = DOMAIN bindings /\ g.k.r = k.r /\ g.k.rRows = k.rRows
       /\ \A c \in DOMAIN bindings : SameButUsed(bs[c], g.k.b[c])
  BY <1>12, <1>16 DEF Walked, UsedOnly
<1>18. \A c \in DOMAIN bindings : Net(g.k.b[c]) = Net(k.b[c]) /\ g.k.b[c].reserved = k.b[c].reserved
  BY <1>9, <1>10, <1>17 DEF SameButUsed, Agreed, Net
<1>19. BooksGood(bindings', bindingRows')
  <2>1. BooksGood(g.k.b, g.k.bRows)
    BY <1>17 DEF KSound
  <2>2. BooksGood(g.k.b, g.k.b)
    <3>1. \A c \in DOMAIN g.k.b : Net(g.k.b[c]) \in Int
      BY <2>1, NetIsInt DEF BooksGood, BindingsOK, BindingMap
    <3> QED BY <2>1, <3>1 DEF BooksGood, RowsAgree
  <2> QED BY <1>5, <2>1, <2>2
<1>20. /\ ReservationsOK(reservations', reservationRows', now')
       /\ Len(reservationRows') <= bound.reservations
       /\ NotOverbooked(reservations', bound.time)
       /\ StaysCovered /\ Moved
  <2>1. reservations' = k.r /\ reservationRows' = k.rRows /\ DOMAIN bindings' = DOMAIN bindings
    BY <1>5, <1>17
  <2>2. \A c \in DOMAIN bindings :
          Net(bindings'[c]) = Net(k.b[c]) /\ bindings'[c].reserved = k.b[c].reserved
    BY <1>5, <1>18
  <2> QED BY <1>6, <1>8, <1>19, <2>1, <2>2, TickBooks
<1>21. /\ QueueOK(waitQueue', queueRows', lastItem', DOMAIN bindings')
       /\ FairStep
  <2> DEFINE kp == waitQueue'
             more == queueRows'
  <2>1. kp = g.keep /\ more = RemoveWaitItems(queueRows, Ids(waitQueue) \ Ids(kp))
    BY <1>5
  <2>2. lastItem' = lastItem /\ DOMAIN bindings' = DOMAIN bindings
    BY <1>5, <1>6, <1>17
  <2> HIDE DEF kp, more
  <2>3. /\ QueueOK(kp, more, lastItem, DOMAIN bindings)
        /\ \A i, j \in DOMAIN waitQueue :
             /\ i < j /\ waitQueue[i].caller = waitQueue[j].caller
             /\ waitQueue[i].tokens <= waitQueue[j].tokens
             /\ waitQueue[j].timeout > now /\ waitQueue[j].id \notin Ids(kp)
             => waitQueue[i].id \notin Ids(kp)
    BY <1>13, <1>16, <2>1, QueueWalked
  <2>4. QueueOK(waitQueue', queueRows', lastItem', DOMAIN bindings')
    BY <2>2, <2>3 DEF kp, more
  <2>5. FairStep
    BY <1>6, <2>3 DEF FairStep, kp
  <2> QED BY <2>4, <2>5
<1>22. now' \in 0..bound'.time /\ bound' \in Bounds /\ policies' \subseteq Policies
       /\ borrowRows' \in Seq(BorrowRecord) /\ lastItem' \in 0..bound'.items
  BY <1>6 DEF QuotaInv
<1> QED BY <1>6, <1>19, <1>20, <1>21, <1>22 DEF GoodStep, QuotaInv, BooksGood

(********************************* a restart ********************************)

(* What a start reads of the queue: every request that still has time.       *)
LEMMA QueueLoaded ==
  ASSUME NEW q, NEW rows, NEW last \in Nat, NEW cs, QueueOK(q, rows, last, cs),
         NEW x, x = LoadWaitQueue(rows)
  PROVE  /\ QueueOK(x, rows, last, cs)
         /\ \A r \in rows : r.timeout > now => r.id \in Ids(x)
<1> DEFINE late == {r \in rows : r.timeout > now}
           ids == {r.id : r \in late}
           n == Cardinality(ids)
<1>1. /\ rows \subseteq WaitItem
      /\ \A r \in rows : r.id \in 1..last
      /\ \A r, s \in rows : r.id = s.id => r = s
  BY DEF QueueOK
<1>2. ids \in SUBSET (1..last)
  BY <1>1
<1>3. x = [m \in 1..n |-> CHOOSE r \in late : r.id = Nth(ids, m)]
  BY DEF LoadWaitQueue
<1>4. late \subseteq rows /\ \A r \in rows : r.timeout > now => r \in late
  OBVIOUS
<1>5. (\A r \in late : r.id \in ids) /\ \A i \in ids : \E r \in late : r.id = i
  OBVIOUS
<1> HIDE DEF late, ids
<1>6. /\ n \in Nat
      /\ \A m \in 1..n : Nth(ids, m) \in ids
      /\ \A l, m \in 1..n : l < m => Nth(ids, l) < Nth(ids, m)
      /\ \A j \in ids : \E m \in 1..n : Nth(ids, m) = j
  BY <1>2, NthAreAll
<1> HIDE DEF n
<1>7. ASSUME NEW m \in 1..n PROVE x[m] \in late /\ x[m].id = Nth(ids, m)
  <2>1. \E r \in late : r.id = Nth(ids, m)
    BY <1>5, <1>6
  <2>2. x[m] = CHOOSE r \in late : r.id = Nth(ids, m)
    BY <1>3
  <2> QED BY <2>1, <2>2
<1>8. x \in Seq(WaitItem) /\ DOMAIN x = 1..n
  <2>1. x \in [1..n -> WaitItem]
    BY <1>1, <1>3, <1>4, <1>7
  <2> QED BY <1>6, <2>1
<1>9. \A i \in DOMAIN x : x[i] \in rows
  BY <1>4, <1>7, <1>8
<1>10. \A i, j \in DOMAIN x : i < j => x[i].id < x[j].id
  BY <1>6, <1>7, <1>8
<1>11. QueueOK(x, rows, last, cs)
  BY <1>8, <1>9, <1>10 DEF QueueOK
<1>12. ASSUME NEW r \in rows, r.timeout > now PROVE r.id \in Ids(x)
  <2>1. PICK m \in 1..n : Nth(ids, m) = r.id
    BY <1>4, <1>5, <1>6, <1>12
  <2>2. m \in DOMAIN x /\ x[m].id = r.id
    BY <1>7, <1>8, <2>1
  <2> QED BY <2>2 DEF Ids
<1> QED BY <1>11, <1>12

(* What a start reads of the reservations: nothing that was over lives again.*)
LEMMA ReservationsLoaded ==
  ASSUME NEW rs, NEW rows, ReservationsOK(rs, rows, now), now \in Nat,
         NEW x, x = LoadReservations(rows)
  PROVE  /\ ReservationsOK(x, rows, now)
         /\ \A i \in DOMAIN x : x[i].status \in Live => i \in DOMAIN rs /\ x[i] = rs[i]
<1>1. /\ rows \in Seq(Reservation) /\ DOMAIN rs \subseteq DOMAIN rows
      /\ \A i \in DOMAIN rs : rs[i] = rows[i] \/ EndedUnseen(rs[i], rows[i], now)
      /\ \A i \in DOMAIN rows \ DOMAIN rs : rows[i].status \notin Live
  BY DEF ReservationsOK
<1>2. \A i \in DOMAIN rows : rows[i] \in Reservation /\ rows[i].end \in Nat
  <2>1. \A i \in DOMAIN rows : rows[i] \in Reservation
    BY <1>1, ElementOfSeq
  <2> QED BY <2>1 DEF Reservation
<1>3. /\ DOMAIN x = {i \in DOMAIN rows : rows[i].status \in Live}
      /\ \A i \in DOMAIN x :
           x[i] = IF rows[i].status = "active" /\ rows[i].end < now
                  THEN [rows[i] EXCEPT !.status = "completed"] ELSE rows[i]
      /\ x = [i \in DOMAIN x |-> x[i]]
  BY DEF LoadReservations
<1>4. ASSUME NEW i \in DOMAIN x
      PROVE  /\ x[i] \in Reservation
             /\ x[i] = rows[i] \/ EndedUnseen(x[i], rows[i], now)
             /\ x[i].status \in Live => i \in DOMAIN rs /\ x[i] = rs[i]
  <2>1. i \in DOMAIN rows /\ rows[i].status \in Live /\ rows[i] \in Reservation /\ i \in DOMAIN rs
    BY <1>1, <1>2, <1>3
  <2>2. CASE rows[i].status = "active" /\ rows[i].end < now
    <3>1. x[i] = [rows[i] EXCEPT !.status = "completed"]
      BY <1>3, <2>2
    <3>2. x[i] \in Reservation /\ x[i].status = "completed"
      BY <2>1, <3>1 DEF Reservation, ReservationStatuses
    <3> QED BY <2>2, <3>1, <3>2 DEF EndedUnseen, Live
  <2>3. CASE ~ (rows[i].status = "active" /\ rows[i].end < now)
    <3>1. x[i] = rows[i]
      BY <1>3, <2>3
    <3>2. rs[i] = rows[i]
      BY <1>1, <2>1, <2>3 DEF EndedUnseen
    <3> QED BY <2>1, <3>1, <3>2
  <2> QED BY <2>2, <2>3
<1>5. \A i \in DOMAIN rows \ DOMAIN x : rows[i].status \notin Live
  BY <1>3
<1>6. x \in [DOMAIN x -> Reservation] /\ DOMAIN x \subseteq DOMAIN rows
  BY <1>3, <1>4
<1>7. ReservationsOK(x, rows, now)
  BY <1>1, <1>4, <1>5, <1>6 DEF ReservationsOK
<1> QED BY <1>4, <1>7

LEMMA LimiterRestarts ==
  ASSUME QuotaInv, NEW stopped \in BOOLEAN, RestartLimiter(stopped)
  PROVE  GoodStep
<1> DEFINE rows == IF stopped THEN bindings ELSE bindingRows
           bs == bindings'
           rs == reservations'
           q == waitQueue'
<1>1. /\ bs \in Refreshed(rows, DOMAIN rows) /\ bindingRows' = rows
      /\ q = LoadWaitQueue(queueRows) /\ rs = LoadReservations(reservationRows)
      /\ bound' = bound /\ beat' = beat /\ now' = now /\ policies' = policies
      /\ queueRows' = queueRows /\ lastItem' = lastItem
      /\ reservationRows' = reservationRows /\ borrowRows' = borrowRows
  BY DEF RestartLimiter, LoadBindings
<1> HIDE DEF bs, rs, q
<1>2. /\ now \in Nat /\ bound.time \in Nat /\ bound.items \in Nat
      /\ BooksGood(bindings, bindingRows) /\ BindingMap(bindings) /\ BindingMap(bindingRows)
  BY InvFacts
<1>3. /\ BindingsOK(rows) /\ DOMAIN rows = DOMAIN bindings
      /\ \A c \in DOMAIN bindings :
           rows[c].reserved = bindings[c].reserved /\ Net(rows[c]) <= Net(bindings[c])
  <2>1. \A c \in DOMAIN bindings : Net(bindings[c]) \in Int
    BY <1>2, NetIsInt
  <2> QED BY <1>2, <2>1 DEF BooksGood, RowsAgree
<1>20. stopped => rows = bindings
  OBVIOUS
<1> HIDE DEF rows
<1>4. RowsAgree(rows, rows)
  <2>1. \A c \in DOMAIN rows : Net(rows[c]) \in Int
    BY <1>3, NetIsInt DEF BindingsOK, BindingMap
  <2> QED BY <2>1 DEF RowsAgree
<1>5. /\ BindingsOK(bs) /\ DOMAIN bs = DOMAIN bindings
      /\ \A c \in DOMAIN bindings : SameButUsed(rows[c], bs[c])
      /\ RowsAgree(bs, rows)
  BY <1>1, <1>3, <1>4, RefreshedKeeps, RefreshedAgrees
<1>6. /\ BooksGood(bindings', bindingRows') /\ DOMAIN bindings' = DOMAIN bindings
  BY <1>1, <1>3, <1>5 DEF BooksGood, bs
<1>7. /\ \A c \in DOMAIN bindings : Net(bs[c]) = Net(rows[c])
      /\ \A c \in DOMAIN bindings : bs[c].reserved = bindings[c].reserved
  BY <1>3, <1>5 DEF SameButUsed, Agreed, Net
<1>8. Moved
  <2>1. NetBorrowed(bs) = NetBorrowed(rows) /\ BindingMap(rows)
    <3>1. BindingMap(rows)
      BY <1>3 DEF BindingsOK, BindingMap
    <3> QED BY <1>3, <1>5, <1>7, <3>1, NetSame
  <2>2. /\ NetBorrowed(rows) <= NetBorrowed(bindings)
        /\ NetBorrowed(rows) \in Int /\ NetBorrowed(bindings) \in Int
    BY <1>2, <1>3, <2>1, NetLess
  <2>3. CASE stopped
    BY <1>20, <2>1, <2>3 DEF Moved, bs
  <2>4. CASE ~stopped
    <3>1. RestartLimiter(FALSE)
      <4>1. stopped = FALSE
        BY <2>4
      <4> QED BY <4>1
    <3>2. NetBorrowed(bs) = NetBorrowed(bindings) \/ NetBorrowed(bs) < NetBorrowed(bindings)
      BY <2>1, <2>2
    <3> QED BY <3>1, <3>2 DEF Moved, bs
  <2> QED BY <2>3, <2>4
<1>9. ReservationsOK(reservations, reservationRows, now)
  BY DEF QuotaInv
<1>10. /\ ReservationsOK(rs, reservationRows, now)
       /\ \A i \in DOMAIN rs : rs[i].status \in Live => i \in DOMAIN reservations /\ rs[i] = reservations[i]
  BY <1>1, <1>2, <1>9, ReservationsLoaded
<1>11. ReservationMap(reservations) /\ ReservationMap(rs)
  BY <1>9, <1>10, ReservationsAreMap
<1>12. NotOverbooked(rs, bound.time)
  <2>1. \A i \in DOMAIN rs : rs[i].status \in Live =>
            /\ i \in DOMAIN reservations /\ reservations[i].status \in Live
            /\ \A part \in {"policy", "tokens", "start", "end"} : rs[i][part] = reservations[i][part]
    BY <1>10
  <2>2. NotOverbooked(reservations, bound.time)
    BY DEF QuotaInv
  <2> QED BY <1>2, <1>11, <2>1, <2>2, StaysWithin
<1>13. StaysCovered
  <2> SUFFICES ASSUME NEW c \in DOMAIN bindings, bindings[c].reserved >= ActiveIn(reservations, c)
               PROVE  bs[c].reserved >= ActiveIn(rs, c)
    BY <1>5, CoveredIs DEF StaysCovered, BoundCallers, bs, rs
  <2>1. \A i \in DOMAIN rs : rs[i].status = "active" =>
            /\ i \in DOMAIN reservations /\ reservations[i].status = "active"
            /\ \A part \in {"caller", "tokens"} : rs[i][part] = reservations[i][part]
    BY <1>10 DEF Live
  <2>2. ActiveIn(rs, c) <= ActiveIn(reservations, c)
    BY <1>11, <2>1, LessActive
  <2>3. ActiveIn(rs, c) \in Nat /\ ActiveIn(reservations, c) \in Nat
    BY <1>11, ActiveIsNat
  <2>4. bs[c].reserved = bindings[c].reserved /\ bindings[c].reserved \in Nat
    BY <1>2, <1>7 DEF BindingMap, Binding
  <2> QED BY <2>2, <2>3, <2>4
<1>14. QueueOK(waitQueue, queueRows, lastItem, DOMAIN bindings) /\ lastItem \in Nat
  BY <1>2 DEF QuotaInv
<1>15. /\ QueueOK(q, queueRows, lastItem, DOMAIN bindings)
       /\ \A r \in queueRows : r.timeout > now => r.id \in Ids(q)
  BY <1>1, <1>14, QueueLoaded
<1>16. FairStep
  <2>1. \A j \in DOMAIN waitQueue : waitQueue[j] \in queueRows
    BY <1>14 DEF QueueOK
  <2>2. \A j \in DOMAIN waitQueue : waitQueue[j].timeout > now' => waitQueue[j].id \in Ids(waitQueue')
    BY <1>1, <1>15, <2>1 DEF q
  <2> QED BY <2>2 DEF FairStep
<1>17. QueueOK(waitQueue', queueRows', lastItem', DOMAIN bindings')
  BY <1>1, <1>6, <1>15 DEF q
<1>18. ReservationsOK(reservations', reservationRows', now') /\ NotOverbooked(reservations', bound.time)
       /\ Len(reservationRows') <= bound.reservations
  BY <1>1, <1>10, <1>12 DEF rs, QuotaInv
<1>19. /\ bound' \in Bounds /\ beat' \in BOOLEAN /\ now' \in 0..bound'.time
       /\ policies' \subseteq Policies /\ lastItem' \in 0..bound'.items
       /\ borrowRows' \in Seq(BorrowRecord)
  BY <1>1 DEF QuotaInv
<1> QED BY <1>1, <1>6, <1>8, <1>13, <1>16, <1>17, <1>18, <1>19 DEF GoodStep, QuotaInv, BooksGood

(******************************* the theorems *******************************)

LEMMA QuotaStarts == ASSUME QuotaInit PROVE QuotaInv
<1>1. bound \in BoundSet /\ bound.time \in Nat /\ bound.items \in Nat /\ bound.reservations \in Nat
  BY RateLimitAssumption DEF QuotaInit, BoundSet
<1>2. /\ bound \in Bounds /\ beat \in BOOLEAN /\ now = 0 /\ policies = {} /\ lastItem = 0
      /\ bindings = <<>> /\ bindingRows = <<>> /\ reservations = <<>> /\ reservationRows = <<>>
      /\ waitQueue = <<>> /\ queueRows = {} /\ borrowRows = <<>>
  BY DEF QuotaInit, EmptyTables
<1>3. /\ DOMAIN <<>> = {} /\ <<>> \in Seq(Reservation) /\ <<>> \in Seq(WaitItem)
      /\ <<>> \in Seq(BorrowRecord) /\ Len(<<>>) = 0
  OBVIOUS
<1>4. BindingsOK(<<>>) /\ RowsAgree(<<>>, <<>>)
  <2>1. <<>> \in [{} -> Binding] /\ IsFiniteSet({})
    BY FS_EmptySet
  <2> QED BY <1>3, <2>1 DEF BindingsOK, RowsAgree
<1> DEFINE none == reservations
<1>5. DOMAIN none = {} /\ none \in [DOMAIN none -> Reservation]
  <2>1. <<>> \in [{} -> Reservation]
    OBVIOUS
  <2> QED BY <1>2, <1>3, <2>1
<1>6. ReservationsOK(none, reservationRows, now)
  BY <1>2, <1>3, <1>5 DEF ReservationsOK
<1>7. NotOverbooked(none, bound.time)
  <2>1. ReservationMap(none)
    BY <1>5, FS_EmptySet DEF ReservationMap
  <2> SUFFICES ASSUME NEW p \in Policies, NEW t \in 0..bound.time
               PROVE  ReservedAt(t, Restrict(none, OfPolicy(p, none))) <= MaxTokens[p]
    BY DEF NotOverbooked
  <2>2. OfPolicy(p, none) = {} /\ At(none, {}, t) = {}
    BY <1>5 DEF OfPolicy, At
  <2>3. ReservedAt(t, Restrict(none, OfPolicy(p, none))) = TokensOf(none, {})
    BY <2>1, <2>2, ReservedIs
  <2>4. TokensOf(none, {}) = 0
    <3> DEFINE f == [i \in DOMAIN none |-> none[i].tokens]
    <3>1. TokensOf(none, {}) = SumFunctionOnSet(f, {})
      BY DEF TokensOf
    <3> HIDE DEF f
    <3> QED BY <3>1, SumOfNothing, FS_EmptySet
  <2> QED BY <2>3, <2>4, RateLimitAssumption
<1>8. QueueOK(waitQueue, queueRows, lastItem, DOMAIN bindings)
  BY <1>2, <1>3 DEF QueueOK
<1> QED BY <1>1, <1>2, <1>3, <1>4, <1>6, <1>7, <1>8 DEF QuotaInv

LEMMA QuotaNextStep ==
  ASSUME QuotaInv, QuotaNext
  PROVE  GoodStep
<1> USE DEF BoundCallers
<1>1. CASE PostPolicy
  BY <1>1, PolicyStep DEF PostPolicy
<1>2. CASE PostCaller
  <2>1. PICK c \in bound.callers, p \in Policies, n \in bound.amounts : BindCaller(c, p, n)
    BY <1>2 DEF PostCaller
  <2>2. c \in Callers
    BY InvFacts
  <2> QED BY <2>1, <2>2, BindStep
<1>3. CASE PostTokens
  BY <1>3, RequestStep DEF PostTokens
<1>4. CASE GiveTokensBack
  BY <1>4, ReturnTokensStep DEF GiveTokensBack
<1>5. CASE PutQuota
  <2>1. PICK c \in DOMAIN bindings, n \in bound.amounts \cup {0} : AdjustQuota(c, n)
    BY <1>5 DEF PutQuota
  <2>2. n \in Nat
    BY InvFacts
  <2> QED BY <2>1, <2>2, AdjustStep
<1>6. CASE PostBorrow
  BY <1>6, BorrowStep DEF PostBorrow
<1>7. CASE PostReturn
  BY <1>7, GiveBackStep DEF PostReturn
<1>8. CASE PostReservation
  BY <1>8, ReserveStep DEF PostReservation
<1>9. CASE DeleteReservation
  BY <1>9, CancelStep DEF DeleteReservation
<1>10. CASE GetCaller \/ ListCallers
  BY <1>10, LookAtStep DEF GetCaller, ListCallers
<1>11. CASE RefillTick
  BY <1>11, TickStep
<1>12. CASE \E stopped \in BOOLEAN : RestartLimiter(stopped)
  BY <1>12, LimiterRestarts
<1>13. CASE TimePasses
  BY <1>13, TimeStep
<1> QED BY <1>1, <1>2, <1>3, <1>4, <1>5, <1>6, <1>7, <1>8, <1>9, <1>10, <1>11, <1>12, <1>13
        DEF QuotaNext

(* Nobody has used more than its limit, memory and tables differ only in     *)
(* what they may, no policy is overbooked, and every waiting request has its *)
(* row and a binding: whatever the callers do and wherever it restarts.      *)
THEOREM QuotaInvariant == QuotaSpec => []QuotaInv
<1>1. QuotaInit => QuotaInv
  BY QuotaStarts
<1>2. QuotaInv /\ [QuotaNext]_quotaVars => QuotaInv'
  <2>1. QuotaInv /\ QuotaNext => QuotaInv'
    BY QuotaNextStep DEF GoodStep
  <2>2. QuotaInv /\ UNCHANGED quotaVars => QuotaInv'
    BY DEF QuotaInv, quotaVars
  <2> QED BY <2>1, <2>2
<1> QED BY <1>1, <1>2, PTL DEF QuotaSpec

(* What the run checks: types, no use beyond a limit in memory or in the     *)
(* table, no overbooked policy, no row that promises quota memory has taken  *)
(* back, and a queue that is in its table.                                   *)
THEOREM QuotaSound == QuotaSpec => []QuotaIsSound
<1>1. QuotaInv => QuotaIsSound
  <2> SUFFICES ASSUME QuotaInv PROVE QuotaIsSound
    OBVIOUS
  <2>1. bound.time \in Nat /\ bound.reservations \in Nat /\ now \in Nat
    BY InvFacts
  <2>2. BindingsOK(bindings) /\ BindingsOK(bindingRows)
    BY DEF QuotaInv
  <2>3. ReservationsOK(reservations, reservationRows, now)
        /\ QueueOK(waitQueue, queueRows, lastItem, DOMAIN bindings)
    BY DEF QuotaInv
  <2>4. IsPartial(bindings, Callers, Binding) /\ IsPartial(bindingRows, Callers, Binding)
    BY <2>2 DEF IsPartial, BindingsOK
  <2>5. IsPartial(reservations, 1..bound.reservations, Reservation)
    <3>1. /\ DOMAIN reservations \subseteq 1..Len(reservationRows) /\ Len(reservationRows) \in Nat
          /\ ReservationMap(reservations)
      BY <2>3, ReservationsAreMap
    <3>2. Len(reservationRows) <= bound.reservations
      BY DEF QuotaInv
    <3>3. DOMAIN reservations \subseteq 1..bound.reservations
      BY <2>1, <3>1, <3>2
    <3>4. \A i \in DOMAIN reservations : reservations[i] \in Reservation
      BY <3>1 DEF ReservationMap
    <3> QED BY <3>3, <3>4 DEF IsPartial
  <2>6. QuotaTypes
    BY <2>3, <2>4, <2>5 DEF QuotaTypes, QuotaInv, ReservationsOK, QueueOK
  <2>7. UsedWithinLimit
    BY <2>2 DEF UsedWithinLimit, BindingsOK
  <2>8. NoOverbooking
    <3>1. now..bound.time \subseteq 0..bound.time
      BY <2>1
    <3> QED BY <3>1 DEF NoOverbooking, NotOverbooked, QuotaInv
  <2>9. QueueIsInTable
    <3>1. Range(waitQueue) \subseteq queueRows
      BY <2>3 DEF QueueOK, Range
    <3> QED BY <2>3, <3>1 DEF QueueIsInTable, QueueOK
  <2>10. RowsPromiseNoMore
    BY DEF QuotaInv, RowsAgree, RowsPromiseNoMore
  <2> QED BY <2>6, <2>7, <2>8, <2>9, <2>10 DEF QuotaIsSound
<1> QED BY <1>1, QuotaInvariant, PTL

(* The tokens that a caller's active reservations promise stay in its        *)
(* binding through completions, cancellations and restarts.                  *)
THEOREM PromisesCovered == QuotaSpec => ReservationsStayCovered
<1>1. QuotaInv /\ [QuotaNext]_quotaVars =>
        [\A c \in BoundCallers : Covered(c) => Rebound(c) \/ Covered(c)']_quotaVars
  BY QuotaNextStep DEF GoodStep, StaysCovered
<1> QED BY <1>1, QuotaInvariant, PTL DEF QuotaSpec, ReservationsStayCovered

(* What all callers borrowed less what they lent changes only when a caller  *)
(* is bound anew or, for the less, with a crash: errors between the writes   *)
(* of a loan make no quota.                                                  *)
THEOREM BorrowedIsLent == QuotaSpec => QuotaIsMoved
<1>1. QuotaInv /\ [QuotaNext]_quotaVars =>
        [\/ \E c \in Callers : Rebound(c)
         \/ NetBorrowed(bindings') = NetBorrowed(bindings)
         \/ RestartLimiter(FALSE) /\ NetBorrowed(bindings') < NetBorrowed(bindings)]_quotaVars
  BY QuotaNextStep DEF GoodStep, Moved
<1> QED BY <1>1, QuotaInvariant, PTL DEF QuotaSpec, QuotaIsMoved

(* No step takes a request off the queue in time while an earlier one of its *)
(* caller that asks for no more is left waiting.                             *)
THEOREM QueueInTurn == QuotaSpec => QueueIsFair
<1>1. QuotaInv /\ [QuotaNext]_quotaVars =>
        [\A i, j \in DOMAIN waitQueue :
           /\ i < j
           /\ waitQueue[i].caller = waitQueue[j].caller
           /\ waitQueue[i].tokens <= waitQueue[j].tokens
           /\ waitQueue[j].timeout > now'
           /\ waitQueue[j].id \notin Ids(waitQueue')
           => waitQueue[i].id \notin Ids(waitQueue')]_quotaVars
  BY QuotaNextStep DEF GoodStep, FairStep
<1> QED BY <1>1, QuotaInvariant, PTL DEF QuotaSpec, QueueIsFair
=============================================================================
