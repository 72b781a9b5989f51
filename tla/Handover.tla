------------------------------- MODULE Handover -------------------------------
(***************************************************************************)
(* Handovers (internal/handover): one caller gives locks, quota,           *)
(* transactions and reservations to another.  A handover is created,       *)
(* checked, perhaps confirmed by the receiver, and executed one resource   *)
(* after the other, one statement after the other; when a resource is no   *)
(* longer the giver's, what was moved is moved back.                       *)
(*                                                                         *)
(* The manager's mutex keeps handovers apart, but not from the lock        *)
(* manager and the rate limiter, which write the same rows meanwhile.      *)
(***************************************************************************)
EXTENDS Rows, SequencesExt

CONSTANTS
  Parties, NoParty,      \* the callers; the holder of a free lock
  Locks, Txs, Reservations,
  Roots, Subtree,        \* topology nodes; the locks below each
  Policies,
  Firsts,                \* what the tables of the other parts may begin with
  HandoverBounds         \* the bounds a behaviour may keep to

Types == {"lock", "quota", "orch_tx", "topology_subtree", "reservation"}
HandoverStatuses == {"created", "prechecked", "pending_receive", "completed", "cancelled", "rejected"}
Final == {"completed", "cancelled", "rejected"}
Checks == {"ok", "conflict", "blocked", "not_found"}
Keys == Locks \cup Parties \cup Txs \cup Roots \cup Reservations

\* One resource of a handover.
Item == [type : Types, key : Keys, check : Checks, executed : BOOLEAN]

HandoverRequest == [from : Parties, to : Parties, confirm : BOOLEAN, wait : Nat, locks : Seq(Locks),
            quotas : Seq(Parties), txs : Seq(Txs), roots : Seq(Roots),
            reservations : Seq(Reservations)]

HolderRows == [holder : Parties \cup {NoParty}, lease : Parties \cup {NoParty}]
BindingRow == [policy : Policies, used : Nat, borrowed : Nat]
TxRow == [holder : Parties, locks : Parties, committed : BOOLEAN]
ReservationRow == [caller : Parties, live : BOOLEAN]

\* What a behaviour keeps to: the handovers ever created and what they ask
\* for, the crashes, how often other parts change something.
HandoverLimits == [requests : SUBSET HandoverRequest, handovers : Nat, crashes : Nat, events : Nat]

ASSUME HandoverAssumption ==
  /\ NoParty \notin Parties
  /\ Subtree \in [Roots -> Seq(Locks)]
  /\ \A b \in HandoverBounds : b \in HandoverLimits /\ \A r \in b.requests : r.from /= r.to
  /\ \A f \in Firsts :
       /\ f.locks \in [Locks -> HolderRows]
       /\ DOMAIN f.bindings \subseteq Parties /\ IsFiniteSet(DOMAIN f.bindings)
       /\ f.bindings \in [DOMAIN f.bindings -> BindingRow]
       /\ f.txs \in [Txs -> TxRow]
       /\ f.reservations \in [Reservations -> ReservationRow]

VARIABLES
  limits,        \* the bounds of this behaviour
  swept,         \* changes with every sweep
  handovers,     \* the handovers with their resources, by id
  run,           \* the check or execution under way, which holds the mutex
  locks,         \* lock -> the holder in its row and in its active lease
  bindings,      \* caller -> its quota row
  txs,           \* transaction -> its row, and the holder in its lock rows
  reservations,  \* reservation -> its row
  refused,       \* who is restricted, or has an open breaker, for what
  stops, events  \* crashes, and changes by other parts, so far

others == <<refused, limits>>
tables == <<locks, bindings, txs, reservations>>
handoverVars == <<limits, swept, handovers, run, locks, bindings, txs, reservations, refused,
                  stops, events>>

HandoverSet == [from : Parties, to : Parties, status : HandoverStatuses, confirm : BOOLEAN,
                left : Nat, items : Seq(Item)]

\* Nothing under way.  An execution remembers what it has moved; where things
\* were when it began, and if another part has changed any of them since, is
\* kept for the properties only.
NoRun == [mode |-> "none", id |-> 0, pos |-> 1, part |-> 1, applied |-> <<>>,
          before |-> <<>>, disturbed |-> FALSE]

Here == [locks |-> locks, txs |-> txs, reservations |-> reservations, bindings |-> bindings]

H == handovers[run.id]
It == H.items[run.pos]

ItemOf(type, key) == [type |-> type, key |-> key, check |-> "ok", executed |-> FALSE]
ItemsOf(type, keys) == [i \in DOMAIN keys |-> ItemOf(type, keys[i])]

-----------------------------------------------------------------------------
\* The locks below the roots that the giver holds now.
ExpandTopologySubtrees(roots, holder) ==
  LET below == FlattenSeq([i \in DOMAIN roots |-> Subtree[roots[i]]])
  IN Keep(below, {i \in DOMAIN below : locks[below[i]].holder = holder})

\* Every element once, where it comes first.
Unique(s) == Keep(s, {i \in DOMAIN s : \A j \in 1..(i - 1) : s[j] /= s[i]})

\* The resource rows of a request, in the order they are inserted.
AllItems(r) ==
  ItemsOf("lock", Unique(r.locks \o ExpandTopologySubtrees(r.roots, r.from)))
    \o ItemsOf("quota", r.quotas) \o ItemsOf("orch_tx", r.txs)
    \o ItemsOf("topology_subtree", r.roots) \o ItemsOf("reservation", r.reservations)

Created(r, items) ==
  [from |-> r.from, to |-> r.to, status |-> "created", confirm |-> r.confirm,
   left |-> r.wait, items |-> items]

CreateHandover(r) ==
  /\ run = NoRun
  /\ Len(handovers) < limits.handovers
  /\ handovers' = Append(handovers, Created(r, AllItems(r)))
  /\ UNCHANGED <<others, tables, swept, run, stops, events>>

UpdateHandoverStatus(hs, id, s) == [hs EXCEPT ![id].status = s]

\* Takes the mutex for a check or an execution of several statements.
BeginRun(mode, id) ==
  run' = [NoRun EXCEPT !.mode = mode, !.id = id, !.before = IF mode = "execute" THEN Here ELSE <<>>]

PreCheck(id) ==
  /\ run = NoRun
  /\ handovers[id].status \in {"created", "prechecked"}
  /\ BeginRun("check", id)
  /\ UNCHANGED <<others, tables, swept, handovers, stops, events>>

PreCheckLock(h, l) ==
  IF locks[l].holder = NoParty THEN "not_found"
  ELSE IF locks[l].holder /= h.from THEN "conflict"
  ELSE IF <<h.to, "lock">> \in refused THEN "blocked" ELSE "ok"

PreCheckQuota(h, c) ==
  IF c \notin DOMAIN bindings THEN "not_found"
  ELSE IF c /= h.from \/ (h.to \in DOMAIN bindings /\ bindings[h.to].policy /= bindings[c].policy)
       THEN "conflict"
  ELSE IF <<h.to, "quota">> \in refused \/ bindings[c].borrowed > 0 THEN "blocked" ELSE "ok"

PreCheckOrchTx(h, t) ==
  IF ~txs[t].committed THEN "blocked"
  ELSE IF txs[t].holder /= h.from THEN "conflict"
  ELSE IF <<h.to, "orch_tx">> \in refused THEN "blocked" ELSE "ok"

PreCheckTopology(h, root) ==
  IF \E l \in Range(Subtree[root]) : locks[l].holder /= h.from THEN "blocked" ELSE "ok"

PreCheckReservation(h, r) ==
  IF reservations[r].caller /= h.from THEN "conflict"
  ELSE IF ~reservations[r].live THEN "blocked" ELSE "ok"

PreCheckResource(h, item) ==
  CASE item.type = "lock" -> PreCheckLock(h, item.key)
    [] item.type = "quota" -> PreCheckQuota(h, item.key)
    [] item.type = "orch_tx" -> PreCheckOrchTx(h, item.key)
    [] item.type = "topology_subtree" -> PreCheckTopology(h, item.key)
    [] OTHER -> PreCheckReservation(h, item.key)

CheckNext ==
  /\ run.mode = "check" /\ run.pos <= Len(H.items)
  /\ handovers' = [handovers EXCEPT ![run.id].items[run.pos].check = PreCheckResource(H, It)]
  /\ run' = [run EXCEPT !.pos = @ + 1]
  /\ UNCHANGED <<others, tables, swept, stops, events>>

CheckDone ==
  /\ run.mode = "check" /\ run.pos > Len(H.items)
  /\ handovers' = UpdateHandoverStatus(handovers, run.id, "prechecked")
  /\ run' = NoRun
  /\ UNCHANGED <<others, tables, swept, stops, events>>

\* Only a handover all of whose resources passed goes on: to its receiver, or
\* at once.
Initiate(id) ==
  LET h == handovers[id]
  IN /\ run = NoRun
     /\ h.status = "prechecked"
     /\ \A i \in DOMAIN h.items : h.items[i].check = "ok"
     /\ \/ /\ h.confirm
           /\ handovers' = UpdateHandoverStatus(handovers, id, "pending_receive")
           /\ UNCHANGED run
        \/ /\ ~h.confirm
           /\ BeginRun("execute", id)
           /\ UNCHANGED handovers
     /\ UNCHANGED <<others, tables, swept, stops, events>>

Confirm(id, accept) ==
  /\ run = NoRun
  /\ handovers[id].status = "pending_receive"
  /\ \/ /\ accept
        /\ BeginRun("execute", id)
        /\ UNCHANGED handovers
     \/ /\ ~accept
        /\ handovers' = UpdateHandoverStatus(handovers, id, "rejected")
        /\ UNCHANGED run
  /\ UNCHANGED <<others, tables, swept, stops, events>>

CancelHandover(hs, id) ==
  IF hs[id].status \in Final THEN hs ELSE UpdateHandoverStatus(hs, id, "cancelled")

Cancel(id) ==
  /\ run = NoRun
  /\ handovers' = CancelHandover(handovers, id)
  /\ UNCHANGED <<others, tables, swept, run, stops, events>>

\* A query for those that no receiver need confirm.
ExpiredUnconfirmed ==
  {id \in DOMAIN handovers : /\ handovers[id].status = "pending_receive"
                             /\ handovers[id].left = 0
                             /\ ~handovers[id].confirm}

ListExpiredPendingHandovers ==
  {id \in DOMAIN handovers : handovers[id].status = "pending_receive" /\ handovers[id].left = 0}

\* The sweep of two seconds.
CheckAndCancelExpired ==
  /\ run = NoRun
  /\ swept' = ~swept
  /\ handovers' = [id \in DOMAIN handovers |->
       IF id \in ListExpiredPendingHandovers THEN CancelHandover(handovers, id)[id]
                                             ELSE handovers[id]]
  /\ UNCHANGED <<others, tables, run, stops, events>>

-----------------------------------------------------------------------------
\* The resource is moved: on to the next.
ItemApplied ==
  /\ handovers' = [handovers EXCEPT ![run.id].items[run.pos].executed = TRUE]
  /\ run' = [run EXCEPT !.pos = @ + 1, !.part = 1, !.applied = Append(@, It)]

Fail ==
  /\ run' = [run EXCEPT !.mode = "rollback"]
  /\ UNCHANGED handovers

\* One statement of an item's execution is done and another follows.
Go == run' = [run EXCEPT !.part = @ + 1] /\ UNCHANGED handovers

\* The lock's row is read, then written, then its lease is.
ExecuteLockTransfer(l) ==
  \/ /\ run.part = 1
     /\ IF locks[l].holder = H.from THEN Go ELSE Fail
     /\ UNCHANGED tables
  \/ /\ run.part = 2
     /\ locks' = [locks EXCEPT ![l].holder = H.to]
     /\ Go
     /\ UNCHANGED <<bindings, txs, reservations>>
  \/ /\ run.part = 3
     /\ locks' = [locks EXCEPT ![l].lease = IF @ = NoParty THEN @ ELSE H.to]
     /\ ItemApplied
     /\ UNCHANGED <<bindings, txs, reservations>>

Received(from, to) ==
  IF to \in DOMAIN bindings
  THEN [bindings[to] EXCEPT !.used = @ + bindings[from].used,
                            !.borrowed = @ + bindings[from].borrowed]
  ELSE bindings[from]

PutBinding(c, b) ==
  bindings' = [x \in DOMAIN bindings \cup {c} |-> IF x = c THEN b ELSE bindings[x]]

Cleared(b) == [b EXCEPT !.used = 0, !.borrowed = 0]

\* A transfer that takes before it gives.
ExecuteQuotaBackwards ==
  \/ /\ run.part = 1
     /\ IF H.from \in DOMAIN bindings
        THEN PutBinding(H.from, Cleared(bindings[H.from])) /\ Go
        ELSE UNCHANGED bindings /\ Fail
     /\ UNCHANGED <<locks, txs, reservations>>
  \/ /\ run.part = 2
     /\ PutBinding(H.to, Received(H.from, H.to))
     /\ ItemApplied
     /\ UNCHANGED <<locks, txs, reservations>>

\* The receiver's row gets what the giver used and borrowed, then the giver's
\* row loses it.
ExecuteQuotaTransfer ==
  \/ /\ run.part = 1
     /\ IF H.from \in DOMAIN bindings
        THEN PutBinding(H.to, Received(H.from, H.to)) /\ Go
        ELSE UNCHANGED bindings /\ Fail
     /\ UNCHANGED <<locks, txs, reservations>>
  \/ /\ run.part = 2
     /\ PutBinding(H.from, Cleared(bindings[H.from]))
     /\ ItemApplied
     /\ UNCHANGED <<locks, txs, reservations>>

\* A transfer that trusts the check.
ExecuteOrchTxUnchecked(t) ==
  \/ /\ run.part = 1
     /\ txs' = [txs EXCEPT ![t].holder = H.to]
     /\ Go
     /\ UNCHANGED <<locks, bindings, reservations>>
  \/ /\ run.part = 2
     /\ txs' = [txs EXCEPT ![t].locks = H.to]
     /\ ItemApplied
     /\ UNCHANGED <<locks, bindings, reservations>>

ExecuteOrchTxTransfer(t) ==
  \/ /\ run.part = 1
     /\ IF txs[t].holder = H.from
        THEN txs' = [txs EXCEPT ![t].holder = H.to] /\ Go
        ELSE UNCHANGED txs /\ Fail
     /\ UNCHANGED <<locks, bindings, reservations>>
  \/ /\ run.part = 2
     /\ txs' = [txs EXCEPT ![t].locks = H.to]
     /\ ItemApplied
     /\ UNCHANGED <<locks, bindings, reservations>>

ExecuteReservationTransfer(r) ==
  /\ IF reservations[r].caller = H.from
     THEN reservations' = [reservations EXCEPT ![r].caller = H.to] /\ ItemApplied
     ELSE UNCHANGED reservations /\ Fail
  /\ UNCHANGED <<locks, bindings, txs>>

\* The next statement of the execution.  A subtree's locks are items of their
\* own: the subtree itself needs nothing.
ExecuteResource ==
  /\ run.mode = "execute" /\ run.pos <= Len(H.items)
  /\ \/ It.type = "lock" /\ ExecuteLockTransfer(It.key)
     \/ It.type = "quota" /\ ExecuteQuotaTransfer
     \/ It.type = "orch_tx" /\ ExecuteOrchTxTransfer(It.key)
     \/ It.type = "topology_subtree" /\ ItemApplied /\ UNCHANGED tables
     \/ It.type = "reservation" /\ ExecuteReservationTransfer(It.key)
  /\ UNCHANGED <<others, swept, stops, events>>

ExecuteDone ==
  /\ run.mode = "execute" /\ run.pos > Len(H.items)
  /\ handovers' = UpdateHandoverStatus(handovers, run.id, "completed")
  /\ run' = NoRun
  /\ UNCHANGED <<others, tables, swept, stops, events>>

OfType(s, type) == Keep(s, {i \in DOMAIN s : s[i].type = type})

\* A rollback that leaves the reservations to the receiver.
LocksAndTxs(s) ==
  Reverse(OfType(s, "orch_tx")) \o Reverse(OfType(s, "lock"))

\* What goes back, and in which order.  Quota does not.
RollbackOrder(s) ==
  Reverse(OfType(s, "reservation")) \o Reverse(OfType(s, "orch_tx")) \o Reverse(OfType(s, "lock"))

\* The last statement for a resource that goes back.
IsBack(item) ==
  run' = [run EXCEPT !.part = 1, !.applied = Keep(@, {i \in DOMAIN @ : @[i] /= item})]

\* The next statement of the rollback: a lease goes back before its lock.
RollbackNext(item) ==
  /\ \/ /\ item.type = "reservation"
        /\ reservations' = [reservations EXCEPT ![item.key].caller = H.from]
        /\ IsBack(item)
        /\ UNCHANGED <<locks, txs>>
     \/ /\ item.type = "orch_tx" /\ run.part = 1
        /\ txs' = [txs EXCEPT ![item.key].holder = H.from]
        /\ run' = [run EXCEPT !.part = 2]
        /\ UNCHANGED <<locks, reservations>>
     \/ /\ item.type = "orch_tx" /\ run.part = 2
        /\ txs' = [txs EXCEPT ![item.key].locks = H.from]
        /\ IsBack(item)
        /\ UNCHANGED <<locks, reservations>>
     \/ /\ item.type = "lock" /\ run.part = 1
        /\ locks' = [locks EXCEPT ![item.key].lease = IF @ = NoParty THEN @ ELSE H.from]
        /\ run' = [run EXCEPT !.part = 2]
        /\ UNCHANGED <<txs, reservations>>
     \/ /\ item.type = "lock" /\ run.part = 2
        /\ locks' = [locks EXCEPT ![item.key].holder = H.from]
        /\ IsBack(item)
        /\ UNCHANGED <<txs, reservations>>
  /\ UNCHANGED bindings

\* The handover keeps its status when all is back, and may be tried again.
RollbackAll ==
  /\ run.mode = "rollback"
  /\ LET todo == RollbackOrder(run.applied)
     IN \/ todo /= <<>> /\ RollbackNext(Head(todo))
        \/ todo = <<>> /\ run' = NoRun /\ UNCHANGED tables
  /\ UNCHANGED <<others, swept, handovers, stops, events>>

-----------------------------------------------------------------------------
\* The other parts go on while a handover is executed.
Event ==
  /\ events < limits.events
  /\ events' = events + 1
  /\ run' = IF run = NoRun THEN run ELSE [run EXCEPT !.disturbed = TRUE]
  /\ UNCHANGED <<limits, swept, handovers, stops>>

\* The lock manager releases or expires a lock, or grants it.
LockPasses(l, c) ==
  /\ Event
  /\ locks' = [locks EXCEPT ![l] = [holder |-> c, lease |-> c]]
  /\ UNCHANGED <<bindings, txs, reservations, refused>>

\* The rate limiter writes the row of a caller, from its memory.
QuotaChanges(c, used, borrowed) ==
  /\ Event
  /\ bindings' = [bindings EXCEPT ![c].used = used, ![c].borrowed = borrowed]
  /\ UNCHANGED <<locks, txs, reservations, refused>>

TxReleased(t) ==
  /\ Event
  /\ txs' = [txs EXCEPT ![t].committed = FALSE]
  /\ UNCHANGED <<locks, bindings, reservations, refused>>

ReservationOver(r) ==
  /\ Event
  /\ reservations' = [reservations EXCEPT ![r].live = FALSE]
  /\ UNCHANGED <<locks, bindings, txs, refused>>

\* A restriction is put on a caller or a breaker opens, or they go.
RefusalChanges(c, type) ==
  /\ Event
  /\ refused' = SymDiff(refused, {<<c, type>>})
  /\ UNCHANGED tables

\* Nothing is kept in memory: what was under way stays where it is.
HandoverCrash ==
  /\ stops < limits.crashes
  /\ stops' = stops + 1
  /\ run' = NoRun
  /\ UNCHANGED <<others, tables, swept, handovers, events>>

\* A crash between the rows of a new handover.
CrashInCreate(r, n) ==
  /\ run = NoRun
  /\ Len(handovers) < limits.handovers
  /\ stops < limits.crashes
  /\ n < Len(AllItems(r))
  /\ stops' = stops + 1
  /\ handovers' = Append(handovers, Created(r, SubSeq(AllItems(r), 1, n)))
  /\ UNCHANGED <<others, tables, swept, run, events>>

DeadlinesNear ==
  /\ handovers' = [id \in DOMAIN handovers |->
                     [handovers[id] EXCEPT !.left = IF @ > 0 THEN @ - 1 ELSE 0]]
  /\ UNCHANGED <<others, tables, swept, run, stops, events>>

NoHandovers == handovers = <<>>

HandoverInit ==
  /\ limits \in HandoverBounds
  /\ NoHandovers
  /\ swept = FALSE /\ run = NoRun
  /\ \E f \in Firsts : /\ locks = f.locks /\ bindings = f.bindings
                       /\ txs = f.txs /\ reservations = f.reservations
  /\ refused = {}
  /\ stops = 0 /\ events = 0

\* The requests of the HTTP interface.
PostHandover == \E r \in limits.requests : CreateHandover(r)
PostPreCheck == \E id \in DOMAIN handovers : PreCheck(id)
PostInitiate == \E id \in DOMAIN handovers : Initiate(id)
PostConfirm == \E id \in DOMAIN handovers, accept \in BOOLEAN : Confirm(id, accept)
PostCancel == \E id \in DOMAIN handovers : Cancel(id)

OthersGoOn ==
  \/ \E l \in Locks, c \in Parties \cup {NoParty} : locks[l].holder /= c /\ LockPasses(l, c)
  \/ \E c \in DOMAIN bindings, used, borrowed \in 0..1 : QuotaChanges(c, used, borrowed)
  \/ \E t \in Txs : txs[t].committed /\ TxReleased(t)
  \/ \E r \in Reservations : reservations[r].live /\ ReservationOver(r)
  \/ \E c \in Parties, type \in {"lock", "quota", "orch_tx"} : RefusalChanges(c, type)

MutexHolder == CheckNext \/ CheckDone \/ ExecuteResource \/ ExecuteDone \/ RollbackAll

HandoverNext ==
  \/ PostHandover \/ PostPreCheck \/ PostInitiate \/ PostConfirm \/ PostCancel
  \/ CheckAndCancelExpired
  \/ MutexHolder
  \/ OthersGoOn
  \/ HandoverCrash
  \/ \E r \in limits.requests, n \in 0..3 : CrashInCreate(r, n)
  \/ DeadlinesNear

\* The ticker goes on for ever, and with it the clock; whoever has the mutex
\* gets through.
SweeperRuns == []<>swept /\ []<>~swept

HandoverSpec ==
  HandoverInit /\ [][HandoverNext]_handoverVars /\ SweeperRuns
    /\ WF_handoverVars(DeadlinesNear) /\ WF_handoverVars(MutexHolder)

-----------------------------------------------------------------------------
\* The types of the tables and of the execution.
HandoverTypes ==
  /\ limits \in HandoverBounds /\ swept \in BOOLEAN
  /\ handovers \in Seq(HandoverSet) /\ Len(handovers) <= limits.handovers
  /\ run.mode \in {"none", "check", "execute", "rollback"}
  /\ run.id \in 0..Len(handovers) /\ run.part \in 1..3
  /\ run.applied \in Seq(Item) /\ run.disturbed \in BOOLEAN
  /\ locks \in [Locks -> HolderRows]
  /\ \A c \in DOMAIN bindings : bindings[c] \in BindingRow
  /\ txs \in [Txs -> TxRow] /\ reservations \in [Reservations -> ReservationRow]
  /\ refused \subseteq Parties \X Types
  /\ stops \in 0..limits.crashes /\ events \in 0..limits.events

Moved(items, to) ==
  \A i \in Range(items) :
    CASE i.type = "lock" -> locks'[i.key].holder = to /\ locks'[i.key].lease \in {to, NoParty}
      [] i.type = "orch_tx" -> txs'[i.key].holder = to /\ txs'[i.key].locks = to
      [] i.type = "reservation" -> reservations'[i.key].caller = to
      [] OTHER -> TRUE

\* An execution that other parts leave alone either moves every lock, lease,
\* transaction and reservation of the handover, or ends with all of them where
\* they were when it began: also when an earlier handover has taken one of
\* them since the check.  (A lease that a crash left with another caller than
\* its lock comes back to the lock's holder, and so do the locks of a
\* transaction that a crash left between its two statements.)
AllOrNothing ==
  [][run.mode \in {"execute", "rollback"} /\ run' = NoRun /\ stops' = stops
       /\ ~run.disturbed =>
       IF H.status /= "completed" /\ handovers'[run.id].status = "completed"
       THEN Moved(H.items, H.to)
       ELSE /\ \A l \in Locks :
                 /\ locks'[l].holder = run.before.locks[l].holder
                 /\ locks'[l].lease \in {run.before.locks[l].lease, locks'[l].holder}
            /\ \A t \in Txs :
                 /\ txs'[t].holder = run.before.txs[t].holder
                 /\ txs'[t].locks \in {run.before.txs[t].locks, txs'[t].holder}
            /\ reservations' = run.before.reservations]_handoverVars

\* Transactions and reservations are written by nobody else, so whatever was
\* checked long ago, a handover only takes them from its giver, and gives back
\* only what its receiver has.
OnlyTheGiverLoses ==
  [][/\ \A t \in Txs :
          txs'[t].holder /= txs[t].holder =>
            {txs[t].holder, txs'[t].holder} = {H.from, H.to} /\ H.status \notin Final
     /\ \A r \in Reservations :
          reservations'[r].caller /= reservations[r].caller =>
            {reservations[r].caller, reservations'[r].caller} = {H.from, H.to}
              /\ H.status \notin Final]_handoverVars

\* A handover that is completed, cancelled or rejected stays so.
FinalIsFinal ==
  [][\A id \in DOMAIN handovers :
       handovers[id].status \in Final => handovers'[id].status = handovers[id].status]_handoverVars

Total(bs, part) == SumFunctionOnSet([c \in DOMAIN bs |-> bs[c][part]], DOMAIN bs)

\* Quota that is being handed over may be counted twice for a moment, and for
\* good after a crash or a failure, but at no moment is use or debt missing
\* that was there when the execution began, unless the rate limiter wrote the
\* rows meanwhile.
UsageIsNotLost ==
  run.mode \in {"execute", "rollback"} /\ ~run.disturbed =>
    \A part \in {"used", "borrowed"} :
      Total(bindings, part) >= Total(run.before.bindings, part)

\* A handover does not wait for its receiver for ever.
PendingEnds ==
  \A id \in 1..Max({b.handovers : b \in HandoverBounds}) :
    (id \in DOMAIN handovers /\ handovers[id].status = "pending_receive")
      ~> (id \in DOMAIN handovers /\ handovers[id].status \in Final)

\* The rows are well formed and no use of quota is lost on the way.
HandoverIsSound == HandoverTypes /\ UsageIsNotLost

\* A handover ends, and stays as it ended.
HandoversEnd == FinalIsFinal /\ PendingEnds
=============================================================================
