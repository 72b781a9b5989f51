------------------------------- MODULE Heartbeat -------------------------------
(***************************************************************************)
(* Heartbeats (internal/heartbeat): a caller that has not reported for too *)
(* long is lost, and what it holds is released or frozen; a group with too *)
(* few callers alive is unhealthy, and the groups that depend on it are    *)
(* degraded: their callers may take no new lock.                           *)
(*                                                                         *)
(* The manager's mutex is held while a lost caller is disposed of, but the *)
(* lock manager, the rate limiter and the orchestrator have mutexes of     *)
(* their own: between two calls to them other requests go on.              *)
(***************************************************************************)
EXTENDS Rows, WaitGraph, SequencesExt, FiniteSetsExt

CONSTANTS
  Callers, Nobody,       \* the callers; the holder of a free lock
  Locks, Txs, TxLocks,   \* the locks; transactions and the locks of each
  Groups, NoGroup,
  Bounds                 \* the bounds a behaviour may keep to

Statuses == {"healthy", "suspect", "lost", "frozen", "recovered"}
Alive == {"healthy", "suspect", "recovered"}
Strategies == {"release_all", "release_lock_only", "freeze"}
GroupStatuses == {"healthy", "unhealthy", "degraded"}

\* A caller misses max intervals before it is lost.
Request == [caller : Callers, group : Groups \cup {NoGroup}, max : Nat \ {0},
            strategy : Strategies]

\* The row of a caller; its age is the number of whole intervals, up to max,
\* since it was last heard of.
Registration == [group : Groups \cup {NoGroup}, max : Nat \ {0}, strategy : Strategies,
                 age : Nat, status : Statuses]

GroupRow == [threshold : Nat \ {0}, status : GroupStatuses, alive : Nat, total : Nat,
             degraded : BOOLEAN]

FrozenResource == [caller : Callers, type : {"lock", "tokens", "orchestration_tx"},
                   key : Locks \cup Callers \cup Txs]

LockState == [holder : Callers \cup {Nobody}, count : Nat, queue : Seq(Callers)]

\* What a behaviour keeps to: who registers, the groups and their thresholds,
\* the dependencies asked for, the locks asked for, how often one may be
\* entered, who uses tokens and how many, the transactions open at first, the
\* crashes.
BoundSet == [requests : SUBSET Request, groups : SUBSET (Groups \X (Nat \ {0})),
             deps : SUBSET (Groups \X Groups), asks : SUBSET (Callers \X Locks),
             entries : Nat, users : SUBSET Callers, tokens : Nat, txs : SUBSET (Txs \X Callers), crashes : Nat]

ASSUME HeartbeatAssumption ==
  /\ Nobody \notin Callers /\ NoGroup \notin Groups
  /\ TxLocks \in [Txs -> SUBSET Locks]
  /\ \A b \in Bounds : b \in BoundSet

VARIABLES
  bound,       \* the bounds of this behaviour
  beat,        \* changes with every tick
  regs,        \* the registered callers
  groups,      \* the groups
  deps,        \* the dependencies <<group, on>>, in the order they were added
  frozen,      \* the frozen resources not yet released
  run,         \* what the holder of the mutex is in the middle of
  late,        \* callers that a start found too late, to be checked
  locks,       \* the locks with their queues
  passed,      \* requests for a lock that have passed the look at the group
  used,        \* the tokens each caller uses
  waits,       \* callers with a row in the rate limiter's queue
  txs,         \* the committed transactions and their holders
  crashes

own == <<regs, groups, deps, frozen>>
foreign == <<locks, used, waits, txs>>
heartbeatVars == <<bound, beat, own, run, late, foreign, passed, crashes>>

\* A tick has a rest of callers to check, the groups to update at its end, and
\* perhaps a caller being disposed of, with what is left to do.  What that
\* caller got meanwhile, or had entered twice, is kept for the properties only.
NoRun == [mode |-> "none", marks |-> TRUE, rest |-> {}, changed |-> {}, refresh |-> {},
          caller |-> Nobody, todo |-> {}, amount |-> 0, kept |-> {}, all |-> FALSE]

Free == run = NoRun

-----------------------------------------------------------------------------
\* Groups.  All of this happens within one turn of the mutex.
Members(rs, g) == {c \in DOMAIN rs : rs[c].group = g}

DependOn(ds, g) ==
  LET on == Without(ds, LAMBDA d : d[2] /= g) IN [i \in DOMAIN on |-> on[i][1]]

DependenciesOf(ds, g) == {d[2] : d \in {e \in Range(ds) : e[1] = g}}

Unwell(row) == row.status = "unhealthy" \/ row.degraded

ByCount(row) == IF row.alive >= row.threshold THEN "healthy" ELSE "unhealthy"

\* The next group of a list is tried.  A degraded one is restored when all that
\* it depends on is well, and those that depend on it are tried before the rest.
TryRestoreGroup(ds, s) ==
  LET g == Head(s.todo)
  IN IF ~s.groups[g].degraded \/ \E d \in DependenciesOf(ds, g) : Unwell(s.groups[d])
     THEN [s EXCEPT !.todo = Tail(@)]
     ELSE [groups |-> [s.groups EXCEPT ![g].degraded = FALSE,
                                       ![g].status = ByCount(s.groups[g])],
           todo |-> DependOn(ds, g) \o Tail(s.todo)]

\* The groups when all on the list have been tried.
TryRestore(ds, gs, todo) ==
  LET Walk[s \in [groups : [DOMAIN gs -> GroupRow], todo : Seq(DOMAIN gs)]] ==
        IF s.todo = <<>> THEN s.groups ELSE Walk[TryRestoreGroup(ds, s)]
  IN Walk[[groups |-> gs, todo |-> todo]]

Degraded(gs, g) == [gs EXCEPT ![g].degraded = TRUE, ![g].status = "degraded"]

\* A cascade that stops at the first group that is degraded already.
CascadeToFirst(ds, gs, g) ==
  LET on == DependOn(ds, g)
  IN IF gs[g].status /= "unhealthy" THEN TryRestore(ds, gs, on)
     ELSE FoldLeft(LAMBDA k, d : IF gs[on[1]].degraded THEN k ELSE Degraded(k, d), gs, on)

\* A degraded group is not called unhealthy, so its own cascade tries to
\* restore those that depend on it.
DegradeNext(ds, k, d) ==
  IF k[d].degraded THEN k ELSE TryRestore(ds, Degraded(k, d), DependOn(ds, d))

\* An unhealthy group degrades those that depend on it.
CheckCascadeDegrade(ds, gs, g) ==
  IF gs[g].status /= "unhealthy" THEN TryRestore(ds, gs, DependOn(ds, g))
  ELSE FoldLeft(LAMBDA k, d : DegradeNext(ds, k, d), gs, DependOn(ds, g))

UpdateGroupHealth(rs, gs, g) ==
  IF g \notin DOMAIN gs THEN gs
  ELSE LET counted == [gs[g] EXCEPT
             !.alive = Cardinality({c \in Members(rs, g) : rs[c].status \in Alive}),
             !.total = Cardinality(Members(rs, g))]
       IN CheckCascadeDegrade(deps, [gs EXCEPT ![g] = [counted EXCEPT !.status = ByCount(counted)]], g)

\* The groups of gset, in the order a map is walked: any.
UpdateGroups(rs, gs, gset) ==
  {FoldLeft(LAMBDA k, g : UpdateGroupHealth(rs, k, g), gs, order) : order \in SetToSeqs(gset)}

CreateHeartbeatGroup(g, threshold) ==
  [x \in DOMAIN groups \cup {g} |->
     IF x \in DOMAIN groups THEN groups[x]
     ELSE [threshold |-> threshold, status |-> "healthy", alive |-> 0, total |-> 0,
           degraded |-> FALSE]]

CreateGroup(g, threshold) ==
  /\ Free
  /\ g \notin DOMAIN groups
  /\ groups' = CreateHeartbeatGroup(g, threshold)
  /\ UNCHANGED <<bound, beat, regs, deps, frozen, run, late, foreign, passed, crashes>>

\* Only a group without callers goes, and every dependency on it.
DeleteGroup(g) ==
  /\ Free
  /\ Members(regs, g) = {}
  /\ groups' = [x \in DOMAIN groups \ {g} |-> groups[x]]
  /\ deps' = Without(deps, LAMBDA d : g \in Range(d))
  /\ UNCHANGED <<bound, beat, regs, frozen, run, late, foreign, passed, crashes>>

WouldCreateCycle(g, on) == g \in Reachable(Range(deps), DOMAIN groups, on)

CreateGroupDependency(d) == IF d \in Range(deps) THEN deps ELSE Append(deps, d)

AddGroupDependency(g, on) ==
  /\ Free
  /\ {g, on} \subseteq DOMAIN groups /\ g /= on
  /\ ~WouldCreateCycle(g, on)
  /\ deps' = CreateGroupDependency(<<g, on>>)
  /\ groups' = IF Unwell(groups[on]) THEN CheckCascadeDegrade(deps', groups, on) ELSE groups
  /\ UNCHANGED <<bound, beat, regs, frozen, run, late, foreign, passed, crashes>>

RemoveGroupDependency(g, on) ==
  /\ Free
  /\ deps' = Without(deps, LAMBDA d : d = <<g, on>>)
  /\ groups' = IF g \in DOMAIN groups /\ groups[g].degraded
               THEN TryRestore(deps', groups, <<g>>) ELSE groups
  /\ UNCHANGED <<bound, beat, regs, frozen, run, late, foreign, passed, crashes>>

-----------------------------------------------------------------------------
\* Callers.  One that was lost or has recovered may register anew.  The row of
\* the caller is written first, then that of the group it leaves, then that of
\* its own.
MayRegister(r) ==
  /\ Free
  /\ r.group \in DOMAIN groups \cup {NoGroup}
  /\ r.caller \in DOMAIN regs => regs[r.caller].status \in {"lost", "recovered"}

Registered(r) ==
  [x \in DOMAIN regs \cup {r.caller} |->
     IF x /= r.caller THEN regs[x]
     ELSE [group |-> r.group, max |-> r.max, strategy |-> r.strategy, age |-> 0,
           status |-> "healthy"]]

UpdateGroupLeft(rs, r) ==
  LET old == IF r.caller \in DOMAIN regs THEN regs[r.caller].group ELSE r.group
  IN IF old = r.group THEN groups ELSE UpdateGroupHealth(rs, groups, old)

RegisterHeartbeat(r) ==
  /\ MayRegister(r)
  /\ regs' = Registered(r)
  /\ groups' = UpdateGroupHealth(regs', UpdateGroupLeft(regs', r), r.group)
  /\ UNCHANGED <<bound, beat, deps, frozen, run, late, foreign, passed, crashes>>

MayReport(c) == Free /\ regs[c].status /= "frozen"

Reported(c) ==
  [regs EXCEPT ![c].age = 0, ![c].status = IF @ = "lost" THEN "recovered" ELSE "healthy"]

ReportHeartbeat(c) ==
  /\ MayReport(c)
  /\ regs' = Reported(c)
  /\ groups' = UpdateGroupHealth(regs', groups, regs[c].group)
  /\ UNCHANGED <<bound, beat, deps, frozen, run, late, foreign, passed, crashes>>

\* The tick of 500ms reads the registrations and checks them one by one.
CheckAllCallers ==
  /\ Free
  /\ beat' = ~beat
  /\ run' = [NoRun EXCEPT !.mode = "tick",
                          !.rest = {c \in DOMAIN regs : regs[c].status /= "frozen"}]
  /\ UNCHANGED <<bound, own, late, foreign, passed, crashes>>

\* A start has a caller checked by itself, whose group is left alone.
CheckAndHandleCaller(c) ==
  /\ Free
  /\ c \in late
  /\ late' = late \ {c}
  /\ run' = [NoRun EXCEPT !.mode = "tick", !.marks = FALSE, !.rest = {c}]
  /\ UNCHANGED <<bound, beat, own, foreign, passed, crashes>>

NewStatus(r) ==
  IF r.age = 0 /\ r.status \in {"suspect", "recovered"} THEN "healthy"
  ELSE IF r.age >= r.max /\ r.status \in Alive THEN "lost"
  ELSE IF r.age > 0 /\ r.age < r.max /\ r.status = "healthy" THEN "suspect"
  ELSE r.status

CheckCaller(c) ==
  /\ run.mode = "tick" /\ c \in run.rest
  /\ LET r == regs[c]
         s == NewStatus(r)
         lost == s = "lost" /\ r.status /= "lost"
     IN /\ regs' = [regs EXCEPT ![c].status = s]
        /\ run' = [run EXCEPT
             !.rest = @ \ {c},
             !.mode = IF ~lost THEN "tick" ELSE IF r.strategy = "freeze" THEN "freeze" ELSE "list",
             !.caller = IF lost THEN c ELSE @,
             !.changed = IF run.marks /\ s /= r.status THEN @ \cup {r.group} ELSE @,
             !.refresh = IF run.marks /\ s = r.status /\ s \in {"lost", "recovered"}
                         THEN @ \cup {r.group} ELSE @]
  /\ UNCHANGED <<bound, beat, groups, deps, frozen, late, foreign, passed, crashes>>

\* A tick that only looks at the groups of callers whose status it changed.
UpdateChangedOnly ==
  /\ run.mode = "tick" /\ run.rest = {}
  /\ groups' \in UpdateGroups(regs, groups, run.changed)
  /\ run' = NoRun
  /\ UNCHANGED <<bound, beat, regs, deps, frozen, late, foreign, passed, crashes>>

CheckDone ==
  /\ run.mode = "tick" /\ run.rest = {}
  /\ \E gs \in UpdateGroups(regs, groups, run.changed) :
       groups' \in UpdateGroups(regs, gs, run.refresh \ run.changed)
  /\ run' = NoRun
  /\ UNCHANGED <<bound, beat, regs, deps, frozen, late, foreign, passed, crashes>>

-----------------------------------------------------------------------------
\* The lock manager.  A lock that becomes free goes to the first in its queue.
Vacated(k) ==
  IF k.queue = <<>> THEN [holder |-> Nobody, count |-> 0, queue |-> <<>>]
  ELSE [holder |-> Head(k.queue), count |-> 1, queue |-> Tail(k.queue)]

\* A release that does not ask whose lock it is.
ReleasedAnyway(k, c) ==
  IF k.holder = Nobody THEN k
  ELSE IF k.count > 1 THEN [k EXCEPT !.count = @ - 1]
  ELSE Vacated(k)

Released(k, c) ==
  IF k.holder /= c THEN k
  ELSE IF k.count > 1 THEN [k EXCEPT !.count = @ - 1]
  ELSE Vacated(k)

ReleaseLock(l, c) == locks' = [locks EXCEPT ![l] = Released(@, c)]

\* The holder of the mutex goes on to another stage of its work.
GoOn(mode) == run' = [run EXCEPT !.mode = mode, !.todo = {}]

AllOthers == UNCHANGED <<bound, beat, groups, deps, late, passed, crashes>>

ListActiveLeases(c) == {l \in Locks : locks[l].holder = c}

\* The leases of the lost caller are listed once.
ListLeases ==
  /\ run.mode = "list"
  /\ run' = [run EXCEPT !.mode = "release", !.todo = ListActiveLeases(run.caller)]
  /\ AllOthers
  /\ UNCHANGED <<regs, frozen, foreign>>

ReleaseLocksOnly(l) ==
  /\ run.mode = "release" /\ l \in run.todo
  /\ ReleaseLock(l, run.caller)
  /\ run' = [run EXCEPT !.todo = @ \ {l},
                        !.kept = IF locks'[l].holder = run.caller THEN @ \cup {l} ELSE @]
  /\ AllOthers
  /\ UNCHANGED <<regs, frozen, used, waits, txs>>

AfterLocks == IF regs[run.caller].strategy = "release_all" THEN "tokens" ELSE "disposed"

\* A disposal that leaves the caller in the queues.
LeaveWaiting ==
  /\ run.mode = "release" /\ run.todo = {}
  /\ GoOn(AfterLocks)
  /\ AllOthers
  /\ UNCHANGED <<regs, frozen, foreign>>

CancelWaitForHolder ==
  /\ run.mode = "release" /\ run.todo = {}
  /\ locks' = [l \in Locks |-> [locks[l] EXCEPT
                 !.queue = Without(@, LAMBDA c : c = run.caller)]]
  /\ GoOn(AfterLocks)
  /\ AllOthers
  /\ UNCHANGED <<regs, frozen, used, waits, txs>>

\* What the caller uses is read, then that much is given back, and its rows
\* leave the table of the rate limiter's queue.
ReadBinding ==
  /\ run.mode = "tokens"
  /\ run' = [run EXCEPT !.mode = "return", !.amount = used[run.caller]]
  /\ AllOthers
  /\ UNCHANGED <<regs, frozen, foreign>>

ReturnTokens(us, c, n) == [us EXCEPT ![c] = IF n > @ THEN 0 ELSE @ - n]

ReturnAllTokens ==
  /\ run.mode = "return"
  /\ used' = ReturnTokens(used, run.caller, run.amount)
  /\ waits' = waits \ {run.caller}
  /\ run' = [run EXCEPT !.mode = "txs", !.amount = 0]
  /\ AllOthers
  /\ UNCHANGED <<regs, frozen, locks, txs>>

OpenTxs(c) == {t \in DOMAIN txs : txs[t] = c}

\* The orchestrator releases the locks of a transaction, and forgets it.
ReleaseTx(t, c) ==
  /\ txs' = [x \in DOMAIN txs \ {t} |-> txs[x]]
  /\ locks' = [l \in Locks |-> IF l \in TxLocks[t] THEN Released(locks[l], c) ELSE locks[l]]

CancelOrchestrationTxs ==
  /\ run.mode = "txs"
  /\ \/ \E t \in OpenTxs(run.caller) :
          /\ ReleaseTx(t, run.caller)
          /\ run' = [run EXCEPT !.kept =
               @ \cup {l \in TxLocks[t] : locks'[l].holder = run.caller}]
          /\ UNCHANGED <<used, waits>>
     \/ /\ OpenTxs(run.caller) = {}
        /\ GoOn("disposed")
        /\ UNCHANGED foreign
  /\ AllOthers
  /\ UNCHANGED <<regs, frozen>>

\* The caller is frozen first, then what it has is written down.
FreezeCaller ==
  /\ run.mode = "freeze"
  /\ regs' = [regs EXCEPT ![run.caller].status = "frozen"]
  /\ GoOn("rows")
  /\ AllOthers
  /\ UNCHANGED <<frozen, foreign>>

Resource(c, type, keys) == {[caller |-> c, type |-> type, key |-> k] : k \in keys}

FreezeResources ==
  LET c == run.caller
  IN /\ run.mode = "rows"
     /\ frozen' = frozen \cup Resource(c, "lock", ListActiveLeases(c))
                    \cup Resource(c, "tokens", {x \in {c} : used[x] > 0})
                    \cup Resource(c, "orchestration_tx", OpenTxs(c))
     /\ GoOn("disposed")
     /\ AllOthers
     /\ UNCHANGED <<regs, foreign>>

\* The group of the lost caller is updated at once, and the check goes on.
HandleConnectionLost ==
  /\ run.mode = "disposed"
  /\ groups' = UpdateGroupHealth(regs, groups, regs[run.caller].group)
  /\ run' = [run EXCEPT !.mode = "tick", !.caller = Nobody, !.kept = {}]
  /\ UNCHANGED <<bound, beat, regs, deps, frozen, late, foreign, passed, crashes>>

-----------------------------------------------------------------------------
\* An operator lets go of one frozen resource of a caller, or of all.
ReleaseFrozenResource(row) ==
  /\ Free
  /\ run' = [NoRun EXCEPT !.mode = "thaw", !.caller = row.caller, !.todo = {row}]
  /\ UNCHANGED <<bound, beat, own, late, foreign, passed, crashes>>

ReleaseAllFrozenResources(c) ==
  /\ Free
  /\ run' = [NoRun EXCEPT !.mode = "thaw", !.caller = c, !.all = TRUE,
                          !.todo = {row \in frozen : row.caller = c}]
  /\ UNCHANGED <<bound, beat, own, late, foreign, passed, crashes>>

ThawNext(row) ==
  /\ run.mode = "thaw" /\ row \in run.todo
  /\ frozen' = frozen \ {row}
  /\ run' = [run EXCEPT !.todo = @ \ {row}]
  /\ \/ /\ row.type = "lock"
        /\ ReleaseLock(row.key, row.caller)
        /\ UNCHANGED <<used, waits, txs>>
     \/ /\ row.type = "tokens"
        /\ used' = ReturnTokens(used, row.caller, used[row.caller])
        /\ UNCHANGED <<locks, waits, txs>>
     \/ /\ row.type = "orchestration_tx"
        /\ IF row.key \in OpenTxs(row.caller) THEN ReleaseTx(row.key, row.caller)
           ELSE UNCHANGED <<locks, txs>>
        /\ UNCHANGED <<used, waits>>
  /\ AllOthers
  /\ UNCHANGED regs

\* The caller has recovered when nothing of it is frozen any more.
ThawDone ==
  /\ run.mode = "thaw" /\ run.todo = {}
  /\ regs' = [c \in DOMAIN regs |->
                IF c = run.caller /\ (run.all \/ \A row \in frozen : row.caller /= c)
                THEN [regs[c] EXCEPT !.status = "recovered"] ELSE regs[c]]
  /\ run' = NoRun
  /\ AllOthers
  /\ UNCHANGED <<frozen, foreign>>

-----------------------------------------------------------------------------
\* Other requests go on between two calls of the holder of the mutex.
Meanwhile(gained) ==
  /\ run' = IF run.mode \in {"none", "tick"} THEN run
            ELSE [run EXCEPT !.kept = @ \cup gained]
  /\ UNCHANGED <<bound, beat, own, late, crashes>>

GroupIsDegraded(c) ==
  c \in DOMAIN regs /\ regs[c].group \in DOMAIN groups /\ groups[regs[c].group].degraded

\* The HTTP handler looks at the group under the mutex, and asks the lock
\* manager later.
IsGroupDegraded(c, l) ==
  /\ Free
  /\ ~GroupIsDegraded(c)
  /\ passed' = passed \cup {<<c, l>>}
  /\ UNCHANGED <<bound, beat, own, run, late, foreign, crashes>>

Asked(k, c) ==
  IF k.holder = Nobody THEN [k EXCEPT !.holder = c, !.count = 1]
  ELSE IF k.holder = c THEN [k EXCEPT !.count = IF @ < bound.entries THEN @ + 1 ELSE @]
  ELSE IF c \in Range(k.queue) THEN k ELSE [k EXCEPT !.queue = Append(@, c)]

AcquireLock(c, l) ==
  /\ <<c, l>> \in passed
  /\ passed' = passed \ {<<c, l>>}
  /\ locks' = [locks EXCEPT ![l] = Asked(@, c)]
  /\ Meanwhile(IF c = run.caller THEN {l} ELSE {})
  /\ UNCHANGED <<used, waits, txs>>

\* A holder releases its lock, or the lease runs out.
LockPasses(l) ==
  /\ locks[l].holder /= Nobody
  /\ locks' = [locks EXCEPT ![l] = Vacated(@)]
  /\ Meanwhile(IF locks'[l].holder = run.caller THEN {l} ELSE {})
  /\ UNCHANGED <<passed, used, waits, txs>>

\* A caller uses tokens, or waits for some.
RequestTokens(c) ==
  /\ \/ /\ used[c] < bound.tokens
        /\ used' = [used EXCEPT ![c] = @ + 1]
        /\ UNCHANGED waits
     \/ /\ used[c] = bound.tokens /\ c \notin waits
        /\ waits' = waits \cup {c}
        /\ UNCHANGED used
  /\ Meanwhile(IF c = run.caller THEN {c} ELSE {})
  /\ UNCHANGED <<passed, locks, txs>>

\* A transaction times out.
TxTimeout(t) ==
  /\ ReleaseTx(t, txs[t])
  /\ Meanwhile({l \in TxLocks[t] : locks'[l].holder = run.caller})
  /\ UNCHANGED <<passed, used, waits>>

Silence(c) ==
  /\ regs[c].age < regs[c].max
  /\ regs' = [regs EXCEPT ![c].age = @ + 1]
  /\ UNCHANGED <<bound, beat, groups, deps, frozen, run, late, foreign, passed, crashes>>

\* All of the manager's state is in the tables.  A start checks the callers
\* that are too late already; those that are lost are taken to be disposed of.
StopAndStart ==
  /\ crashes < bound.crashes
  /\ crashes' = crashes + 1
  /\ run' = NoRun
  /\ late' = {c \in DOMAIN regs' : /\ regs'[c].status \notin {"lost", "frozen"}
                                   /\ regs'[c].age >= regs'[c].max}
  /\ passed' = {}
  /\ UNCHANGED <<bound, beat, deps, frozen, foreign>>

Crash == UNCHANGED <<regs, groups>> /\ StopAndStart

\* A crash before the row of the group the caller leaves is written, or of its
\* own.
CrashInRegister(r) ==
  /\ MayRegister(r)
  /\ regs' = Registered(r)
  /\ groups' \in {groups, UpdateGroupLeft(regs', r)}
  /\ StopAndStart

CrashInReport(c) ==
  /\ MayReport(c)
  /\ regs' = Reported(c)
  /\ groups' = groups
  /\ StopAndStart

EmptyTables == regs = <<>> /\ groups = <<>> /\ deps = <<>> /\ frozen = {}

HeartbeatInit ==
  /\ bound \in Bounds
  /\ EmptyTables
  /\ beat = FALSE /\ run = NoRun /\ late = {}
  /\ txs = [t \in {o[1] : o \in bound.txs} |-> CHOOSE c \in Callers : <<t, c>> \in bound.txs]
  /\ locks = [l \in Locks |->
                LET owners == {c \in Callers : \E t \in OpenTxs(c) : l \in TxLocks[t]}
                IN IF owners = {} THEN [holder |-> Nobody, count |-> 0, queue |-> <<>>]
                   ELSE [holder |-> CHOOSE c \in owners : TRUE, count |-> 1, queue |-> <<>>]]
  /\ used = [c \in Callers |-> 0] /\ waits = {}
  /\ passed = {}
  /\ crashes = 0

\* The requests of the HTTP interface.
PostGroup == \E g \in bound.groups : CreateGroup(g[1], g[2])
DeleteGroupRequest == \E g \in DOMAIN groups : DeleteGroup(g)
PostDependency == \E d \in bound.deps : AddGroupDependency(d[1], d[2])
DeleteDependency == \E d \in Range(deps) : RemoveGroupDependency(d[1], d[2])
PostRegister == \E r \in bound.requests : RegisterHeartbeat(r)
PostReport == \E c \in DOMAIN regs : ReportHeartbeat(c)
PostThaw == \E row \in frozen : ReleaseFrozenResource(row)
PostThawAll == \E c \in DOMAIN regs : ReleaseAllFrozenResources(c)
PostLock == \E ask \in bound.asks : IsGroupDegraded(ask[1], ask[2])

Dispose ==
  \/ ListLeases
  \/ \E l \in Locks : ReleaseLocksOnly(l)
  \/ CancelWaitForHolder
  \/ ReadBinding \/ ReturnAllTokens
  \/ CancelOrchestrationTxs
  \/ FreezeCaller \/ FreezeResources
  \/ HandleConnectionLost

MutexHolder ==
  \/ \E c \in Callers : CheckCaller(c)
  \/ CheckDone
  \/ Dispose
  \/ \E row \in frozen : ThawNext(row)
  \/ ThawDone

OthersGoOn ==
  \/ \E ask \in passed : AcquireLock(ask[1], ask[2])
  \/ \E l \in Locks : LockPasses(l)
  \/ \E c \in bound.users : RequestTokens(c)
  \/ \E t \in DOMAIN txs : TxTimeout(t)

HeartbeatNext ==
  \/ PostGroup \/ DeleteGroupRequest \/ PostDependency \/ DeleteDependency
  \/ PostRegister \/ PostReport \/ PostThaw \/ PostThawAll \/ PostLock
  \/ CheckAllCallers
  \/ \E c \in late : CheckAndHandleCaller(c)
  \/ MutexHolder
  \/ OthersGoOn
  \/ \E c \in DOMAIN regs : Silence(c)
  \/ Crash
  \/ \E r \in bound.requests : CrashInRegister(r)
  \/ \E c \in DOMAIN regs : CrashInReport(c)

\* A caller that is not too late yet reports, or another interval passes.
IntervalPasses(c) ==
  /\ c \in DOMAIN regs /\ regs[c].age < regs[c].max
  /\ Silence(c) \/ ReportHeartbeat(c)

\* The ticker goes on for ever, whoever has the mutex gets through, and time
\* does not stand still for a caller.
TickerRuns == []<>beat /\ []<>~beat

HeartbeatFairness ==
  /\ TickerRuns
  /\ WF_heartbeatVars(MutexHolder)
  /\ \A c \in Callers : WF_heartbeatVars(IntervalPasses(c))

HeartbeatSpec == HeartbeatInit /\ [][HeartbeatNext]_heartbeatVars /\ HeartbeatFairness

-----------------------------------------------------------------------------
\* The types of the tables, of the other managers' state and of the mutex
\* holder's work.
HeartbeatTypes ==
  /\ bound \in Bounds /\ beat \in BOOLEAN
  /\ DOMAIN regs \subseteq Callers
  /\ \A c \in DOMAIN regs : regs[c] \in Registration /\ regs[c].age <= regs[c].max
  /\ DOMAIN groups \subseteq Groups
  /\ \A g \in DOMAIN groups : groups[g] \in GroupRow
  /\ IsInjective(deps) /\ Range(deps) \subseteq (DOMAIN groups) \X (DOMAIN groups)
  /\ \A c \in DOMAIN regs : regs[c].group \in DOMAIN groups \cup {NoGroup}
  /\ frozen \subseteq FrozenResource
  /\ run.mode \in {"none", "tick", "list", "release", "tokens", "return", "txs", "freeze",
                   "rows", "disposed", "thaw"}
  /\ run.rest \cup late \subseteq DOMAIN regs
  /\ locks \in [Locks -> LockState]
  /\ \A l \in Locks : IsInjective(locks[l].queue) /\ locks[l].holder \notin Range(locks[l].queue)
  /\ used \in [Callers -> 0..bound.tokens] /\ waits \subseteq Callers
  /\ passed \subseteq bound.asks /\ crashes \in 0..bound.crashes

\* While anything of a caller is frozen the caller is, whatever order the
\* resources are released in and wherever a crash cuts a disposal short: it
\* can neither report nor register, nor be disposed of a second time.
FrozenRowsMeanFrozen == \A row \in frozen : regs[row.caller].status = "frozen"

\* When a lost caller has been disposed of it holds and waits for no lock
\* (and with release_all uses no tokens and has no transaction), but for what
\* it got while that was going on and locks it had entered twice.
DisposalIsComplete ==
  run.mode = "disposed" /\ regs[run.caller].strategy /= "freeze" =>
    /\ \A l \in Locks \ run.kept :
         locks[l].holder /= run.caller /\ run.caller \notin Range(locks[l].queue)
    /\ regs[run.caller].strategy = "release_all" =>
         /\ OpenTxs(run.caller) = {}
         /\ run.caller \in run.kept \/ used[run.caller] = 0

\* Releasing by a list made earlier takes locks only from the caller the list
\* was made for, lost or frozen as it is, and no place in a queue from anybody
\* else, though the locks may long have passed to others.
OnlyTheLostLose ==
  [][run'.mode /= run.mode \/ run'.todo /= run.todo =>
       \A l \in Locks :
         /\ locks'[l].holder /= locks[l].holder =>
              locks[l].holder = run.caller /\ regs[run.caller].status \notin Alive
         /\ Range(locks[l].queue) \subseteq
              Range(locks'[l].queue) \cup {locks'[l].holder, run.caller}]_heartbeatVars

SomeUnwell(g) == \E d \in DependenciesOf(deps, g) : Unwell(groups[d])

\* When the last of the groups it depends on becomes well again, or is no
\* longer depended on, a degraded group is restored in the same step, also
\* through other groups (but not when the group it depended on is deleted).
RestoredWithTheLast ==
  [][\A g \in DOMAIN groups :
       groups[g].degraded /\ SomeUnwell(g) /\ DOMAIN groups \subseteq DOMAIN groups'
         /\ ~SomeUnwell(g)'
       => ~groups'[g].degraded]_heartbeatVars

\* When too few callers of a group are left alive, every group that depends on
\* it is degraded in the same step.
TooFewDegrades ==
  [][\A g \in DOMAIN groups \cap DOMAIN groups' :
       groups[g].alive >= groups[g].threshold /\ groups'[g].alive < groups[g].threshold =>
         \A d \in Range(DependOn(deps', g)) : groups'[d].degraded]_heartbeatVars

RowAgrees(g) ==
  groups[g].alive = Cardinality({c \in Members(regs, g) : regs[c].status \in Alive})

Counted(g) ==
  g \notin DOMAIN groups \/ RowAgrees(g) \/ \E c \in Members(regs, g) : regs[c].status = "frozen"

\* The number of callers alive in a group's row becomes right again after
\* every change, also when a crash came between the caller's row and the
\* group's.  Two such crashes are not made up for: one in the middle of
\* freezing a caller, and one when the last caller of a group has moved to
\* another (then nothing looks at the group until a caller registers in it).
GroupsCatchUp ==
  \A g \in Groups : ~Counted(g) ~> Counted(g) \/ (crashes > 0 /\ Members(regs, g) = {})

Unnoticed(c) ==
  c \in DOMAIN regs /\ regs[c].age >= regs[c].max /\ regs[c].status \in Alive

\* A caller that has been silent too long is found lost, unless it reports.
LossIsNoticed == \A c \in Callers : Unnoticed(c) ~> ~Unnoticed(c)

\* The rows are well formed, what is frozen belongs to a frozen caller, and
\* a disposal leaves nothing out.
DisposalIsSound == HeartbeatTypes /\ FrozenRowsMeanFrozen /\ DisposalIsComplete

\* Groups follow those they depend on at once, when these become too few and
\* when they are enough again.
GroupsFollow == RestoredWithTheLast /\ TooFewDegrades

\* No change is overlooked for ever: a silent caller is found lost, and the
\* rows of the groups become right again.
ChangesAreNoticed == GroupsCatchUp /\ LossIsNoticed
=============================================================================
