---------------------------- MODULE AuditBreaker ----------------------------
(***************************************************************************)
(* The audit log and the circuit breakers (internal/audit).  Requests pass *)
(* through this manager on their way to the lock manager and the rate      *)
(* limiter: is the caller's breaker open, the request itself, the log, and *)
(* after a failure the count that may open the breaker.  Each of these     *)
(* takes the mutex anew, so requests of a caller interleave between them.  *)
(*                                                                         *)
(* Time is relative: failures have an age, an open breaker has time left.  *)
(***************************************************************************)
EXTENDS Integers, FiniteSets, Functions, FiniteSetsExt

CONSTANTS
  Callers, Default,  \* the callers; the key of the default rule
  Clients,           \* the requests that may be under way at once
  RuleSet,           \* the rules that may be set
  MaxFailures,       \* where failures of one age stop being counted
  CrashBounds        \* how often the server may crash: one for each behaviour

Rule == [window : Nat \ {0}, threshold : Nat \ {0}, cooldown : Nat \ {0}]

ASSUME AuditAssumption ==
  /\ IsFiniteSet(RuleSet) /\ RuleSet \subseteq Rule /\ RuleSet /= {}
  /\ Default \notin Callers
  /\ MaxFailures \in Nat
  /\ \A r \in RuleSet : r.threshold <= MaxFailures
  /\ CrashBounds \subseteq Nat

VARIABLES
  bound,       \* how often the server may crash in this behaviour
  beat,        \* changes with every tick of the cooldown loop
  rules,       \* caller -> rule, in memory and in the table
  statuses,    \* caller -> its breaker, in memory
  statusRows,  \* caller -> its breaker, the table
  openRows,    \* caller -> history rows without an end
  failures,    \* caller -> age -> failed entries of the audit log
  calls,       \* client -> the request under way
  crashes,     \* crashes so far
  torn         \* caller -> those between the two rows of its breaker

vars == <<bound, beat, rules, statuses, statusRows, openRows, failures, calls, crashes, torn>>

MaxWindow == Max({r.window : r \in RuleSet})
MaxCooldown == Max({r.cooldown : r \in RuleSet})

\* A breaker: open with the time it has left (below zero: it is over) or closed.
Status == [open : BOOLEAN, left : -1..MaxCooldown]
Closed == [open |-> FALSE, left |-> 0]

Call == [pc : {"idle", "refused", "admitted", "failed"},
         caller : Callers \cup {Default}, triggers : BOOLEAN]
Idle == [pc |-> "idle", caller |-> Default, triggers |-> FALSE]

Put(f, x, v) == [y \in DOMAIN f \cup {x} |-> IF y = x THEN v ELSE f[y]]

IsOpen(ss, c) == c \in DOMAIN ss /\ ss[c].open

Expired(st) == st.open /\ st.left < 0

\* The callers whose breaker is open although its time is over.
Over(ss) == {c \in DOMAIN ss : Expired(ss[c])}

-----------------------------------------------------------------------------
\* A recovery that leaves the history as it is.
RecoverOnly(cs) ==
  /\ statuses' = [c \in DOMAIN statuses |-> IF c \in cs THEN Closed ELSE statuses[c]]
  /\ statusRows' = [c \in DOMAIN statusRows |-> IF c \in cs THEN Closed ELSE statusRows[c]]
  /\ UNCHANGED openRows

\* GetLatestOpenHistory and UpdateCircuitBreakerHistoryRecover: one of the
\* rows without an end, if there is one, gets one.
WithoutLatest(rows, cs) ==
  [c \in Callers |-> IF c \in cs THEN Max({0, rows[c] - 1}) ELSE rows[c]]

EndLatestHistory(cs) == openRows' = WithoutLatest(openRows, cs)

RecoverCircuitBreaker(cs) ==
  /\ statuses' = [c \in DOMAIN statuses |-> IF c \in cs THEN Closed ELSE statuses[c]]
  /\ EndLatestHistory(cs)
  /\ statusRows' = [c \in DOMAIN statusRows |-> IF c \in cs THEN Closed ELSE statusRows[c]]

\* The answer to a request under way, and the breaker closed when its time
\* is over.
IsCircuitBreakerOpen(c, answer) ==
  /\ answer = (IsOpen(statuses, c) /\ ~Expired(statuses[c]))
  /\ RecoverCircuitBreaker(Over(statuses) \cap {c})

AddAuditLog(c, success) ==
  failures' = IF success THEN failures
              ELSE [failures EXCEPT ![c][0] = Min({@ + 1, MaxFailures})]

\* A request that asks for the breaker first; triggers says if its failure
\* counts at once.
Enter(k, c, triggers) ==
  /\ calls[k] = Idle
  /\ \E refused \in BOOLEAN :
       /\ IsCircuitBreakerOpen(c, refused)
       /\ calls' = [calls EXCEPT ![k] = [pc |-> IF refused THEN "refused" ELSE "admitted",
                                         caller |-> c, triggers |-> triggers]]
  /\ UNCHANGED <<bound, beat, rules, failures, crashes, torn>>

AcquireLock(k, c) == Enter(k, c, TRUE)
RenewLock(k, c) == Enter(k, c, TRUE)
AcquireLocksBatch(k, c) == Enter(k, c, TRUE)
RequestTokens(k, c) == Enter(k, c, TRUE)
BorrowQuota(k, c) == Enter(k, c, TRUE)
AdjustQuota(k, c) == Enter(k, c, FALSE)

\* A refused request fails and is logged, but never opens a breaker itself.
Refuse(k) ==
  /\ calls[k].pc = "refused"
  /\ AddAuditLog(calls[k].caller, FALSE)
  /\ calls' = [calls EXCEPT ![k] = Idle]
  /\ UNCHANGED <<bound, beat, rules, statuses, statusRows, openRows, crashes, torn>>

\* The request is carried out and logged.
RecordAuditLog(k, success) ==
  /\ calls[k].pc = "admitted"
  /\ AddAuditLog(calls[k].caller, success)
  /\ calls' = [calls EXCEPT ![k] = IF ~success /\ calls[k].triggers
                                   THEN [@ EXCEPT !.pc = "failed"] ELSE Idle]
  /\ UNCHANGED <<bound, beat, rules, statuses, statusRows, openRows, crashes, torn>>

\* Requests that nothing holds back and whose failures are only logged.
LogOnly(c, success) ==
  /\ AddAuditLog(c, success)
  /\ UNCHANGED <<bound, beat, rules, statuses, statusRows, openRows, calls, crashes, torn>>

ReleaseLock(c, success) == LogOnly(c, success)
ReturnQuota(c, success) == LogOnly(c, success)

RuleFor(c) == IF c \in DOMAIN rules THEN c ELSE Default

CountFailuresInWindow(c, window) ==
  MapThenSumSet(LAMBDA age : failures[c][age], 0..window)

\* Has the caller, under its own or the default rule, failed often enough to
\* open a breaker that is closed?
Triggers(c) ==
  /\ RuleFor(c) \in DOMAIN rules
  /\ CountFailuresInWindow(c, rules[RuleFor(c)].window) >= rules[RuleFor(c)].threshold
  /\ ~IsOpen(statuses, c)

AddCircuitBreakerHistory(c) == openRows' = [openRows EXCEPT ![c] = @ + 1]

OpenFor(c) == [open |-> TRUE, left |-> rules[RuleFor(c)].cooldown]

\* A count that begins the cooldown anew with every failure.
CheckAndExtend(c) ==
  IF RuleFor(c) \in DOMAIN rules /\ (Triggers(c) \/ IsOpen(statuses, c))
  THEN /\ statuses' = Put(statuses, c, OpenFor(c))
       /\ statusRows' = Put(statusRows, c, OpenFor(c))
       /\ openRows' = [openRows EXCEPT ![c] = IF Triggers(c) THEN @ + 1 ELSE @]
  ELSE UNCHANGED <<statuses, statusRows, openRows>>

CheckAndTriggerCircuitBreaker(c) ==
  IF Triggers(c)
  THEN /\ AddCircuitBreakerHistory(c)
       /\ statuses' = Put(statuses, c, OpenFor(c))
       /\ statusRows' = Put(statusRows, c, OpenFor(c))
  ELSE /\ UNCHANGED openRows
       /\ IF RuleFor(c) \in DOMAIN rules
          THEN LET st == IF c \in DOMAIN statuses THEN statuses[c] ELSE Closed
               IN /\ statuses' = Put(statuses, c, st)
                  /\ statusRows' = Put(statusRows, c, st)
          ELSE UNCHANGED <<statuses, statusRows>>

CountFailure(k) ==
  /\ calls[k].pc = "failed"
  /\ CheckAndTriggerCircuitBreaker(calls[k].caller)
  /\ calls' = [calls EXCEPT ![k] = Idle]
  /\ UNCHANGED <<bound, beat, rules, failures, crashes, torn>>

-----------------------------------------------------------------------------
SetCircuitBreakerRule(c, r) ==
  /\ rules' = Put(rules, c, r)
  /\ UNCHANGED <<bound, beat, statuses, statusRows, openRows, failures, calls, crashes, torn>>

DeleteCircuitBreakerRule(c) ==
  /\ rules' = Restrict(rules, DOMAIN rules \ {c})
  /\ UNCHANGED <<bound, beat, statuses, statusRows, openRows, failures, calls, crashes, torn>>

ManuallyCloseCircuitBreaker(c) ==
  /\ IsOpen(statuses, c)
  /\ RecoverCircuitBreaker({c})
  /\ UNCHANGED <<bound, beat, rules, failures, calls, crashes, torn>>

GetCircuitBreakerStatus(c) ==
  /\ RecoverCircuitBreaker(Over(statuses) \cap {c})
  /\ UNCHANGED <<bound, beat, rules, failures, calls, crashes, torn>>

ListOpenCircuitBreakers ==
  /\ RecoverCircuitBreaker(Over(statuses))
  /\ UNCHANGED <<bound, beat, rules, failures, calls, crashes, torn>>

\* A tick that passes over callers without a rule.
CheckRuledOnly ==
  /\ beat' = ~beat
  /\ RecoverCircuitBreaker({c \in Over(statuses) : RuleFor(c) \in DOMAIN rules})
  /\ UNCHANGED <<bound, rules, failures, calls, crashes, torn>>

\* The tick of one second.
CheckCooldownExpiry ==
  /\ beat' = ~beat
  /\ RecoverCircuitBreaker(Over(statuses))
  /\ UNCHANGED <<bound, rules, failures, calls, crashes, torn>>

-----------------------------------------------------------------------------

\* The breakers a start keeps in memory: one that is over it only recovers.
LoadStatuses(rows) == Restrict(rows, DOMAIN rows \ Over(rows))

\* A start that finds these rows without an end in the history.
StartWith(rows) ==
  /\ statuses' = LoadStatuses(statusRows)
  /\ openRows' = WithoutLatest(rows, Over(statusRows))
  /\ statusRows' = [c \in DOMAIN statusRows |-> IF c \in Over(statusRows) THEN Closed
                                                ELSE statusRows[c]]
  /\ calls' = [k \in Clients |-> Idle]
  /\ UNCHANGED <<bound, beat, rules, failures>>

Restart == StartWith(openRows)

\* A stop when no request is under way.
StopAndStart ==
  /\ \A k \in Clients : calls[k] = Idle
  /\ Restart
  /\ UNCHANGED <<crashes, torn>>

Crash ==
  /\ crashes < bound
  /\ crashes' = crashes + 1
  /\ Restart
  /\ UNCHANGED torn

\* A crash after a row of the history is written and before the status is.
CrashBetween(c, rows) ==
  /\ crashes < bound
  /\ crashes' = crashes + 1
  /\ torn' = [torn EXCEPT ![c] = @ + 1]
  /\ StartWith(rows)

\* In an opening: the history has a row for a breaker that did not open.
CrashInTrigger(k) ==
  LET c == calls[k].caller
  IN /\ calls[k].pc = "failed" /\ Triggers(c)
     /\ CrashBetween(c, [openRows EXCEPT ![c] = @ + 1])

\* In a recovery, by hand or because the breaker is over: it is open still,
\* and its row has an end.  Others that the same tick recovered before are
\* over, and the start recovers them if the tick did not.
CrashInRecovery(c) ==
  /\ IsOpen(statuses, c)
  /\ CrashBetween(c, WithoutLatest(openRows, {c}))

Later(ss) ==
  [c \in DOMAIN ss |-> IF ss[c].open THEN [ss[c] EXCEPT !.left = Max({-1, @ - 1})] ELSE ss[c]]

\* Failures grow older, up to the widest window; breakers have less time left.
TimePasses ==
  /\ failures' = [c \in Callers |->
                    [age \in 0..MaxWindow |-> IF age = 0 THEN 0 ELSE failures[c][age - 1]]]
  /\ statuses' = Later(statuses)
  /\ statusRows' = Later(statusRows)
  /\ UNCHANGED <<bound, beat, rules, openRows, calls, crashes, torn>>

EmptyTables ==
  /\ rules = <<>> /\ statusRows = <<>>
  /\ openRows = [c \in Callers |-> 0]
  /\ failures = [c \in Callers |-> [age \in 0..MaxWindow |-> 0]]

Init ==
  /\ bound \in CrashBounds
  /\ EmptyTables
  /\ beat = FALSE /\ crashes = 0 /\ torn = [c \in Callers |-> 0]
  /\ statuses = <<>>
  /\ calls = [k \in Clients |-> Idle]

\* The requests of the HTTP interface.
PostLock == \E k \in Clients, c \in Callers : AcquireLock(k, c)
PutLease == \E k \in Clients, c \in Callers : RenewLock(k, c)
PostLocks == \E k \in Clients, c \in Callers : AcquireLocksBatch(k, c)
PostTokens == \E k \in Clients, c \in Callers : RequestTokens(k, c)
PostBorrow == \E k \in Clients, c \in Callers : BorrowQuota(k, c)
PutQuota == \E k \in Clients, c \in Callers : AdjustQuota(k, c)
DeleteLock == \E c \in Callers, success \in BOOLEAN : ReleaseLock(c, success)
PostReturn == \E c \in Callers, success \in BOOLEAN : ReturnQuota(c, success)
PostRule == \E c \in Callers \cup {Default}, r \in RuleSet : SetCircuitBreakerRule(c, r)
DeleteRule == \E c \in DOMAIN rules : DeleteCircuitBreakerRule(c)
PostReset == \E c \in Callers : ManuallyCloseCircuitBreaker(c)
GetBreaker == \E c \in Callers : GetCircuitBreakerStatus(c)
GetOpenBreakers == ListOpenCircuitBreakers

Next ==
  \/ PostLock \/ PutLease \/ PostLocks \/ PostTokens \/ PostBorrow \/ PutQuota
  \/ DeleteLock \/ PostReturn
  \/ \E k \in Clients :
       \/ Refuse(k)
       \/ \E success \in BOOLEAN : RecordAuditLog(k, success)
       \/ CountFailure(k)
       \/ CrashInTrigger(k)
  \/ PostRule \/ DeleteRule \/ PostReset \/ GetBreaker \/ GetOpenBreakers
  \/ CheckCooldownExpiry
  \/ StopAndStart \/ Crash \/ \E c \in Callers : CrashInRecovery(c)
  \/ TimePasses

\* The ticker of one second never stops for good, and time goes on.
TickerRuns == []<>beat /\ []<>~beat

Spec == Init /\ [][Next]_vars /\ TickerRuns /\ WF_vars(TimePasses)

-----------------------------------------------------------------------------
\* The types of the maps and of the tables.
TypeOK ==
  /\ bound \in CrashBounds /\ crashes \in 0..bound /\ beat \in BOOLEAN
  /\ DOMAIN rules \subseteq Callers \cup {Default} /\ \A c \in DOMAIN rules : rules[c] \in RuleSet
  /\ \A ss \in {statuses, statusRows} :
       DOMAIN ss \subseteq Callers /\ \A c \in DOMAIN ss : ss[c] \in Status
  /\ openRows \in [Callers -> Nat] /\ torn \in [Callers -> Nat]
  /\ failures \in [Callers -> [0..MaxWindow -> 0..MaxFailures]]
  /\ calls \in [Clients -> Call]

\* The history agrees with the breakers: an open one has a row without an
\* end, a closed one has none, whatever requests, ticks, resets and starts
\* raced to open and close it.  The history is written before the status, so
\* a crash between the two leaves a row too many, in an opening, or one too
\* few, in a recovery; but one only, of that caller only, and no later step
\* makes the difference grow.
HistoryAgrees ==
  \A c \in Callers :
    LET open == IF IsOpen(statusRows, c) THEN 1 ELSE 0
    IN openRows[c] \in (open - torn[c])..(open + torn[c])

\* Memory is what the table says, so a crash loses no breaker: those that are
\* missing in memory are closed.
TableAgrees ==
  /\ \A c \in DOMAIN statuses : c \in DOMAIN statusRows /\ statuses[c] = statusRows[c]
  /\ \A c \in DOMAIN statusRows \ DOMAIN statuses : ~statusRows[c].open

ClosedByHand(c) == ManuallyCloseCircuitBreaker(c)

\* Neither a start nor a request closes a breaker whose time is not over:
\* only a reset by hand does.
CooldownIsServed ==
  [][\A c \in Callers :
       IsOpen(statusRows, c) /\ ~IsOpen(statuses', c) =>
         Expired(statusRows[c]) \/ ClosedByHand(c)]_vars

\* Requests that were admitted before a breaker opened and fail after it, and
\* requests it refuses, do not make it stay open longer; new rules neither.
CooldownIsNotExtended ==
  [][\A c \in Callers :
       IsOpen(statusRows, c) /\ IsOpen(statusRows', c) =>
         statusRows'[c].left <= statusRows[c].left]_vars

\* No breaker stays open for ever, whatever its caller goes on asking for and
\* however often the server starts.
BreakersClose ==
  \A c \in Callers : IsOpen(statusRows, c) ~> ~IsOpen(statusRows, c)

\* Memory and table agree about every breaker, a crash or not, and the history
\* with them but for one row for each crash between it and the status.
BreakersAreSound == TypeOK /\ HistoryAgrees /\ TableAgrees

\* A cooldown lasts as long as it was set for: nothing but a reset by hand
\* makes it shorter, nothing longer, and in the end the breaker is closed.
CooldownIsKept == CooldownIsServed /\ CooldownIsNotExtended /\ BreakersClose
=============================================================================
