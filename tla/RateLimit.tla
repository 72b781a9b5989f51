------------------------------ MODULE RateLimit ------------------------------
(***************************************************************************)
(* The rate limiter (internal/ratelimit): callers are bound to a policy    *)
(* and use up tokens, lend quota to each other, reserve tokens for a time  *)
(* and wait in a queue when they have none left.  One mutex covers every   *)
(* operation, so every operation is one action; the maps in memory and the *)
(* tables are kept apart because a restart reads the tables back.          *)
(*                                                                         *)
(* How much of the used quota has come back since the last look depends on *)
(* the policy's algorithm and on the time that passed; all a property can  *)
(* tell is that it never grows by itself, so any smaller value may be met. *)
(***************************************************************************)
EXTENDS Rows, SequencesExt, FiniteSetsExt

CONSTANTS
  Callers, Policies,
  Algorithm,        \* the algorithm of each policy
  MaxTokens,        \* the maximum of each policy
  Bounds            \* the bounds a behaviour may keep to

Algorithms == {"fixed_window", "token_bucket", "sliding_window"}
ReservationStatuses == {"pending", "active", "completed", "cancelled"}

\* What a behaviour keeps to: the end of its clock, the requests that ever
\* wait, the reservations and loans ever made, the amounts asked for, who asks.
BoundSet == [time : Nat, items : Nat, reservations : Nat, borrows : Nat,
             amounts : SUBSET (Nat \ {0}), callers : SUBSET Callers]

ASSUME RateLimitAssumption ==
  /\ Algorithm \in [Policies -> Algorithms]
  /\ MaxTokens \in [Policies -> Nat \ {0}]
  /\ Bounds \subseteq BoundSet

VARIABLES
  bound,            \* the bounds of this behaviour: they never change
  beat,             \* changes with every tick of the refill loop
  now,              \* the clock
  policies,         \* the policies created so far, in memory and in the table
  bindings,         \* caller -> binding, in memory
  bindingRows,      \* caller -> binding, the table
  waitQueue,        \* the waiting requests in memory, oldest first
  queueRows,        \* the waiting requests in the table
  lastItem,         \* the last id that table gave (AUTOINCREMENT)
  reservations,     \* id -> reservation, in memory
  reservationRows,  \* the reservations in the table, by id
  borrowRows        \* the loans in the table, by id

quotaVars == <<bound, beat, now, policies, bindings, bindingRows, waitQueue, queueRows,
               lastItem, reservations, reservationRows, borrowRows>>

Binding == [policy : Policies, quota : Nat, used : Nat, borrowed : Nat,
            lent : Nat, reserved : Nat]
WaitItem == [id : Nat, caller : Callers, tokens : Nat, timeout : Nat]
Reservation == [policy : Policies, caller : Callers, tokens : Nat,
                start : Nat, end : Nat, status : ReservationStatuses]
BorrowRecord == [from : Callers, to : Callers, amount : Nat,
                 status : {"active", "returned"}]

Live == {"pending", "active"}
IsPartial(f, S, T) == DOMAIN f \subseteq S /\ \A x \in DOMAIN f : f[x] \in T

-----------------------------------------------------------------------------
\* What a caller may use in all: its quota up to the policy's maximum, what
\* it borrowed and reserved on top, what it lent taken off, never below zero.
EffectiveLimit(b) ==
  Max({0, Min({b.quota, MaxTokens[b.policy]}) + b.borrowed - b.lent + b.reserved})

Remaining(b) == Max({0, EffectiveLimit(b) - b.used})

Clamp(b) == [b EXCEPT !.used = Min({b.used, EffectiveLimit(b)})]

\* The used quota after the time that passed: a fixed window ends or does
\* not, the other two give back any part of it.
Decay(b) ==
  IF Algorithm[b.policy] = "fixed_window" THEN {0, b.used} ELSE 0..b.used

\* The same look when the tables are read after a start.
Reconcile(b) ==
  {[b EXCEPT !.used = u] : u \in Decay(b)}

Refreshed(bs, cs) ==
  {f \in [DOMAIN bs -> UNION {Reconcile(bs[c]) : c \in DOMAIN bs}] :
     \A c \in DOMAIN bs : f[c] \in IF c \in cs THEN Reconcile(bs[c]) ELSE {bs[c]}}

\* UPDATE rl_caller_bindings: the row of one caller.
UpdateCallerBinding(rows, c, b) == [rows EXCEPT ![c] = b]

Save(c, b) ==
  /\ bindings' = [bindings EXCEPT ![c] = b]
  /\ bindingRows' = UpdateCallerBinding(bindingRows, c, b)

-----------------------------------------------------------------------------
CreatePolicy(p) ==
  /\ p \notin policies
  /\ policies' = policies \cup {p}
  /\ UNCHANGED <<bound, beat, now, bindings, bindingRows, waitQueue, queueRows, lastItem, reservations,
                 reservationRows, borrowRows>>

\* A second binding of a caller starts from zero: what it borrowed, lent and
\* reserved is forgotten.
BindCaller(c, p, n) ==
  LET b == [policy |-> p, quota |-> Min({n, MaxTokens[p]}), used |-> 0,
            borrowed |-> 0, lent |-> 0, reserved |-> 0]
  IN /\ p \in policies
     /\ bindings' = [x \in DOMAIN bindings \cup {c} |-> IF x = c THEN b ELSE bindings[x]]
     /\ bindingRows' =
          [x \in DOMAIN bindingRows \cup {c} |-> IF x = c THEN b ELSE bindingRows[x]]
     /\ UNCHANGED <<bound, beat, now, policies, waitQueue, queueRows, lastItem, reservations,
                    reservationRows, borrowRows>>

\* INSERT INTO rl_wait_queue, which gives the item its id, and the queue.
AddWaitItem(c, n, t) ==
  LET item == [id |-> lastItem + 1, caller |-> c, tokens |-> n, timeout |-> t]
  IN /\ lastItem < bound.items
     /\ lastItem' = lastItem + 1
     /\ waitQueue' = Append(waitQueue, item)
     /\ queueRows' = queueRows \cup {item}

RequestTokens(c, n) ==
  \E b \in Reconcile(bindings[c]) :
    /\ \/ /\ Remaining(b) >= n
          /\ Save(c, [b EXCEPT !.used = @ + n])
          /\ UNCHANGED <<waitQueue, queueRows, lastItem>>
       \/ /\ Remaining(b) < n
          /\ Save(c, b)
          /\ UNCHANGED <<waitQueue, queueRows, lastItem>>
       \/ /\ Remaining(b) < n
          /\ Save(c, b)
          /\ \E t \in (now + 1)..bound.time : AddWaitItem(c, n, t)
    /\ UNCHANGED <<bound, beat, now, policies, reservations, reservationRows, borrowRows>>

ReturnTokens(c, n) ==
  /\ \E b \in Reconcile(bindings[c]) : Save(c, [b EXCEPT !.used = Max({0, @ - n})])
  /\ UNCHANGED <<bound, beat, now, policies, waitQueue, queueRows, lastItem, reservations, reservationRows,
                 borrowRows>>

AdjustQuota(c, n) ==
  /\ \E b \in Reconcile(bindings[c]) : Save(c, Clamp([b EXCEPT !.quota = n]))
  /\ UNCHANGED <<bound, beat, now, policies, waitQueue, queueRows, lastItem, reservations, reservationRows,
                 borrowRows>>

-----------------------------------------------------------------------------
CreateBorrowRecord(f, t, n) ==
  borrowRows' = Append(borrowRows, [from |-> f, to |-> t, amount |-> n, status |-> "active"])

\* The tables when only the first of the two rows of a loan is written.  An
\* error of the second leaves it like this, and with a crash right after the
\* error this is also the crash between the two.
HalfWrittenBack(f, t, after) == UpdateCallerBinding(bindingRows, t, after[t])

HalfWritten(f, t, after) == UpdateCallerBinding(bindingRows, f, after[f])

BothWritten(f, t, after) == UpdateCallerBinding(HalfWritten(f, t, after), t, after[t])

\* f lends n to t.  A refusal still keeps the refreshed use in memory, and an
\* error of any of the three writes takes the loan back there and only there.
BorrowQuota(f, t, n) ==
  /\ Len(borrowRows) < bound.borrows
  /\ \E bs \in Refreshed(bindings, {f, t}) :
       LET moved == [bs EXCEPT ![f].lent = @ + n, ![t].borrowed = @ + n]
           after == [moved EXCEPT ![f] = Clamp(@)]
       IN \/ bindings' = bs /\ UNCHANGED <<bindingRows, borrowRows>>
          \/ /\ Remaining(bs[f]) >= n
             /\ bindings' = bs
             /\ bindingRows' \in {bindingRows, HalfWritten(f, t, after)}
             /\ CreateBorrowRecord(f, t, n)
          \/ /\ Remaining(bs[f]) >= n
             /\ bindings' = after
             /\ bindingRows' = BothWritten(f, t, after)
             /\ CreateBorrowRecord(f, t, n)
  /\ UNCHANGED <<bound, beat, now, policies, waitQueue, queueRows, lastItem, reservations, reservationRows>>

\* The first active loan from f to t of that amount becomes "returned".  The
\* borrower is f here and was t when the loan was made.
ReturnBorrow(f, t, n) ==
  LET open == {i \in DOMAIN borrowRows :
                 borrowRows[i] = [from |-> f, to |-> t, amount |-> n, status |-> "active"]}
  IN borrowRows' = IF open = {} THEN borrowRows
                   ELSE [borrowRows EXCEPT ![Min(open)].status = "returned"]

\* f gives n back to t; the first row is the borrower's here.
ReturnQuota(f, t, n) ==
  /\ bindings[f].borrowed >= n
  /\ bindings[t].lent >= n
  /\ LET moved == [bindings EXCEPT ![f].borrowed = @ - n, ![t].lent = @ - n]
         after == [moved EXCEPT ![f] = Clamp(@)]
     IN \/ /\ bindings' = bindings
           /\ bindingRows' \in {bindingRows, HalfWritten(f, t, after)}
        \/ /\ bindings' = after
           /\ bindingRows' = BothWritten(f, t, after)
  /\ ReturnBorrow(f, t, n)
  /\ UNCHANGED <<bound, beat, now, policies, waitQueue, queueRows, lastItem, reservations, reservationRows>>

-----------------------------------------------------------------------------
\* The tokens reserved at an instant by the reservations that count.
TokensOf(rs, ids) == SumFunctionOnSet([i \in DOMAIN rs |-> rs[i].tokens], ids)

ReservedAt(t, rs) ==
  TokensOf(rs, {i \in DOMAIN rs : rs[i].start <= t /\ t < rs[i].end})

\* The highest level the sweep can meet: events of the same instant are in
\* any order, so an end may be counted after a beginning of that instant.
HighestSweep(rs) ==
  Max({TokensOf(rs, {i \in DOMAIN rs : rs[i].start <= t /\ t <= rs[i].end}) :
         t \in 0..bound.time})

\* A conflict check that looks at the new reservation's beginning only.
LowestAtStart(rs) == ReservedAt(now, rs)

LowestSweep(rs) == Max({ReservedAt(t, rs) : t \in 0..bound.time})

\* Do the reservations rs of policy p, the new one among them, ask for more
\* than the policy gives?  Where only the order decides, either answer.
Conflicts(p, rs) ==
  {x \in BOOLEAN : IF x THEN HighestSweep(rs) > MaxTokens[p]
                        ELSE LowestSweep(rs) <= MaxTokens[p]}

OfPolicy(p, rs) ==
  {i \in DOMAIN rs : rs[i].policy = p /\ rs[i].status \in Live}

CreateReservation(p, c, n, s, e) ==
  LET id == Len(reservationRows) + 1
      r == [policy |-> p, caller |-> c, tokens |-> n, start |-> s, end |-> e,
            status |-> IF s <= now THEN "active" ELSE "pending"]
      rs == [i \in DOMAIN reservations \cup {id} |-> IF i = id THEN r ELSE reservations[i]]
      b == [bindings[c] EXCEPT !.reserved = @ + n]
  IN /\ s < e /\ now <= e
     /\ p \in policies
     /\ n <= MaxTokens[p]
     /\ FALSE \in Conflicts(p, Restrict(rs, OfPolicy(p, rs)))
     /\ id <= bound.reservations
     /\ reservationRows' = Append(reservationRows, r)
     /\ reservations' = rs
     /\ IF r.status = "active" THEN Save(c, b) ELSE UNCHANGED <<bindings, bindingRows>>
     /\ UNCHANGED <<bound, beat, now, policies, waitQueue, queueRows, lastItem, borrowRows>>

\* A reservation's tokens are taken back, never more than there are.
Unreserve(b, n) == Clamp([b EXCEPT !.reserved = Max({0, @ - n})])

UpdateReservationStatus(rows, id, s) == [rows EXCEPT ![id].status = s]

\* A cancellation that takes the tokens of a reservation not yet begun.
CancelAny(id) ==
  LET r == reservations[id]
  IN /\ r.status \in Live
     /\ IF r.caller \in DOMAIN bindings
        THEN Save(r.caller, Unreserve(bindings[r.caller], r.tokens))
        ELSE UNCHANGED <<bindings, bindingRows>>
     /\ reservations' = UpdateReservationStatus(reservations, id, "cancelled")
     /\ reservationRows' = UpdateReservationStatus(reservationRows, id, "cancelled")
     /\ UNCHANGED <<bound, beat, now, policies, waitQueue, queueRows, lastItem, borrowRows>>

CancelReservation(id) ==
  LET r == reservations[id]
  IN /\ r.status \in Live
     /\ IF r.status = "active" /\ r.caller \in DOMAIN bindings
        THEN Save(r.caller, Unreserve(bindings[r.caller], r.tokens))
        ELSE UNCHANGED <<bindings, bindingRows>>
     /\ reservations' = UpdateReservationStatus(reservations, id, "cancelled")
     /\ reservationRows' = UpdateReservationStatus(reservationRows, id, "cancelled")
     /\ UNCHANGED <<bound, beat, now, policies, waitQueue, queueRows, lastItem, borrowRows>>

-----------------------------------------------------------------------------
\* The state the ticks work on: bindings and reservations, each in memory
\* and in its table.
Books(bs, brs, rs, rrs) == [b |-> bs, bRows |-> brs, r |-> rs, rRows |-> rrs]

WriteBinding(k, c, b) ==
  [k EXCEPT !.b[c] = b, !.bRows = UpdateCallerBinding(@, c, b)]

WriteStatus(k, id, s) ==
  [k EXCEPT !.r = UpdateReservationStatus(@, id, s),
            !.rRows = UpdateReservationStatus(@, id, s)]

\* A reservation that begins gives its tokens to the caller's binding.
ActivateReservation(k, id) ==
  LET r == k.r[id]
  IN IF r.caller \in DOMAIN k.b
     THEN WriteStatus(WriteBinding(k, r.caller, [k.b[r.caller] EXCEPT !.reserved = @ + r.tokens]),
                      id, "active")
     ELSE WriteStatus(k, id, "cancelled")

\* A completion that is never carried out.
CompleteLater(k, id) == k

CompleteReservation(k, id) ==
  LET r == k.r[id]
  IN WriteStatus(IF r.caller \in DOMAIN k.b
                 THEN WriteBinding(k, r.caller, Unreserve(k.b[r.caller], r.tokens))
                 ELSE k,
                 id, "completed")

ProcessReservation(k, id) ==
  LET begun == IF k.r[id].status = "pending" /\ k.r[id].start <= now
               THEN ActivateReservation(k, id) ELSE k
  IN IF begun.r[id].status = "active" /\ begun.r[id].end <= now
     THEN CompleteReservation(begun, id) ELSE begun

ProcessInOrder(k, order) == FoldLeft(ProcessReservation, k, order)

\* Every reservation once, in the order the map is walked: any.
ProcessReservations(k) == {ProcessInOrder(k, order) : order \in SetToSeqs(DOMAIN k.r)}

\* A look at the callers cs (one, or all of them): what begins or ends is written, what came back
\* by itself is not.
GetCallerStatus(cs) ==
  \E k \in ProcessReservations(Books(bindings, bindingRows, reservations, reservationRows)) :
    /\ bindings' \in Refreshed(k.b, cs)
    /\ bindingRows' = k.bRows
    /\ reservations' = k.r
    /\ reservationRows' = k.rRows
    /\ UNCHANGED <<bound, beat, now, policies, waitQueue, queueRows, lastItem, borrowRows>>

\* Requests wait no longer than they said.
CleanupExpired(q) == Keep(q, {i \in DOMAIN q : q[i].timeout > now})

\* One request of the queue: granted and its row removed, or kept.
TryGrant(g, item) ==
  LET b == g.k.b[item.caller]
  IN IF Remaining(b) >= item.tokens
     THEN [g EXCEPT !.k = WriteBinding(@, item.caller, [b EXCEPT !.used = @ + item.tokens])]
     ELSE [g EXCEPT !.keep = Append(@, item)]

\* A queue that is walked from its end.
GrantFromTheEnd(k, q) ==
  LET g == FoldLeft(TryGrant, [k |-> k, keep |-> <<>>], Reverse(q))
  IN [g EXCEPT !.keep = Reverse(@)]

TryGrantFromQueue(k, q) == FoldLeft(TryGrant, [k |-> k, keep |-> <<>>], q)

Ids(q) == {q[i].id : i \in DOMAIN q}

RemoveWaitItems(rows, ids) == {row \in rows : row.id \notin ids}

\* The tick of 500ms.  When it has changed anything it writes every binding,
\* and only then what came back by itself reaches the table.
RefillTick ==
  /\ beat' = ~beat
  /\ UNCHANGED <<bound, now, policies, lastItem, borrowRows>>
  /\ \E k \in ProcessReservations(Books(bindings, bindingRows, reservations, reservationRows)) :
     \E bs \in Refreshed(k.b, DOMAIN k.b) :
     \E g \in {TryGrantFromQueue([k EXCEPT !.b = bs], CleanupExpired(waitQueue))} :
     \E dirty \in BOOLEAN :
          /\ g.k.b /= bindings \/ g.k.r /= reservations => dirty
          /\ bindings' = g.k.b
          /\ bindingRows' = IF dirty THEN g.k.b ELSE g.k.bRows
          /\ reservations' = g.k.r
          /\ reservationRows' = g.k.rRows
          /\ waitQueue' = g.keep
          /\ queueRows' = RemoveWaitItems(queueRows, Ids(waitQueue) \ Ids(g.keep))

-----------------------------------------------------------------------------
\* What a start reads back.  Requests whose time is over are skipped and
\* their rows stay; a reservation that ended while nobody looked is completed
\* in memory only, and its tokens stay in the binding.
LoadBindings(rows) == Refreshed(rows, DOMAIN rows)

LoadWaitQueue(rows) ==
  LET late == {row \in rows : row.timeout > now}
      ids == {row.id : row \in late}
  IN [n \in 1..Cardinality(ids) |-> CHOOSE row \in late : row.id = Nth(ids, n)]

LoadReservations(rows) ==
  [id \in {i \in DOMAIN rows : rows[i].status \in Live} |->
     IF rows[id].status = "active" /\ rows[id].end < now
     THEN [rows[id] EXCEPT !.status = "completed"] ELSE rows[id]]

\* A stop writes every binding first; a crash does not.
RestartLimiter(stopped) ==
  LET rows == IF stopped THEN bindings ELSE bindingRows
  IN /\ bindings' \in LoadBindings(rows)
     /\ bindingRows' = rows
     /\ waitQueue' = LoadWaitQueue(queueRows)
     /\ reservations' = LoadReservations(reservationRows)
     /\ UNCHANGED <<bound, beat, now, policies, queueRows, lastItem, reservationRows, borrowRows>>

TimePasses ==
  /\ now < bound.time
  /\ now' = now + 1
  /\ UNCHANGED <<bound, beat, policies, bindings, bindingRows, waitQueue, queueRows, lastItem,
                 reservations, reservationRows, borrowRows>>

EmptyTables ==
  /\ policies = {}
  /\ bindingRows = <<>> /\ borrowRows = <<>>
  /\ queueRows = {} /\ lastItem = 0
  /\ reservationRows = <<>>

QuotaInit ==
  /\ bound \in Bounds
  /\ beat = FALSE /\ now = 0
  /\ EmptyTables
  /\ bindings = <<>> /\ waitQueue = <<>> /\ reservations = <<>>

BoundCallers == DOMAIN bindings

\* The requests of the HTTP interface, with the values it lets through.
PostPolicy == \E p \in Policies : CreatePolicy(p)

PostCaller ==
  \E c \in bound.callers, p \in Policies, n \in bound.amounts : BindCaller(c, p, n)

PostTokens == \E c \in BoundCallers, n \in bound.amounts : RequestTokens(c, n)

\* Only a transaction that is rolled back or released returns tokens.
GiveTokensBack == \E c \in BoundCallers, n \in bound.amounts : ReturnTokens(c, n)

PutQuota == \E c \in BoundCallers, n \in bound.amounts \cup {0} : AdjustQuota(c, n)

PostBorrow == \E f, t \in BoundCallers, n \in bound.amounts : BorrowQuota(f, t, n)

PostReturn == \E f, t \in BoundCallers, n \in bound.amounts : ReturnQuota(f, t, n)

PostReservation ==
  \E p \in Policies, c \in BoundCallers, n \in bound.amounts, s, e \in 0..bound.time :
    CreateReservation(p, c, n, s, e)

DeleteReservation == \E id \in DOMAIN reservations : CancelReservation(id)

GetCaller == \E c \in BoundCallers : GetCallerStatus({c})

ListCallers == GetCallerStatus(BoundCallers)

QuotaNext ==
  \/ PostPolicy \/ PostCaller \/ PostTokens \/ GiveTokensBack \/ PutQuota
  \/ PostBorrow \/ PostReturn \/ PostReservation \/ DeleteReservation
  \/ GetCaller \/ ListCallers
  \/ RefillTick
  \/ \E stopped \in BOOLEAN : RestartLimiter(stopped)
  \/ TimePasses

\* The ticker never stops for good while there is a server (a tick is always
\* possible: to be fair to it is to see the beat change for ever), and time
\* goes on.
TickerRuns == []<>beat /\ []<>~beat

QuotaSpec == QuotaInit /\ [][QuotaNext]_quotaVars /\ TickerRuns /\ WF_quotaVars(TimePasses)

-----------------------------------------------------------------------------
\* The types of the maps and of the tables.
QuotaTypes ==
  /\ bound \in Bounds /\ beat \in BOOLEAN
  /\ now \in 0..bound.time
  /\ policies \subseteq Policies
  /\ IsPartial(bindings, Callers, Binding)
  /\ IsPartial(bindingRows, Callers, Binding)
  /\ waitQueue \in Seq(WaitItem) /\ queueRows \subseteq WaitItem
  /\ lastItem \in 0..bound.items
  /\ IsPartial(reservations, 1..bound.reservations, Reservation)
  /\ reservationRows \in Seq(Reservation)
  /\ borrowRows \in Seq(BorrowRecord)

\* However quota is lent, borrowed, reserved, adjusted and taken back, nobody
\* has used more than its present limit: not in memory, and not in what the
\* next start would read.
UsedWithinLimit ==
  \A bs \in {bindings, bindingRows} : \A c \in DOMAIN bs :
    bs[c].used <= EffectiveLimit(bs[c])

\* The reservations of a policy that hold at one instant never add up to more
\* than the policy has, whatever was created, cancelled, completed or read
\* back in between.
NoOverbooking ==
  \A p \in Policies, t \in now..bound.time :
    ReservedAt(t, Restrict(reservations, OfPolicy(p, reservations))) <= MaxTokens[p]

\* A waiting request in memory has its row, so a crash loses none of them,
\* and the queue is in the order of arrival.
QueueIsInTable ==
  /\ Range(waitQueue) \subseteq queueRows
  /\ \A i, j \in DOMAIN waitQueue : i < j => waitQueue[i].id < waitQueue[j].id

ActiveTokens(c) ==
  TokensOf(reservations, {i \in DOMAIN reservations :
                            reservations[i].caller = c /\ reservations[i].status = "active"})

Covered(c) == c \in BoundCallers /\ bindings[c].reserved >= ActiveTokens(c)

Rebound(c) == \E p \in Policies, n \in bound.amounts : BindCaller(c, p, n)

\* What a caller's active reservations promise stays in its binding through
\* every completion, cancellation and restart, of its own and of others, and
\* only a new binding forgets it.
ReservationsStayCovered ==
  [][\A c \in BoundCallers : Covered(c) => Rebound(c) \/ Covered(c)']_quotaVars

Net(b) == b.borrowed - b.lent

NetBorrowed(bs) == SumFunction([c \in DOMAIN bs |-> Net(bs[c])])

\* No row promises its caller more than memory does, whichever of the two
\* rows of a loan or of its return was never written.
RowsPromiseNoMore ==
  \A c \in DOMAIN bindings : Net(bindingRows[c]) <= Net(bindings[c])

\* Quota is moved, not made: while the limiter runs what is borrowed and what
\* is lent change by the same amount, an error in the middle of a loan or of
\* its return included, unless a caller is bound anew; a stop keeps the
\* balance too, and a crash can only lose quota.
QuotaIsMoved ==
  [][\/ \E c \in Callers : Rebound(c)
     \/ NetBorrowed(bindings') = NetBorrowed(bindings)
     \/ RestartLimiter(FALSE) /\ NetBorrowed(bindings') < NetBorrowed(bindings)]_quotaVars

\* The tick never passes over a request to serve a later one of the same
\* caller that asks for at least as much.
QueueIsFair ==
  [][\A i, j \in DOMAIN waitQueue :
       /\ i < j
       /\ waitQueue[i].caller = waitQueue[j].caller
       /\ waitQueue[i].tokens <= waitQueue[j].tokens
       /\ waitQueue[j].timeout > now'
       /\ waitQueue[j].id \notin Ids(waitQueue')
       => waitQueue[i].id \notin Ids(waitQueue')]_quotaVars

\* Every waiting request is served or given up, restarts or not.
WaitsEnd ==
  \A id \in UNION {1..k.items : k \in Bounds} : id \in Ids(waitQueue) ~> id \notin Ids(waitQueue)

\* Every reservation that has begun ends: its tokens do not stay promised.
ReservationsEnd ==
  \A id \in UNION {1..k.reservations : k \in Bounds} :
    (id \in DOMAIN reservations /\ reservations[id].status = "active")
      ~> (id \in DOMAIN reservations => reservations[id].status /= "active")

\* Quota and queue are sound at all times: no use beyond a limit, no policy
\* booked beyond what it has, no row that promises quota memory has taken back,
\* and every waiting request in its row.
QuotaIsSound ==
  QuotaTypes /\ UsedWithinLimit /\ NoOverbooking /\ RowsPromiseNoMore /\ QueueIsInTable

\* What a caller was promised it keeps, and no longer: its reservations stay
\* covered and end, and it borrows no more than others lend.
PromisesAreKept == ReservationsStayCovered /\ QuotaIsMoved /\ ReservationsEnd

\* Every waiting request is served or given up in the end, none before an
\* earlier one of its caller that asks for no more.
QueueIsServed == QueueIsFair /\ WaitsEnd
=============================================================================
