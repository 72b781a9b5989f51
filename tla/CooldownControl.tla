--------------------------- MODULE CooldownControl ---------------------------
(***************************************************************************)
(* The cooldown of one hot lock (internal/heatmap/manager.go) and the two  *)
(* mutexes it needs: that of the heatmap and that of the lock manager,     *)
(* which calls back into the heatmap while it holds its own.               *)
(*                                                                         *)
(* A controller starts and stops cooldowns: the background loop, or a      *)
(* request that does so by hand.  A client is a request to the lock        *)
(* manager; Boot is the start of the server.  When a lock counts as hot is *)
(* left open.                                                              *)
(***************************************************************************)
EXTENDS Integers, Sequences, FiniteSetsExt, WaitGraph

CONSTANTS
  Controllers, Clients, Boot,
  Loop,          \* the controller that is the background loop
  Nobody,        \* a mutex that is free
  MaxRows,       \* bound on the cooldowns started
  Restarts       \* whether the server may restart

Procs == Controllers \cup Clients \cup {Boot}

ASSUME CooldownAssumption ==
  /\ MaxRows \in Nat /\ Restarts \in BOOLEAN
  /\ Nobody \notin Procs /\ Boot \notin Controllers \cup Clients
  /\ Controllers \cap Clients = {}

VARIABLES
  rows,          \* lock_cooldown_states: status and trigger of each row of the lock
  accelerated,   \* whether the lock manager limits grants of the lock
  lockMu,        \* who holds lock.Manager.mu
  heatMu,        \* who holds heatmap.Manager.mu
  pc,            \* where each process is
  row,           \* the row each process read
  counted,       \* the row whose leases_shortened it is about to write
  crossed        \* history: whether a stop met another stop, or a start, since the boot

vars == <<rows, accelerated, lockMu, heatMu, pc, row, counted, crossed>>

Goto(p, label) == pc' = [pc EXCEPT ![p] = label]
Serving == pc[Boot] = "idle"

ActiveRows == {i \in DOMAIN rows : rows[i].status = "active"}
ActiveRow == IF ActiveRows = {} THEN 0 ELSE Max(ActiveRows)

(* The controllers whose start has inserted its row and is not yet through. *)
Starting == {p \in Controllers : pc[p] \in {"shorten", "count", "counting", "note", "grant"}}
Clearing == {p \in Controllers : pc[p] = "clear"}

(* UpsertCooldownState of a row read before: one active row at most is let   *)
(* in by the index of the table, and the error is only logged.               *)
WriteActive(r) ==
  rows' = IF ActiveRows \subseteq {r} THEN [rows EXCEPT ![r].status = "active"] ELSE rows

-----------------------------------------------------------------------------
(* startCooldown and ManualStartCooldown *)

StartCooldown(p) ==
  /\ Serving /\ pc[p] = "idle" /\ ActiveRow = 0 /\ Len(rows) < MaxRows
  /\ Goto(p, "heat")
  /\ UNCHANGED <<rows, accelerated, lockMu, heatMu, row, counted, crossed>>

ReadHeat(p) ==
  /\ pc[p] = "heat" /\ heatMu = Nobody
  /\ Goto(p, "lease")
  /\ UNCHANGED <<rows, accelerated, lockMu, heatMu, row, counted, crossed>>

ReadLease(p) ==
  /\ pc[p] = "lease" /\ lockMu = Nobody
  /\ Goto(p, "insert")
  /\ UNCHANGED <<rows, accelerated, lockMu, heatMu, row, counted, crossed>>

InsertRow(p) ==
  /\ pc[p] = "insert"
  /\ IF ActiveRow = 0 /\ Len(rows) < MaxRows
     THEN /\ rows' = Append(rows, [status |-> "active", by |-> IF p = Loop THEN "auto" ELSE "manual"])
          /\ crossed' = (crossed \/ Clearing # {})
          /\ row' = [row EXCEPT ![p] = Len(rows) + 1]
          /\ \/ Goto(p, "shorten")
             \/ Goto(p, "grant")              \* there was no lease
     ELSE Goto(p, "idle") /\ UNCHANGED <<rows, row, crossed>>
  /\ UNCHANGED <<accelerated, lockMu, heatMu, counted>>

(* ShortenLease, as far as its call of IncrementLeaseShortenedCount; it      *)
(* fails when the lease is gone by now.                                      *)
Shorten(p) ==
  /\ pc[p] = "shorten" /\ lockMu = Nobody
  /\ \/ Goto(p, "count") /\ lockMu' = p
     \/ Goto(p, "grant") /\ UNCHANGED lockMu
  /\ UNCHANGED <<rows, accelerated, heatMu, row, counted, crossed>>

AfterCount(p) == IF p \in Controllers THEN "note" ELSE "idle"

(* IncrementLeaseShortenedCount: the row is read before the mutex is taken.  *)
ReadCount(p) ==
  /\ pc[p] = "count"
  /\ IF ActiveRow = 0
     THEN Goto(p, AfterCount(p)) /\ lockMu' = Nobody /\ UNCHANGED counted
     ELSE Goto(p, "counting") /\ counted' = [counted EXCEPT ![p] = ActiveRow] /\ UNCHANGED lockMu
  /\ UNCHANGED <<rows, accelerated, heatMu, row, crossed>>

WriteCount(p) ==
  /\ pc[p] = "counting" /\ heatMu = Nobody
  /\ WriteActive(counted[p])
  /\ Goto(p, AfterCount(p)) /\ lockMu' = Nobody
  /\ UNCHANGED <<accelerated, heatMu, row, counted, crossed>>

NoteShortened(p) ==
  /\ pc[p] = "note" /\ heatMu = Nobody
  /\ WriteActive(row[p])
  /\ Goto(p, "grant")
  /\ UNCHANGED <<accelerated, lockMu, heatMu, row, counted, crossed>>

(* A cooldown the loop started limits the grants if the configuration, which *)
(* a request may change at any time, says so now.                            *)
Accelerate(p) ==
  /\ pc[p] = "grant" /\ lockMu = Nobody
  /\ \E shouldAccelerate \in IF rows[row[p]].by = "manual" THEN {TRUE} ELSE BOOLEAN :
       accelerated' = (accelerated \/ shouldAccelerate)
  /\ Goto(p, "idle")
  /\ UNCHANGED <<rows, lockMu, heatMu, row, counted, crossed>>

-----------------------------------------------------------------------------
(* ManualStopCooldown, checkCooldown and stopCooldown *)

StopCooldown(p) ==
  /\ Serving /\ pc[p] = "idle" /\ ActiveRow # 0
  /\ row' = [row EXCEPT ![p] = ActiveRow]
  /\ Goto(p, "stop")
  /\ UNCHANGED <<rows, accelerated, lockMu, heatMu, counted, crossed>>

(* Another stop came first, or the start is not through.                     *)
Crossing(p) ==
  row[p] \notin ActiveRows \/ \E q \in Starting : row[q] = row[p]

(* Seeded fault: the mutex is given up before the lock manager is called.    *)
ResolveAndUnlock(p) ==
  /\ pc[p] = "stop" /\ heatMu = Nobody
  /\ rows' = [rows EXCEPT ![row[p]].status = "resolved"]
  /\ crossed' = (crossed \/ Crossing(p))
  /\ Goto(p, "clear")
  /\ UNCHANGED <<accelerated, lockMu, heatMu, row, counted>>

Resolve(p) ==
  /\ pc[p] = "stop" /\ heatMu = Nobody
  /\ rows' = [rows EXCEPT ![row[p]].status = "resolved"]
  /\ crossed' = (crossed \/ Crossing(p))
  /\ Goto(p, "clear") /\ heatMu' = p
  /\ UNCHANGED <<accelerated, lockMu, row, counted>>

Clear(p) ==
  /\ pc[p] = "clear" /\ lockMu = Nobody
  /\ accelerated' = FALSE
  /\ Goto(p, "idle") /\ heatMu' = IF heatMu = p THEN Nobody ELSE heatMu
  /\ UNCHANGED <<rows, lockMu, row, counted, crossed>>

-----------------------------------------------------------------------------
(* A request to the lock manager: it holds its mutex while the heatmap takes *)
(* note of the request and, when a grant is limited, counts it.              *)
AcquireLock(c) ==
  /\ Serving /\ pc[c] = "idle" /\ lockMu = Nobody
  /\ lockMu' = c
  /\ Goto(c, "request")
  /\ UNCHANGED <<rows, accelerated, heatMu, row, counted, crossed>>

RecordRequest(c) ==
  /\ pc[c] = "request" /\ heatMu = Nobody
  /\ \/ accelerated /\ Goto(c, "count") /\ UNCHANGED lockMu
     \/ Goto(c, "idle") /\ lockMu' = Nobody
  /\ UNCHANGED <<rows, accelerated, heatMu, row, counted, crossed>>

-----------------------------------------------------------------------------
(* The server starts: Manager.Start holds the mutex of the heatmap all the   *)
(* time.                                                                     *)
Restart ==
  /\ Restarts
  /\ accelerated' = FALSE /\ lockMu' = Nobody /\ heatMu' = Boot /\ crossed' = FALSE
  /\ pc' = [p \in Procs |-> IF p = Boot THEN "boot" ELSE "idle"]
  /\ UNCHANGED <<rows, row, counted>>

(* Seeded fault: the grants of a lock in cooldown are not limited again.     *)
RestoreRowOnly ==
  /\ pc[Boot] = "boot"
  /\ IF ActiveRow = 0 THEN Goto(Boot, "idle") /\ heatMu' = Nobody
                      ELSE Goto(Boot, "lengthy") /\ UNCHANGED heatMu
  /\ UNCHANGED <<rows, accelerated, lockMu, row, counted, crossed>>

Restore ==
  /\ pc[Boot] = "boot"
  /\ IF ActiveRow = 0
     THEN Goto(Boot, "idle") /\ heatMu' = Nobody /\ UNCHANGED accelerated
     ELSE Goto(Boot, "lengthy") /\ accelerated' = TRUE /\ UNCHANGED heatMu
  /\ UNCHANGED <<rows, lockMu, row, counted, crossed>>

(* A lease longer than the cooldown is shortened. *)
RestoreLease ==
  /\ pc[Boot] = "lengthy"
  /\ \/ Goto(Boot, "count") /\ lockMu' = Boot /\ UNCHANGED heatMu
     \/ Goto(Boot, "idle") /\ heatMu' = Nobody /\ UNCHANGED lockMu
  /\ UNCHANGED <<rows, accelerated, row, counted, crossed>>

-----------------------------------------------------------------------------
Init ==
  /\ rows = << >> /\ accelerated = FALSE
  /\ lockMu = Nobody /\ heatMu = Nobody /\ crossed = FALSE
  /\ pc = [p \in Procs |-> "idle"]
  /\ row = [p \in Procs |-> 0] /\ counted = [p \in Procs |-> 0]

Next ==
  \/ \E p \in Controllers :
       \/ StartCooldown(p) \/ ReadHeat(p) \/ ReadLease(p) \/ InsertRow(p)
       \/ Shorten(p) \/ NoteShortened(p) \/ Accelerate(p)
       \/ StopCooldown(p) \/ Resolve(p) \/ Clear(p)
  \/ \E c \in Clients : AcquireLock(c) \/ RecordRequest(c)
  \/ \E p \in Procs : ReadCount(p) \/ WriteCount(p)
  \/ Restart \/ Restore \/ RestoreLease

Spec == Init /\ [][Next]_vars

-----------------------------------------------------------------------------
TypeOK ==
  /\ rows \in Seq([status : {"active", "resolved"}, by : {"auto", "manual"}]) /\ Len(rows) <= MaxRows
  /\ accelerated \in BOOLEAN /\ crossed \in BOOLEAN
  /\ lockMu \in Procs \cup {Nobody} /\ heatMu \in Procs \cup {Nobody}
  /\ row \in [Procs -> 0 .. MaxRows] /\ counted \in [Procs -> 0 .. MaxRows]

(* Whenever nobody is at work on the cooldown, the lock manager limits the   *)
(* grants of the lock only if the table says it is in cooldown, and it does  *)
(* so if the cooldown was started by hand.                                   *)
Settled == \A p \in Controllers \cup {Boot} : pc[p] = "idle"
AccelerationFollowsRow ==
  Settled => /\ accelerated => ActiveRow # 0
             /\ ActiveRow # 0 /\ rows[ActiveRow].by = "manual" => accelerated

(* The table of cooldowns and the limits the lock manager works with agree,  *)
(* with the loop and requests starting and stopping cooldowns at once, and   *)
(* wherever the server restarts; except when a stop met the start of its     *)
(* cooldown, another stop of it, or the next start, and then until the next  *)
(* restart.                                                                  *)
CooldownIsSound == TypeOK /\ (crossed \/ AccelerationFollowsRow)

(* A cooldown that was resolved stays resolved: no counter that a request to *)
(* the lock manager, a start or the boot read before is written over it.     *)
(* Only the start of that very cooldown, when it was not through, brings it  *)
(* back when it notes that it has shortened the lease.                       *)
ResolvedStaysResolved ==
  [][\A i \in DOMAIN rows : i \notin ActiveRows =>
       i \notin ActiveRows' \/ \E p \in Controllers : pc[p] = "note" /\ row[p] = i]_vars

(* Without the exceptions, the two are false: see CooldownTwo.cfg. *)
NeverRevived == [][\A i \in DOMAIN rows : i \notin ActiveRows => i \notin ActiveRows']_vars

(* Nobody waits for a mutex whose holder, in the end, waits for him.         *)
Wanted(p) ==
  CASE pc[p] \in {"heat", "counting", "note", "stop", "request"} -> heatMu
    [] pc[p] \in {"lease", "shorten", "grant", "clear"} -> lockMu
    [] OTHER -> Nobody
NobodyWaitsInACircle ==
  Acyclic({e \in Procs \X Procs : Wanted(e[1]) = e[2]}, Procs)

=============================================================================
