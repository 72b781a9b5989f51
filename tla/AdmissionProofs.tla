-------------------------- MODULE AdmissionProofs --------------------------
(***************************************************************************)
(* What bars a caller from a lock: the cooldown of a hot lock, and a spent *)
(* budget.                                                                 *)
(*                                                                         *)
(* First, the loop and requests keep a cooldown sound, however many they   *)
(* are, however many requests the lock manager serves meanwhile, and       *)
(* wherever the server restarts: as long as no stop crosses a start or     *)
(* another stop the limits follow the table, and crossed or not, no        *)
(* counter revives what was resolved.  The reason is not that the counters *)
(* are written under the mutex of the heatmap -- they are read before it   *)
(* is taken -- but that whoever lifts the cooldown keeps it until the lock *)
(* manager has answered, and who counts keeps that of the lock manager.    *)
(*                                                                         *)
(* Then, the budgets: whatever the order of ticks, ends of periods,        *)
(* requests, reports of the lock manager, stops and crashes, nobody pays a *)
(* second twice, memory and tables agree, and arrears last until paid.     *)
(***************************************************************************)
EXTENDS CooldownControl, LockBudget, DataProofs

Typed ==
  /\ TypeOK
  /\ pc = [p \in Procs |-> pc[p]]
  /\ \A c \in Clients : pc[c] \in {"idle", "request", "count", "counting"}
  /\ \A p \in Controllers :
       pc[p] \in {"idle", "heat", "lease", "insert", "shorten", "count", "counting", "note",
                  "grant", "stop", "clear"}
  /\ pc[Boot] \in {"idle", "boot", "lengthy", "count", "counting"}

(* The table lets in one active row. *)
OneActive == \A i, j \in ActiveRows : i = j

(* Who has which mutex. *)
Mutexes ==
  /\ \A p \in Procs : lockMu = p <=> pc[p] \in {"request", "count", "counting"}
  /\ \A p \in Controllers : pc[p] = "clear" <=> heatMu = p
  /\ \A c \in Clients : heatMu # c
  /\ pc[Boot] # "idle" <=> heatMu = Boot

(* The server starts alone, and with a row it finds it limits grants. *)
Booting ==
  /\ pc[Boot] # "idle" => \A p \in Controllers \cup Clients : pc[p] = "idle"
  /\ pc[Boot] = "boot" => ~ accelerated
  /\ pc[Boot] \in {"lengthy", "count", "counting"} => accelerated /\ ActiveRows # {}

(* A start and a stop have a row of the table; unless they crossed, that of  *)
(* a start is active as long as it is not through.                           *)
Starts ==
  /\ \A p \in Controllers : p \in Starting \/ pc[p] = "stop" => row[p] \in DOMAIN rows
  /\ crossed \/ \A p \in Starting : row[p] \in ActiveRows

(* Who counts does so for a row that is active, or waits for a mutex that    *)
(* the one who resolved it will not let go of.                               *)
Counts ==
  \A p \in Procs : pc[p] = "counting" => counted[p] \in ActiveRows \/ Clearing # {}

(* Unless they crossed, the one who lifts the limits is the last to know of  *)
(* the cooldown, and the one who sets them the first.                        *)
Limits ==
  crossed \/ pc[Boot] # "idle" \/
    /\ Clearing # {} => ActiveRows = {}
    /\ accelerated => ActiveRows # {} \/ Clearing # {}
    /\ \A i \in ActiveRows :
         rows[i].by = "manual" => accelerated \/ \E p \in Starting : row[p] = i

CooldownInv == Typed /\ OneActive /\ Mutexes /\ Booting /\ Starts /\ Counts /\ Limits

-----------------------------------------------------------------------------
(* With one active row at most, the latest is the one. *)
LEMMA TheActiveRow ==
  ASSUME TypeOK, OneActive
  PROVE  /\ ActiveRow = 0 <=> ActiveRows = {}
         /\ \A i \in ActiveRows : ActiveRow = i /\ ActiveRows = {i}
         /\ ActiveRows \subseteq 1 .. MaxRows
         /\ ActiveRow \in 0 .. MaxRows
<1>1. DOMAIN rows = 1 .. Len(rows) /\ Len(rows) \in Nat /\ Len(rows) <= MaxRows
  BY LenProperties DEF TypeOK
<1>2. ActiveRows \subseteq 1 .. MaxRows
  BY <1>1, CooldownAssumption DEF ActiveRows
<1>3. ASSUME NEW i \in ActiveRows PROVE ActiveRow = i /\ ActiveRows = {i}
  <2>1. ActiveRows = {i}
    BY DEF OneActive
  <2>2. i \in 1 .. MaxRows
    BY <1>2
  <2>3. Max({i}) = i
    BY <2>2 DEF Max
  <2> QED BY <2>1, <2>3 DEF ActiveRow
<1>4. CASE ActiveRows = {}
  BY <1>4, CooldownAssumption DEF ActiveRow
<1>5. CASE ActiveRows # {}
  <2>1. PICK i \in ActiveRows : TRUE
    BY <1>5
  <2>2. i \in 1 .. MaxRows /\ ActiveRow = i
    BY <1>2, <1>3
  <2> QED BY <2>2, <1>2, <1>3, CooldownAssumption
<1> QED BY <1>4, <1>5

(* A counter written over a row that is active leaves the table as it is. *)
LEMMA WriteKeepsRows ==
  ASSUME TypeOK, NEW r \in ActiveRows, WriteActive(r)
  PROVE  rows' = rows
<1>1. r \in DOMAIN rows /\ rows[r].status = "active" /\ DOMAIN rows = 1 .. Len(rows)
  BY DEF ActiveRows, TypeOK
<1>2. rows[r] \in [status : {"active", "resolved"}, by : {"auto", "manual"}]
  BY <1>1, ElementOfSeq DEF TypeOK
<1>3. [rows[r] EXCEPT !.status = "active"] = rows[r]
  BY <1>1, <1>2
<1>4. [rows EXCEPT ![r] = rows[r]] = rows
  BY <1>1 DEF TypeOK
<1> QED BY <1>3, <1>4 DEF WriteActive

(* While somebody counts a row, nobody resolves it: it is active, or the     *)
(* mutex of the heatmap is taken.                                            *)
LEMMA WhoCounts ==
  ASSUME CooldownInv, NEW p \in Procs, pc[p] = "counting", heatMu = Nobody
  PROVE  counted[p] \in ActiveRows
<1>1. \A q \in Controllers : pc[q] # "clear"
  BY CooldownAssumption DEF CooldownInv, Mutexes, Procs
<1> QED BY <1>1 DEF CooldownInv, Counts, Clearing

(* Where the table is the same, so are its active rows. *)
LEMMA SameRows ==
  ASSUME rows' = rows
  PROVE  ActiveRows' = ActiveRows
BY DEF ActiveRows

(* A controller that starts found no active row, but may find one later.     *)
LEMMA StartCooldownKeeps ==
  ASSUME CooldownInv, NEW p \in Controllers, StartCooldown(p)
  PROVE  CooldownInv' /\ rows' = rows
<1>1. p \in Procs /\ Boot \in Procs /\ Controllers \subseteq Procs /\ Clients \subseteq Procs
  BY DEF Procs
<1>2. rows' = rows
  BY DEF StartCooldown
<1>3. ActiveRows' = ActiveRows
  BY <1>2, SameRows
<1>4. /\ pc' = [q \in Procs |-> pc'[q]] /\ crossed' = crossed
      /\ \A q \in Procs : q # p => pc'[q] = pc[q]
      /\ pc[p] = "idle" /\ pc[Boot] = "idle" /\ pc'[p] = "heat" /\ row' = row /\ counted' = counted
      /\ accelerated' = accelerated /\ lockMu' = lockMu /\ heatMu' = heatMu
  BY <1>1, CooldownAssumption DEF StartCooldown, Goto, Serving, CooldownInv, Typed, TypeOK, Mutexes, Procs
<1>5. Typed' /\ OneActive'
  <2>1. TypeOK'
    BY <1>1, <1>2, <1>4, CooldownAssumption DEF CooldownInv, Typed, TypeOK
  <2> QED BY <1>1, <1>3, <1>4, <2>1, CooldownAssumption DEF CooldownInv, Typed, OneActive
<1>6. Mutexes' /\ Booting'
  BY <1>1, <1>3, <1>4, CooldownAssumption DEF CooldownInv, Mutexes, Booting, Procs
<1>7. Starts' /\ Counts'
  BY <1>1, <1>2, <1>3, <1>4, CooldownAssumption DEF CooldownInv, Starts, Counts, Starting, Clearing, Procs
<1>8. Limits'
  BY <1>1, <1>2, <1>3, <1>4, CooldownAssumption DEF CooldownInv, Limits, Starts, Starting, Clearing, Booting, Procs
<1> QED BY <1>2, <1>5, <1>6, <1>7, <1>8 DEF CooldownInv

(* The heat of the lock is read while its mutex is free. *)
LEMMA ReadHeatKeeps ==
  ASSUME CooldownInv, NEW p \in Controllers, ReadHeat(p)
  PROVE  CooldownInv' /\ rows' = rows
<1>1. p \in Procs /\ Boot \in Procs /\ Controllers \subseteq Procs /\ Clients \subseteq Procs
  BY DEF Procs
<1>2. rows' = rows
  BY DEF ReadHeat
<1>3. ActiveRows' = ActiveRows
  BY <1>2, SameRows
<1>4. /\ pc' = [q \in Procs |-> pc'[q]] /\ crossed' = crossed
      /\ \A q \in Procs : q # p => pc'[q] = pc[q]
      /\ pc[p] = "heat" /\ pc'[p] = "lease" /\ row' = row /\ counted' = counted
      /\ accelerated' = accelerated /\ lockMu' = lockMu /\ heatMu' = heatMu
  BY <1>1, CooldownAssumption DEF ReadHeat, Goto, CooldownInv, Typed, TypeOK, Mutexes, Procs
<1>5. Typed' /\ OneActive'
  <2>1. TypeOK'
    BY <1>1, <1>2, <1>4, CooldownAssumption DEF CooldownInv, Typed, TypeOK
  <2> QED BY <1>1, <1>3, <1>4, <2>1, CooldownAssumption DEF CooldownInv, Typed, OneActive
<1>6. Mutexes' /\ Booting'
  BY <1>1, <1>3, <1>4, CooldownAssumption DEF CooldownInv, Mutexes, Booting, Procs
<1>7. Starts' /\ Counts'
  BY <1>1, <1>2, <1>3, <1>4, CooldownAssumption DEF CooldownInv, Starts, Counts, Starting, Clearing, Procs
<1>8. Limits'
  BY <1>1, <1>2, <1>3, <1>4, CooldownAssumption DEF CooldownInv, Limits, Starts, Starting, Clearing, Booting, Procs
<1> QED BY <1>2, <1>5, <1>6, <1>7, <1>8 DEF CooldownInv

(* The lease is looked up while the lock manager is free. *)
LEMMA ReadLeaseKeeps ==
  ASSUME CooldownInv, NEW p \in Controllers, ReadLease(p)
  PROVE  CooldownInv' /\ rows' = rows
<1>1. p \in Procs /\ Boot \in Procs /\ Controllers \subseteq Procs /\ Clients \subseteq Procs
  BY DEF Procs
<1>2. rows' = rows
  BY DEF ReadLease
<1>3. ActiveRows' = ActiveRows
  BY <1>2, SameRows
<1>4. /\ pc' = [q \in Procs |-> pc'[q]] /\ crossed' = crossed
      /\ \A q \in Procs : q # p => pc'[q] = pc[q]
      /\ pc[p] = "lease" /\ pc'[p] = "insert" /\ row' = row /\ counted' = counted
      /\ accelerated' = accelerated /\ lockMu' = lockMu /\ heatMu' = heatMu
  BY <1>1, CooldownAssumption DEF ReadLease, Goto, CooldownInv, Typed, TypeOK, Mutexes, Procs
<1>5. Typed' /\ OneActive'
  <2>1. TypeOK'
    BY <1>1, <1>2, <1>4, CooldownAssumption DEF CooldownInv, Typed, TypeOK
  <2> QED BY <1>1, <1>3, <1>4, <2>1, CooldownAssumption DEF CooldownInv, Typed, OneActive
<1>6. Mutexes' /\ Booting'
  BY <1>1, <1>3, <1>4, CooldownAssumption DEF CooldownInv, Mutexes, Booting, Procs
<1>7. Starts' /\ Counts'
  BY <1>1, <1>2, <1>3, <1>4, CooldownAssumption DEF CooldownInv, Starts, Counts, Starting, Clearing, Procs
<1>8. Limits'
  BY <1>1, <1>2, <1>3, <1>4, CooldownAssumption DEF CooldownInv, Limits, Starts, Starting, Clearing, Booting, Procs
<1> QED BY <1>2, <1>5, <1>6, <1>7, <1>8 DEF CooldownInv

(* The lease is shortened under the mutex of the lock manager. *)
LEMMA ShortenKeeps ==
  ASSUME CooldownInv, NEW p \in Controllers, Shorten(p)
  PROVE  CooldownInv' /\ rows' = rows
<1>1. p \in Procs /\ Boot \in Procs /\ Controllers \subseteq Procs /\ Clients \subseteq Procs
  BY DEF Procs
<1>2. rows' = rows
  BY DEF Shorten
<1>3. ActiveRows' = ActiveRows
  BY <1>2, SameRows
<1>4. /\ pc' = [q \in Procs |-> pc'[q]] /\ crossed' = crossed
      /\ \A q \in Procs : q # p => pc'[q] = pc[q]
      /\ pc[p] = "shorten" /\ lockMu = Nobody /\ row' = row /\ counted' = counted
      /\ accelerated' = accelerated /\ heatMu' = heatMu
      /\ \/ pc'[p] = "count" /\ lockMu' = p
         \/ pc'[p] = "grant" /\ lockMu' = Nobody
  BY <1>1, CooldownAssumption DEF Shorten, Goto, CooldownInv, Typed, TypeOK, Mutexes, Procs
<1>5. Typed' /\ OneActive'
  <2>1. TypeOK'
    BY <1>1, <1>2, <1>4, CooldownAssumption DEF CooldownInv, Typed, TypeOK
  <2> QED BY <1>1, <1>3, <1>4, <2>1, CooldownAssumption DEF CooldownInv, Typed, OneActive
<1>6. Mutexes' /\ Booting'
  BY <1>1, <1>3, <1>4, CooldownAssumption DEF CooldownInv, Mutexes, Booting, Procs
<1>7. Starts' /\ Counts'
  BY <1>1, <1>2, <1>3, <1>4, CooldownAssumption DEF CooldownInv, Starts, Counts, Starting, Clearing, Procs
<1>8. Limits'
  BY <1>1, <1>2, <1>3, <1>4, CooldownAssumption DEF CooldownInv, Limits, Starts, Starting, Clearing, Booting, Procs
<1> QED BY <1>2, <1>5, <1>6, <1>7, <1>8 DEF CooldownInv

(* The limits are set last, for a cooldown by hand always. *)
LEMMA AccelerateKeeps ==
  ASSUME CooldownInv, NEW p \in Controllers, Accelerate(p)
  PROVE  CooldownInv' /\ rows' = rows
<1>1. p \in Procs /\ Boot \in Procs /\ Controllers \subseteq Procs /\ Clients \subseteq Procs
  BY DEF Procs
<1>2. rows' = rows
  BY DEF Accelerate
<1>3. ActiveRows' = ActiveRows
  BY <1>2, SameRows
<1>4. /\ pc' = [q \in Procs |-> pc'[q]] /\ crossed' = crossed
      /\ \A q \in Procs : q # p => pc'[q] = pc[q]
      /\ pc[p] = "grant" /\ pc'[p] = "idle" /\ row' = row /\ counted' = counted
      /\ lockMu' = lockMu /\ heatMu' = heatMu /\ accelerated' \in BOOLEAN
      /\ accelerated => accelerated'
      /\ rows[row[p]].by = "manual" => accelerated'
  BY <1>1, CooldownAssumption DEF Accelerate, Goto, CooldownInv, Typed, TypeOK, Mutexes, Procs
<1>5. Typed' /\ OneActive'
  <2>1. TypeOK'
    BY <1>1, <1>2, <1>4, CooldownAssumption DEF CooldownInv, Typed, TypeOK
  <2> QED BY <1>1, <1>3, <1>4, <2>1, CooldownAssumption DEF CooldownInv, Typed, OneActive
<1>6. Mutexes' /\ Booting'
  BY <1>1, <1>3, <1>4, CooldownAssumption DEF CooldownInv, Mutexes, Booting, Procs
<1>7. Starts' /\ Counts'
  BY <1>1, <1>2, <1>3, <1>4, CooldownAssumption DEF CooldownInv, Starts, Counts, Starting, Clearing, Procs
<1>8. Limits'
  BY <1>1, <1>2, <1>3, <1>4, CooldownAssumption DEF CooldownInv, Limits, Starts, Starting, Clearing, Booting, Procs
<1> QED BY <1>2, <1>5, <1>6, <1>7, <1>8 DEF CooldownInv

(* A controller stops the cooldown it finds. *)
LEMMA StopCooldownKeeps ==
  ASSUME CooldownInv, NEW p \in Controllers, StopCooldown(p)
  PROVE  CooldownInv' /\ rows' = rows
<1>1. p \in Procs /\ Boot \in Procs /\ Controllers \subseteq Procs /\ Clients \subseteq Procs
  BY DEF Procs
<1>2. rows' = rows
  BY DEF StopCooldown
<1>3. ActiveRows' = ActiveRows
  BY <1>2, SameRows
<1>4. /\ pc' = [q \in Procs |-> pc'[q]] /\ crossed' = crossed
      /\ \A q \in Procs : q # p => pc'[q] = pc[q]
      /\ pc[p] = "idle" /\ pc[Boot] = "idle" /\ pc'[p] = "stop" /\ counted' = counted
      /\ row' = [row EXCEPT ![p] = ActiveRow] /\ ActiveRow # 0
      /\ accelerated' = accelerated /\ lockMu' = lockMu /\ heatMu' = heatMu
  BY <1>1, CooldownAssumption DEF StopCooldown, Goto, Serving, CooldownInv, Typed, TypeOK, Mutexes, Procs
<1>9. /\ ActiveRow \in 0 .. MaxRows /\ ActiveRow \in DOMAIN rows
      /\ row' \in [Procs -> 0 .. MaxRows] /\ row'[p] = ActiveRow
      /\ \A q \in Procs : q # p => row'[q] = row[q]
  <2>1. ActiveRow \in 0 .. MaxRows /\ ActiveRow \in ActiveRows
    BY <1>4, TheActiveRow DEF CooldownInv, Typed
  <2> QED BY <1>1, <1>4, <2>1 DEF CooldownInv, Typed, TypeOK, ActiveRows
<1>5. Typed' /\ OneActive'
  <2>1. TypeOK'
    BY <1>1, <1>2, <1>4, <1>9, CooldownAssumption DEF CooldownInv, Typed, TypeOK
  <2> QED BY <1>1, <1>3, <1>4, <2>1, CooldownAssumption DEF CooldownInv, Typed, OneActive
<1>6. Mutexes' /\ Booting'
  BY <1>1, <1>3, <1>4, CooldownAssumption DEF CooldownInv, Mutexes, Booting, Procs
<1>7. Starts' /\ Counts'
  BY <1>1, <1>2, <1>3, <1>4, <1>9, CooldownAssumption DEF CooldownInv, Starts, Counts, Starting, Clearing, Procs
<1>8. Limits'
  BY <1>1, <1>2, <1>3, <1>4, <1>9, CooldownAssumption DEF CooldownInv, Limits, Starts, Starting, Clearing, Booting, Procs
<1> QED BY <1>2, <1>5, <1>6, <1>7, <1>8 DEF CooldownInv

(* The limits are lifted for a row that is resolved already. *)
LEMMA ClearKeeps ==
  ASSUME CooldownInv, NEW p \in Controllers, Clear(p)
  PROVE  CooldownInv' /\ rows' = rows
<1>1. p \in Procs /\ Boot \in Procs /\ Controllers \subseteq Procs /\ Clients \subseteq Procs
  BY DEF Procs
<1>2. rows' = rows
  BY DEF Clear
<1>3. ActiveRows' = ActiveRows
  BY <1>2, SameRows
<1>4. /\ pc' = [q \in Procs |-> pc'[q]] /\ crossed' = crossed
      /\ \A q \in Procs : q # p => pc'[q] = pc[q]
      /\ pc[p] = "clear" /\ lockMu = Nobody /\ pc'[p] = "idle" /\ row' = row /\ counted' = counted
      /\ lockMu' = lockMu /\ heatMu = p /\ heatMu' = Nobody /\ accelerated' = FALSE
      /\ \A q \in Procs : pc[q] # "counting"
  BY <1>1, CooldownAssumption DEF Clear, Goto, CooldownInv, Typed, TypeOK, Mutexes, Procs
<1>5. Typed' /\ OneActive'
  <2>1. TypeOK'
    BY <1>1, <1>2, <1>4, CooldownAssumption DEF CooldownInv, Typed, TypeOK
  <2> QED BY <1>1, <1>3, <1>4, <2>1, CooldownAssumption DEF CooldownInv, Typed, OneActive
<1>6. Mutexes' /\ Booting'
  BY <1>1, <1>3, <1>4, CooldownAssumption DEF CooldownInv, Mutexes, Booting, Procs
<1>7. Starts' /\ Counts'
  BY <1>1, <1>2, <1>3, <1>4, CooldownAssumption DEF CooldownInv, Starts, Counts, Starting, Clearing, Procs
<1>8. Limits'
  BY <1>1, <1>2, <1>3, <1>4, CooldownAssumption DEF CooldownInv, Limits, Starts, Starting, Clearing, Booting, Procs
<1> QED BY <1>2, <1>5, <1>6, <1>7, <1>8 DEF CooldownInv

(* A request to the lock manager takes its mutex. *)
LEMMA AcquireLockKeeps ==
  ASSUME CooldownInv, NEW p \in Clients, AcquireLock(p)
  PROVE  CooldownInv' /\ rows' = rows
<1>1. p \in Procs /\ Boot \in Procs /\ Controllers \subseteq Procs /\ Clients \subseteq Procs
  BY DEF Procs
<1>2. rows' = rows
  BY DEF AcquireLock
<1>3. ActiveRows' = ActiveRows
  BY <1>2, SameRows
<1>4. /\ pc' = [q \in Procs |-> pc'[q]] /\ crossed' = crossed
      /\ \A q \in Procs : q # p => pc'[q] = pc[q]
      /\ pc[p] = "idle" /\ pc[Boot] = "idle" /\ pc'[p] = "request" /\ row' = row /\ counted' = counted
      /\ lockMu = Nobody /\ lockMu' = p /\ heatMu' = heatMu /\ accelerated' = accelerated
  BY <1>1, CooldownAssumption DEF AcquireLock, Goto, Serving, CooldownInv, Typed, TypeOK, Mutexes, Procs
<1>5. Typed' /\ OneActive'
  <2>1. TypeOK'
    BY <1>1, <1>2, <1>4, CooldownAssumption DEF CooldownInv, Typed, TypeOK
  <2> QED BY <1>1, <1>3, <1>4, <2>1, CooldownAssumption DEF CooldownInv, Typed, OneActive
<1>6. Mutexes' /\ Booting'
  BY <1>1, <1>3, <1>4, CooldownAssumption DEF CooldownInv, Mutexes, Booting, Procs
<1>7. Starts' /\ Counts'
  BY <1>1, <1>2, <1>3, <1>4, CooldownAssumption DEF CooldownInv, Starts, Counts, Starting, Clearing, Procs
<1>8. Limits'
  BY <1>1, <1>2, <1>3, <1>4, CooldownAssumption DEF CooldownInv, Limits, Starts, Starting, Clearing, Booting, Procs
<1> QED BY <1>2, <1>5, <1>6, <1>7, <1>8 DEF CooldownInv

(* A request that is limited keeps the mutex, to count. *)
LEMMA RecordRequestKeeps ==
  ASSUME CooldownInv, NEW p \in Clients, RecordRequest(p)
  PROVE  CooldownInv' /\ rows' = rows
<1>1. p \in Procs /\ Boot \in Procs /\ Controllers \subseteq Procs /\ Clients \subseteq Procs
  BY DEF Procs
<1>2. rows' = rows
  BY DEF RecordRequest
<1>3. ActiveRows' = ActiveRows
  BY <1>2, SameRows
<1>4. /\ pc' = [q \in Procs |-> pc'[q]] /\ crossed' = crossed
      /\ \A q \in Procs : q # p => pc'[q] = pc[q]
      /\ pc[p] = "request" /\ row' = row /\ counted' = counted /\ lockMu = p
      /\ heatMu' = heatMu /\ accelerated' = accelerated
      /\ \/ pc'[p] = "count" /\ lockMu' = p
         \/ pc'[p] = "idle" /\ lockMu' = Nobody
  BY <1>1, CooldownAssumption DEF RecordRequest, Goto, CooldownInv, Typed, TypeOK, Mutexes, Procs
<1>5. Typed' /\ OneActive'
  <2>1. TypeOK'
    BY <1>1, <1>2, <1>4, CooldownAssumption DEF CooldownInv, Typed, TypeOK
  <2> QED BY <1>1, <1>3, <1>4, <2>1, CooldownAssumption DEF CooldownInv, Typed, OneActive
<1>6. Mutexes' /\ Booting'
  BY <1>1, <1>3, <1>4, CooldownAssumption DEF CooldownInv, Mutexes, Booting, Procs
<1>7. Starts' /\ Counts'
  BY <1>1, <1>2, <1>3, <1>4, CooldownAssumption DEF CooldownInv, Starts, Counts, Starting, Clearing, Procs
<1>8. Limits'
  BY <1>1, <1>2, <1>3, <1>4, CooldownAssumption DEF CooldownInv, Limits, Starts, Starting, Clearing, Booting, Procs
<1> QED BY <1>2, <1>5, <1>6, <1>7, <1>8 DEF CooldownInv

(* A counter is written over the row that was read before, which is active.  *)
LEMMA WriteCountKeeps ==
  ASSUME CooldownInv, NEW p \in Procs, WriteCount(p)
  PROVE  CooldownInv' /\ rows' = rows
<1>1. p \in Procs /\ Boot \in Procs /\ Controllers \subseteq Procs /\ Clients \subseteq Procs
  BY DEF Procs
<1>2. rows' = rows
  BY WhoCounts, WriteKeepsRows DEF WriteCount, CooldownInv, Typed
<1>3. ActiveRows' = ActiveRows
  BY <1>2, SameRows
<1>4. /\ pc' = [q \in Procs |-> pc'[q]] /\ crossed' = crossed
      /\ \A q \in Procs : q # p => pc'[q] = pc[q]
      /\ pc[p] = "counting" /\ row' = row /\ counted' = counted /\ lockMu = p /\ lockMu' = Nobody
      /\ heatMu = Nobody /\ heatMu' = heatMu /\ accelerated' = accelerated /\ p # Boot
      /\ pc'[p] = IF p \in Controllers THEN "note" ELSE "idle"
  BY <1>1, CooldownAssumption DEF WriteCount, Goto, AfterCount, CooldownInv, Typed, TypeOK, Mutexes, Procs
<1>5. Typed' /\ OneActive'
  <2>1. TypeOK'
    BY <1>1, <1>2, <1>4, CooldownAssumption DEF CooldownInv, Typed, TypeOK
  <2> QED BY <1>1, <1>3, <1>4, <2>1, CooldownAssumption DEF CooldownInv, Typed, OneActive
<1>6. Mutexes' /\ Booting'
  BY <1>1, <1>3, <1>4, CooldownAssumption DEF CooldownInv, Mutexes, Booting, Procs
<1>7. Starts' /\ Counts'
  BY <1>1, <1>2, <1>3, <1>4, CooldownAssumption DEF CooldownInv, Starts, Counts, Starting, Clearing, Procs
<1>8. Limits'
  BY <1>1, <1>2, <1>3, <1>4, CooldownAssumption DEF CooldownInv, Limits, Starts, Starting, Clearing, Booting, Procs
<1> QED BY <1>2, <1>5, <1>6, <1>7, <1>8 DEF CooldownInv

(* Whoever counts reads the active row first. *)
LEMMA ReadCountKeeps ==
  ASSUME CooldownInv, NEW p \in Procs, ReadCount(p)
  PROVE  CooldownInv' /\ rows' = rows
<1>1. p \in Procs /\ Boot \in Procs /\ Controllers \subseteq Procs /\ Clients \subseteq Procs
  BY DEF Procs
<1>2. rows' = rows
  BY DEF ReadCount
<1>3. ActiveRows' = ActiveRows
  BY <1>2, SameRows
<1>4. /\ ActiveRow = 0 <=> ActiveRows = {}
      /\ ActiveRow # 0 => ActiveRow \in ActiveRows
      /\ ActiveRow \in 0 .. MaxRows
  BY TheActiveRow DEF CooldownInv, Typed
<1>5. /\ pc' = [q \in Procs |-> pc'[q]] /\ crossed' = crossed
      /\ \A q \in Procs : q # p => pc'[q] = pc[q] /\ counted'[q] = counted[q]
      /\ pc[p] = "count" /\ row' = row /\ lockMu = p
      /\ heatMu' = heatMu /\ accelerated' = accelerated
      /\ \/ /\ ActiveRow = 0 /\ lockMu' = Nobody /\ counted' = counted
            /\ pc'[p] = IF p \in Controllers THEN "note" ELSE "idle"
         \/ /\ ActiveRow # 0 /\ lockMu' = lockMu /\ counted' = [counted EXCEPT ![p] = ActiveRow]
            /\ counted'[p] = ActiveRow /\ pc'[p] = "counting"
  BY <1>1, CooldownAssumption DEF ReadCount, Goto, AfterCount, CooldownInv, Typed, TypeOK, Mutexes, Procs
<1>6. ActiveRow = 0 => p # Boot
  BY <1>4, <1>5 DEF CooldownInv, Booting
<1>7. Typed' /\ OneActive'
  <2>1. TypeOK'
    BY <1>1, <1>2, <1>4, <1>5, CooldownAssumption DEF CooldownInv, Typed, TypeOK
  <2> QED BY <1>1, <1>3, <1>5, <1>6, <2>1, CooldownAssumption DEF CooldownInv, Typed, OneActive, Procs
<1>8. Mutexes' /\ Booting'
  BY <1>1, <1>3, <1>5, <1>6, CooldownAssumption DEF CooldownInv, Mutexes, Booting, Procs
<1>9. Starts' /\ Counts'
  BY <1>1, <1>2, <1>3, <1>4, <1>5, CooldownAssumption DEF CooldownInv, Starts, Counts, Starting, Clearing, Procs
<1>10. Limits'
  BY <1>1, <1>2, <1>3, <1>5, <1>6, CooldownAssumption DEF CooldownInv, Limits, Starting, Clearing, Booting, Procs
<1> QED BY <1>2, <1>7, <1>8, <1>9, <1>10 DEF CooldownInv

(* A start that notes the lease it shortened leaves its row as it is, unless *)
(* a stop has crossed it: then the row may be active again.                  *)
LEMMA NoteShortenedKeeps ==
  ASSUME CooldownInv, NEW p \in Controllers, NoteShortened(p)
  PROVE  CooldownInv' /\ \A i \in DOMAIN rows : i \notin ActiveRows => i \notin ActiveRows' \/ i = row[p]
<1>1. p \in Procs /\ Boot \in Procs /\ Controllers \subseteq Procs /\ Clients \subseteq Procs
  BY DEF Procs
<1>2. /\ pc' = [q \in Procs |-> pc'[q]] /\ crossed' = crossed
      /\ \A q \in Procs : q # p => pc'[q] = pc[q]
      /\ pc[p] = "note" /\ pc'[p] = "grant" /\ row' = row /\ counted' = counted
      /\ accelerated' = accelerated /\ lockMu' = lockMu /\ heatMu' = heatMu
  BY <1>1 DEF NoteShortened, Goto, CooldownInv, Typed
<1>3. row[p] \in DOMAIN rows /\ (crossed \/ row[p] \in ActiveRows)
  BY <1>2 DEF CooldownInv, Starts, Starting
<1>4. /\ TypeOK' /\ DOMAIN rows' = DOMAIN rows
      /\ \/ rows' = rows /\ ActiveRows' = ActiveRows
         \/ ActiveRows = {} /\ ActiveRows' = {row[p]} /\ crossed
  <2>1. CASE rows' = rows
    <3>1. ActiveRows' = ActiveRows
      BY <2>1, SameRows
    <3> QED BY <1>1, <1>2, <2>1, <3>1 DEF CooldownInv, Typed, TypeOK
  <2>2. CASE rows' # rows
    <3>1. row[p] \notin ActiveRows /\ ActiveRows = {} /\ rows' = [rows EXCEPT ![row[p]].status = "active"]
      BY <2>2, WriteKeepsRows DEF NoteShortened, WriteActive, CooldownInv, Typed
    <3>2. DOMAIN rows = 1 .. Len(rows) /\ Len(rows) \in Nat
      BY LenProperties DEF CooldownInv, Typed, TypeOK
    <3>3. rows[row[p]] \in [status : {"active", "resolved"}, by : {"auto", "manual"}]
      <4>1. rows \in Seq([status : {"active", "resolved"}, by : {"auto", "manual"}])
        BY DEF CooldownInv, Typed, TypeOK
      <4> QED BY <1>3, <3>2, <4>1, ElementOfSeq
    <3>4. [rows[row[p]] EXCEPT !.status = "active"] \in [status : {"active", "resolved"}, by : {"auto", "manual"}]
      BY <3>3
    <3>5. rows' = [rows EXCEPT ![row[p]] = [rows[row[p]] EXCEPT !.status = "active"]]
      BY <3>1
    <3>6. /\ rows' \in Seq([status : {"active", "resolved"}, by : {"auto", "manual"}])
          /\ Len(rows') = Len(rows) /\ DOMAIN rows' = DOMAIN rows
      BY <1>3, <3>2, <3>4, <3>5, ExceptSeq DEF CooldownInv, Typed, TypeOK
    <3>7. rows'[row[p]].status = "active" /\ \A i \in DOMAIN rows : i # row[p] => rows'[i] = rows[i]
      BY <1>3, <3>3, <3>5
    <3>8. ActiveRows' = {row[p]}
      BY <1>3, <3>1, <3>6, <3>7 DEF ActiveRows
    <3> QED BY <1>1, <1>2, <1>3, <3>1, <3>6, <3>8 DEF CooldownInv, Typed, TypeOK
  <2> QED BY <2>1, <2>2
<1>5. Typed' /\ OneActive'
  BY <1>1, <1>2, <1>4, CooldownAssumption DEF CooldownInv, Typed, OneActive
<1>6. Mutexes' /\ Booting'
  BY <1>1, <1>2, <1>4, CooldownAssumption DEF CooldownInv, Mutexes, Booting, Procs
<1>7. Starts' /\ Counts'
  BY <1>1, <1>2, <1>4, CooldownAssumption DEF CooldownInv, Starts, Counts, Starting, Clearing, Procs
<1>8. Limits'
  BY <1>1, <1>2, <1>4, CooldownAssumption DEF CooldownInv, Limits, Starting, Clearing, Booting, Procs
<1> QED BY <1>4, <1>5, <1>6, <1>7, <1>8 DEF CooldownInv

(* A row that is inserted is the only active one, and the last of the table. *)
LEMMA InsertRowKeeps ==
  ASSUME CooldownInv, NEW p \in Controllers, InsertRow(p)
  PROVE  CooldownInv' /\ \A i \in DOMAIN rows : i \notin ActiveRows => i \notin ActiveRows'
<1>1. p \in Procs /\ Boot \in Procs /\ Controllers \subseteq Procs /\ Clients \subseteq Procs
  BY DEF Procs
<1>2. /\ pc[p] = "insert" /\ counted' = counted
      /\ accelerated' = accelerated /\ lockMu' = lockMu /\ heatMu' = heatMu
      /\ pc' = [q \in Procs |-> pc'[q]] /\ \A q \in Procs : q # p => pc'[q] = pc[q]
  BY <1>1 DEF InsertRow, Goto, CooldownInv, Typed
<1>3. ActiveRow = 0 <=> ActiveRows = {}
  BY TheActiveRow DEF CooldownInv, Typed
<1>4. CASE ActiveRow = 0 /\ Len(rows) < MaxRows
  <2> DEFINE new == Len(rows) + 1
             record == [status |-> "active", by |-> IF p = Loop THEN "auto" ELSE "manual"]
  <2>1. /\ rows' = Append(rows, record) /\ row' = [row EXCEPT ![p] = new]
        /\ pc'[p] \in {"shorten", "grant"} /\ crossed' = (crossed \/ Clearing # {})
    BY <1>1, <1>4 DEF InsertRow, Goto, CooldownInv, Typed
  <2>2. Len(rows) \in Nat /\ DOMAIN rows = 1 .. Len(rows)
    BY LenProperties DEF CooldownInv, Typed, TypeOK
  <2>3. /\ rows' \in Seq([status : {"active", "resolved"}, by : {"auto", "manual"}])
        /\ Len(rows') = new /\ DOMAIN rows' = 1 .. new
        /\ rows'[new] = record /\ \A i \in DOMAIN rows : rows'[i] = rows[i]
    <3>1. record \in [status : {"active", "resolved"}, by : {"auto", "manual"}]
      OBVIOUS
    <3> HIDE DEF record
    <3> QED BY <2>1, <2>2, <3>1, AppendProperties DEF CooldownInv, Typed, TypeOK
  <2>4. ActiveRows = {} /\ ActiveRows' = {new}
    BY <1>3, <1>4, <2>2, <2>3 DEF ActiveRows
  <2>5. new \in 1 .. MaxRows /\ new \in DOMAIN rows' /\ DOMAIN rows \subseteq DOMAIN rows'
    BY <1>4, <2>2, <2>3, CooldownAssumption
  <2>6. /\ row' \in [Procs -> 0 .. MaxRows] /\ row'[p] = new
        /\ \A q \in Procs : q # p => row'[q] = row[q]
    BY <1>1, <2>1, <2>5 DEF CooldownInv, Typed, TypeOK
  <2> HIDE DEF new, record
  <2>7. Typed' /\ OneActive'
    <3>1. TypeOK'
      BY <1>1, <1>2, <2>1, <2>3, <2>5, <2>6, CooldownAssumption DEF CooldownInv, Typed, TypeOK
    <3> QED BY <1>1, <1>2, <2>1, <2>4, <3>1, CooldownAssumption DEF CooldownInv, Typed, OneActive
  <2>8. Mutexes' /\ Booting'
    BY <1>1, <1>2, <2>1, <2>4, CooldownAssumption DEF CooldownInv, Mutexes, Booting, Procs
  <2>9. Starting' = Starting \cup {p} /\ Clearing' = Clearing
    BY <1>1, <1>2, <2>1 DEF Starting, Clearing
  <2>10. crossed \/ Starting = {}
    BY <2>4 DEF CooldownInv, Starts
  <2>11. Starts' /\ Counts'
    <3>1. Counts'
      BY <1>1, <1>2, <2>1, <2>4, <2>9 DEF CooldownInv, Counts
    <3>2. \A q \in Controllers : q \in Starting' \/ pc'[q] = "stop" => row'[q] \in DOMAIN rows'
      BY <1>1, <1>2, <2>1, <2>5, <2>6, <2>9 DEF CooldownInv, Starts
    <3>3. crossed' \/ \A q \in Starting' : row'[q] \in ActiveRows'
      <4>1. CASE crossed
        BY <2>1, <4>1
      <4>2. CASE Starting = {}
        BY <2>4, <2>6, <2>9, <4>2
      <4> QED BY <2>10, <4>1, <4>2
    <3> QED BY <3>1, <3>2, <3>3 DEF Starts
  <2>12. Limits'
    <3>1. p \in Starting' /\ row'[p] = new /\ (crossed' \/ Clearing' = {})
      BY <2>1, <2>6, <2>9
    <3> QED BY <2>4, <3>1 DEF Limits
  <2> QED BY <2>2, <2>4, <2>5, <2>7, <2>8, <2>11, <2>12 DEF CooldownInv, new
<1>5. CASE ~ (ActiveRow = 0 /\ Len(rows) < MaxRows)
  <2>1. rows' = rows /\ row' = row /\ pc'[p] = "idle" /\ crossed' = crossed
    BY <1>1, <1>5 DEF InsertRow, Goto, CooldownInv, Typed
  <2>2. ActiveRows' = ActiveRows
    BY <2>1, SameRows
  <2>3. Typed' /\ OneActive'
    <3>1. TypeOK'
      BY <1>1, <1>2, <2>1, CooldownAssumption DEF CooldownInv, Typed, TypeOK
    <3> QED BY <1>1, <1>2, <2>1, <2>2, <3>1, CooldownAssumption DEF CooldownInv, Typed, OneActive
  <2>4. Mutexes' /\ Booting'
    BY <1>1, <1>2, <2>1, <2>2, CooldownAssumption DEF CooldownInv, Mutexes, Booting, Procs
  <2>5. Starts' /\ Counts'
    BY <1>1, <1>2, <2>1, <2>2, CooldownAssumption DEF CooldownInv, Starts, Counts, Starting, Clearing, Procs
  <2>6. Limits'
    BY <1>1, <1>2, <2>1, <2>2, CooldownAssumption DEF CooldownInv, Limits, Starting, Clearing, Booting, Procs
  <2> QED BY <2>2, <2>3, <2>4, <2>5, <2>6 DEF CooldownInv
<1> QED BY <1>4, <1>5

(* Whoever resolves a row keeps the mutex that the counters need. *)
LEMMA ResolveKeeps ==
  ASSUME CooldownInv, NEW p \in Controllers, Resolve(p)
  PROVE  CooldownInv' /\ \A i \in DOMAIN rows : i \notin ActiveRows => i \notin ActiveRows'
<1>1. p \in Procs /\ Boot \in Procs /\ Controllers \subseteq Procs /\ Clients \subseteq Procs
  BY DEF Procs
<1>2. /\ pc[p] = "stop" /\ heatMu = Nobody /\ row[p] \in DOMAIN rows
      /\ heatMu' = p /\ lockMu' = lockMu /\ accelerated' = accelerated
      /\ row' = row /\ counted' = counted /\ pc'[p] = "clear"
      /\ \A q \in Procs : q # p => pc'[q] = pc[q]
      /\ pc' = [q \in Procs |-> pc'[q]]
      /\ crossed' = (crossed \/ row[p] \notin ActiveRows \/ \E q \in Starting : row[q] = row[p])
  BY <1>1 DEF Resolve, Crossing, Goto, CooldownInv, Typed, Starts
<1>3. /\ TypeOK' /\ DOMAIN rows' = DOMAIN rows
      /\ ActiveRows' = ActiveRows \ {row[p]}
      /\ \A i \in ActiveRows' : rows'[i] = rows[i]
  <2>1. DOMAIN rows = 1 .. Len(rows) /\ Len(rows) \in Nat
    BY LenProperties DEF CooldownInv, Typed, TypeOK
  <2>2. rows[row[p]] \in [status : {"active", "resolved"}, by : {"auto", "manual"}]
    <3>1. rows \in Seq([status : {"active", "resolved"}, by : {"auto", "manual"}])
      BY DEF CooldownInv, Typed, TypeOK
    <3> QED BY <1>2, <2>1, <3>1, ElementOfSeq
  <2>3. rows' = [rows EXCEPT ![row[p]] = [rows[row[p]] EXCEPT !.status = "resolved"]]
    BY DEF Resolve
  <2>4. [rows[row[p]] EXCEPT !.status = "resolved"] \in [status : {"active", "resolved"}, by : {"auto", "manual"}]
    BY <2>2
  <2>5. /\ rows' \in Seq([status : {"active", "resolved"}, by : {"auto", "manual"}])
        /\ Len(rows') = Len(rows) /\ DOMAIN rows' = DOMAIN rows
    BY <1>2, <2>1, <2>3, <2>4, ExceptSeq DEF CooldownInv, Typed, TypeOK
  <2>6. rows'[row[p]].status = "resolved" /\ \A i \in DOMAIN rows : i # row[p] => rows'[i] = rows[i]
    BY <1>2, <2>2, <2>3
  <2>7. ActiveRows' = ActiveRows \ {row[p]}
    BY <1>2, <2>5, <2>6 DEF ActiveRows
  <2> QED BY <1>1, <1>2, <2>5, <2>6, <2>7 DEF CooldownInv, Typed, TypeOK, ActiveRows
<1>4. ~ crossed' => ActiveRows' = {}
  BY <1>2, <1>3 DEF CooldownInv, OneActive
<1>5. Typed' /\ OneActive'
  BY <1>1, <1>2, <1>3, CooldownAssumption DEF CooldownInv, Typed, OneActive
<1>6. Mutexes' /\ Booting'
  <2>1. pc[Boot] = "idle"
    BY <1>1, <1>2, CooldownAssumption DEF CooldownInv, Booting
  <2> QED BY <1>1, <1>2, <2>1, CooldownAssumption DEF CooldownInv, Mutexes, Booting, Procs
<1>7. Starts'
  BY <1>1, <1>2, <1>3, CooldownAssumption DEF CooldownInv, Starts, Starting, Procs
<1>8. Counts' /\ Limits'
  BY <1>1, <1>2, <1>4, CooldownAssumption DEF Counts, Limits, Starting, Clearing, Procs
<1> QED BY <1>3, <1>5, <1>6, <1>7, <1>8 DEF CooldownInv

-----------------------------------------------------------------------------
(* The server starts again: nobody is at work, and the limits are gone.      *)
LEMMA RestartKeeps ==
  ASSUME CooldownInv, Restart
  PROVE  CooldownInv' /\ rows' = rows
<1>1. Boot \in Procs /\ Controllers \subseteq Procs /\ Clients \subseteq Procs
  BY DEF Procs
<1>2. /\ rows' = rows /\ row' = row /\ counted' = counted
      /\ accelerated' = FALSE /\ lockMu' = Nobody /\ heatMu' = Boot /\ crossed' = FALSE
      /\ pc' = [q \in Procs |-> pc'[q]] /\ pc'[Boot] = "boot"
      /\ \A q \in Procs : q # Boot => pc'[q] = "idle"
  BY <1>1 DEF Restart
<1>3. ActiveRows' = ActiveRows
  BY <1>2, SameRows
<1>4. Typed'
  <2>1. TypeOK'
    BY <1>1, <1>2 DEF CooldownInv, Typed, TypeOK
  <2> QED BY <1>1, <1>2, <2>1, CooldownAssumption DEF CooldownInv, Typed
<1>5. OneActive'
  BY <1>3 DEF CooldownInv, OneActive
<1>6. Mutexes' /\ Booting'
  BY <1>1, <1>2, CooldownAssumption DEF Mutexes, Booting
<1>7. Starts' /\ Counts' /\ Limits'
  BY <1>1, <1>2, CooldownAssumption DEF Starts, Starting, Counts, Limits
<1> QED BY <1>2, <1>4, <1>5, <1>6, <1>7 DEF CooldownInv

(* Manager.Start limits grants for the active row, if there is one, and      *)
(* keeps the mutex of the heatmap until it is done with its lease.           *)
LEMMA BootKeeps ==
  ASSUME CooldownInv, Restore \/ RestoreLease
  PROVE  CooldownInv' /\ rows' = rows
<1>1. Boot \in Procs /\ Controllers \subseteq Procs /\ Clients \subseteq Procs
  BY DEF Procs
<1>2. ActiveRow = 0 <=> ActiveRows = {}
  BY TheActiveRow DEF CooldownInv, Typed
<1>3. /\ rows' = rows /\ row' = row /\ counted' = counted /\ pc[Boot] # "idle"
      /\ crossed' = crossed
      /\ pc' = [q \in Procs |-> pc'[q]] /\ \A q \in Procs : q # Boot => pc'[q] = pc[q]
  BY <1>1 DEF Restore, RestoreLease, Goto, CooldownInv, Typed
<1>4. \A q \in Controllers \cup Clients : pc[q] = "idle" /\ pc'[q] = "idle" /\ q # Boot
  BY <1>1, <1>3, CooldownAssumption DEF CooldownInv, Booting
<1>5. Starting' = {} /\ Clearing' = {}
  BY <1>4 DEF Starting, Clearing
<1>6. ActiveRows' = ActiveRows
  BY <1>3, SameRows
<1>7. OneActive'
  BY <1>6 DEF CooldownInv, OneActive
<1>8. Boot # Nobody /\ Nobody \notin Procs
  BY <1>1, CooldownAssumption
<1>9. /\ accelerated' \in BOOLEAN
      /\ \/ /\ pc[Boot] = "boot" /\ lockMu' = lockMu
            /\ \/ ActiveRows = {} /\ pc'[Boot] = "idle" /\ heatMu' = Nobody /\ accelerated' = FALSE
               \/ ActiveRows # {} /\ pc'[Boot] = "lengthy" /\ heatMu' = heatMu /\ accelerated' = TRUE
         \/ /\ pc[Boot] = "lengthy" /\ accelerated' = TRUE /\ ActiveRows # {}
            /\ \/ pc'[Boot] = "count" /\ lockMu' = Boot /\ heatMu' = heatMu
               \/ pc'[Boot] = "idle" /\ heatMu' = Nobody /\ lockMu' = lockMu
  BY <1>1, <1>2 DEF Restore, RestoreLease, Goto, CooldownInv, Typed, TypeOK, Booting
<1>10. Typed'
  <2>1. TypeOK'
    BY <1>1, <1>3, <1>9 DEF CooldownInv, Typed, TypeOK
  <2> QED BY <1>1, <1>3, <1>4, <1>9, <2>1 DEF Typed
<1>11. Mutexes'
  BY <1>1, <1>3, <1>4, <1>8, <1>9 DEF CooldownInv, Mutexes, Procs
<1>12. Booting' /\ Starts' /\ Counts' /\ Limits'
  BY <1>4, <1>5, <1>6, <1>9 DEF Booting, Starts, Counts, Limits, Procs
<1> QED BY <1>3, <1>7, <1>10, <1>11, <1>12 DEF CooldownInv

-----------------------------------------------------------------------------
(* No cooldown, no limits, and nobody at work. *)
LEMMA CooldownInitHolds == Init => CooldownInv
<1> SUFFICES ASSUME Init PROVE CooldownInv
  OBVIOUS
<1>1. Boot \in Procs /\ Controllers \subseteq Procs /\ Clients \subseteq Procs
  BY DEF Procs
<1>2. ActiveRows = {}
  BY DEF Init, ActiveRows
<1>3. Typed
  <2>1. rows \in Seq([status : {"active", "resolved"}, by : {"auto", "manual"}]) /\ Len(rows) = 0
    BY DEF Init
  <2>2. 0 \in 0 .. MaxRows /\ 0 <= MaxRows
    BY CooldownAssumption
  <2>3. /\ row \in [Procs -> 0 .. MaxRows] /\ counted \in [Procs -> 0 .. MaxRows]
        /\ accelerated \in BOOLEAN /\ crossed \in BOOLEAN /\ lockMu = Nobody /\ heatMu = Nobody
    BY <2>2 DEF Init
  <2>4. TypeOK
    BY <2>1, <2>2, <2>3 DEF TypeOK
  <2> QED BY <1>1, <2>4, CooldownAssumption DEF Init, Typed
<1>4. OneActive /\ Mutexes /\ Booting /\ Starts /\ Counts /\ Limits
  BY <1>1, <1>2, CooldownAssumption
  DEF Init, OneActive, Mutexes, Booting, Starts, Starting, Counts, Clearing, Limits
<1> QED BY <1>3, <1>4 DEF CooldownInv

(* What a step may do to a row that was resolved. *)
RevivedByItsStart ==
  \A i \in DOMAIN rows : i \notin ActiveRows =>
    i \notin ActiveRows' \/ \E p \in Controllers : pc[p] = "note" /\ row[p] = i

(* Each step keeps the invariant, and none but the start of a cooldown       *)
(* revives its row.                                                          *)
LEMMA CooldownStep ==
  ASSUME CooldownInv, [Next]_vars
  PROVE  CooldownInv' /\ RevivedByItsStart
<1>1. rows' = rows => RevivedByItsStart
  BY SameRows DEF RevivedByItsStart
<1>2. ASSUME NEW p \in Controllers, InsertRow(p) \/ Resolve(p)
      PROVE  CooldownInv' /\ RevivedByItsStart
  BY <1>2, InsertRowKeeps, ResolveKeeps DEF RevivedByItsStart
<1>3. ASSUME NEW p \in Controllers, NoteShortened(p)
      PROVE  CooldownInv' /\ RevivedByItsStart
  BY <1>3, NoteShortenedKeeps DEF NoteShortened, RevivedByItsStart
<1>4. ASSUME NEW p \in Controllers,
             StartCooldown(p) \/ ReadHeat(p) \/ ReadLease(p) \/ Shorten(p) \/ Accelerate(p)
               \/ StopCooldown(p) \/ Clear(p)
      PROVE  CooldownInv' /\ RevivedByItsStart
  BY <1>1, <1>4, StartCooldownKeeps, ReadHeatKeeps, ReadLeaseKeeps, ShortenKeeps, AccelerateKeeps,
     StopCooldownKeeps, ClearKeeps
<1>5. ASSUME NEW p \in Procs, ReadCount(p) \/ WriteCount(p)
      PROVE  CooldownInv' /\ RevivedByItsStart
  BY <1>1, <1>5, ReadCountKeeps, WriteCountKeeps
<1>6. ASSUME NEW c \in Clients, AcquireLock(c) \/ RecordRequest(c)
      PROVE  CooldownInv' /\ RevivedByItsStart
  BY <1>1, <1>6, AcquireLockKeeps, RecordRequestKeeps
<1>7. CASE Restart \/ Restore \/ RestoreLease
  BY <1>1, <1>7, RestartKeeps, BootKeeps
<1>8. CASE UNCHANGED vars
  <2>1. rows' = rows /\ ActiveRows' = ActiveRows
    BY <1>8, SameRows DEF vars
  <2>2. Typed' /\ OneActive'
    BY <1>8, <2>1 DEF vars, CooldownInv, Typed, TypeOK, OneActive
  <2>3. Mutexes' /\ Booting' /\ Starts' /\ Counts' /\ Limits'
    BY <1>8, <2>1 DEF vars, CooldownInv, Mutexes, Booting, Starts, Starting, Counts, Clearing, Limits
  <2> QED BY <1>1, <2>1, <2>2, <2>3 DEF CooldownInv
<1> QED BY <1>2, <1>3, <1>4, <1>5, <1>6, <1>7, <1>8 DEF Next

(* The inductive invariant holds of every behaviour, of any number of        *)
(* controllers and clients.                                                  *)
THEOREM CooldownInvariant == Spec => []CooldownInv
<1>1. Init => CooldownInv
  BY CooldownInitHolds
<1>2. CooldownInv /\ [Next]_vars => CooldownInv'
  BY CooldownStep
<1> QED BY <1>1, <1>2, PTL DEF Spec

(* The table of cooldowns and the limits of the lock manager agree whenever  *)
(* nobody is at work, however many controllers and clients there are and     *)
(* wherever the server restarts, unless a stop crossed a start or another    *)
(* stop since the boot.                                                      *)
THEOREM CooldownSound == Spec => []CooldownIsSound
<1>1. CooldownInv => CooldownIsSound
  <2> SUFFICES ASSUME CooldownInv PROVE CooldownIsSound
    OBVIOUS
  <2>1. TypeOK /\ OneActive
    BY DEF CooldownInv, Typed
  <2>2. /\ ActiveRow = 0 <=> ActiveRows = {}
        /\ ActiveRow # 0 => ActiveRow \in ActiveRows
    BY <2>1, TheActiveRow
  <2>3. Settled => Starting = {} /\ Clearing = {}
    BY DEF Settled, Starting, Clearing
  <2> QED BY <2>1, <2>2, <2>3 DEF CooldownInv, Limits, Settled, CooldownIsSound, AccelerationFollowsRow
<1> QED BY <1>1, CooldownInvariant, PTL

(* No counter that a request, a start or the boot read before it had the     *)
(* mutex is written over a row that was resolved since; only the start of    *)
(* that very cooldown brings it back.                                        *)
THEOREM ResolvedStays == Spec => ResolvedStaysResolved
<1>1. CooldownInv /\ [Next]_vars =>
        [\A i \in DOMAIN rows : i \notin ActiveRows =>
           i \notin ActiveRows' \/ \E p \in Controllers : pc[p] = "note" /\ row[p] = i]_vars
  BY CooldownStep DEF RevivedByItsStart
<1> QED BY <1>1, CooldownInvariant, PTL DEF Spec, ResolvedStaysResolved


-----------------------------------------------------------------------------
(* Budgets.  The invariant says of every lock a caller paid for that the     *)
(* seconds it paid fit between the moment it got the lock and the moment its *)
(* row has the holding metered up to, which is never later than what the     *)
(* memory has: so a restart, which reads the row, charges nothing again      *)
(* unless it was never charged.  One book is followed at a time: each of its *)
(* operations keeps BookSound, and what is said of a whole walk of holdings  *)
(* follows by the facts about folds of DataProofs.                           *)

(*************************** sums of whole seconds **************************)

(* A division rounds down, and one that was made larger by the divisor less  *)
(* one rounds up.                                                            *)
LEMMA WholeSeconds ==
  ASSUME NEW d \in Nat \ {0}, NEW x \in Int
  PROVE  x \div d \in Int /\ (x \div d) * d <= x /\ x < (x \div d + 1) * d
OBVIOUS

LEMMA BegunSeconds ==
  ASSUME NEW d \in Nat \ {0}, NEW x \in Int, NEW u \in Int, u * d <= x + d - 1
  PROVE  u <= (x + d - 1) \div d
OBVIOUS

LEMMA LaterIsMore ==
  ASSUME NEW d \in Nat \ {0}, NEW x \in Int, NEW y \in Int, x <= y
  PROVE  x \div d <= y \div d
OBVIOUS

(******************************* the invariant ******************************)

(* What is kept of a lock: what was paid for it fits in the time it was held *)
(* up to where the table has it metered.                                     *)
HoldSound(b, l, t) ==
  /\ b.charged[l].since <= t
  /\ b.charged[l].units <= (t - b.charged[l].since + Second - 1) \div Second
  /\ IF b.holdings[l] = None THEN b.rows[l] = None \/ b.rows[l].expires < t
     ELSE /\ b.account # None /\ b.rows[l] # None
          /\ b.rows[l].expires = b.holdings[l].expires
          /\ b.charged[l].since + b.charged[l].units * Second <= b.rows[l].metered
          /\ b.rows[l].metered <= b.holdings[l].metered
          /\ b.holdings[l].metered <= t

BookSound(b, t) ==
  /\ b \in Book
  /\ b.budget = IF b.account = None THEN None
                ELSE [limit |-> b.account.limit, overdraft |-> b.account.overdraft,
                      period |-> b.account.period]
  /\ b.rule = IF b.alerts = None THEN None ELSE b.alerts.rule
  /\ b.billed <= t
  /\ b.account # None => /\ b.budget # None
                         /\ b.billed <= b.account.start
                         /\ b.account.start <= b.account.end
                         /\ b.account.start <= t
  /\ \A l \in Locks : HoldSound(b, l, t)

(* Who holds what: the leases, and what the lock manager has yet to report.  *)
LeasesSound ==
  /\ leases \in [Locks -> [holder : Callers \cup {NoCaller}, until : Nat]]
  /\ \A l \in Locks : leases[l] = NoLease \/ leases[l].holder \in Callers
  /\ call # None => /\ call.lock \in Locks /\ call.at \in Nat /\ call.at <= now
                    /\ leases[call.lock].holder \in Callers
  /\ \A c \in Callers, l \in Locks :
       books[c].holdings[l] # None => leases[l].holder = c

BudgetInv ==
  /\ bound \in Bounds /\ beat \in BOOLEAN /\ now \in Time
  /\ requests \in 0..bound.requests /\ restarts \in 0..bound.restarts
  /\ books \in [Callers -> Book]
  /\ \A c \in Callers : BookSound(books[c], now)
  /\ LeasesSound

(***************************** rate alerts **********************************)

(* What is left of a window is a window of what was in it (checkTrigger).    *)
LEMMA FromIsWindow ==
  ASSUME NEW S, NEW w \in Seq([at : Nat, units : S]), NEW cutoff \in Int
  PROVE  From(w, cutoff) \in Seq([at : Nat, units : S])
<1> DEFINE late == {i \in DOMAIN w : w[i].at >= cutoff}
<1>1. CASE late = {}
  BY <1>1 DEF From
<1>2. CASE late # {}
  <2>1. late \in SUBSET Nat
    OBVIOUS
  <2>2. PICK m \in late : \A y \in late : m <= y
    BY <1>2, <2>1, LeastMember
  <2>3. Min(late) = m
    BY <2>1, <2>2 DEF Min
  <2>4. SubSeq(w, m, Len(w)) \in Seq([at : Nat, units : S])
    <3>1. m \in 1..Len(w) /\ Len(w) \in Nat
      OBVIOUS
    <3>2. ASSUME NEW i \in m..Len(w) PROVE w[i] \in [at : Nat, units : S]
      <4>1. i \in 1..Len(w)
        BY <3>1
      <4> QED BY <4>1, ElementOfSeq
    <3> QED BY <3>1, <3>2
  <2> QED BY <1>2, <2>3, <2>4 DEF From
<1> QED BY <1>1, <1>2

(* What an alert may change: the alerts but for their rule, and the freeze.  *)
AlertedOnly(b, x) ==
  /\ x \in Book
  /\ \A f \in {"account", "holdings", "budget", "rows", "arrears", "billed", "rule", "charged"} :
       x[f] = b[f]
  /\ x.alerts = None <=> b.alerts = None
  /\ b.alerts # None => x.alerts.rule = b.alerts.rule

LEMMA AlertKeeps ==
  ASSUME NEW b \in Book, b.alerts # None, NEW at \in Nat
  PROVE  AlertedOnly(b, Alert(b, at))
<1>1. b.alerts \in Alerts
  BY DEF Book
<1> DEFINE n == b.alerts.count + 1
           z == [[b.alerts EXCEPT !.count = n] EXCEPT !.last = at]
           fz == n >= b.alerts.rule.freeze
<1>2. z \in Alerts /\ z.rule = b.alerts.rule
  <2>1. n \in Nat /\ at \in Int
    BY <1>1 DEF Alerts
  <2>2. \A a \in Alerts : \A i \in Nat, j \in Int :
          /\ [a EXCEPT !.count = i] \in Alerts /\ [a EXCEPT !.count = i].rule = a.rule
          /\ [a EXCEPT !.last = j] \in Alerts /\ [a EXCEPT !.last = j].rule = a.rule
    BY DEF Alerts
  <2> HIDE DEF n
  <2> QED BY <1>1, <2>1, <2>2
<1>3. z # None
  BY <1>2, NoneAssumption
<1>4. fz \in BOOLEAN
  BY <1>1 DEF Alerts, Rule
<1>5. Alert(b, at) = [[b EXCEPT !.alerts = z] EXCEPT !.frozen = fz]
  BY <1>1 DEF Alert, Book, Alerts
<1> HIDE DEF z, fz
<1>6. [[b EXCEPT !.alerts = z] EXCEPT !.frozen = fz] \in Book
  BY <1>2, <1>4 DEF Book
<1> QED BY <1>2, <1>3, <1>5, <1>6 DEF AlertedOnly, Book

(* RecordConsumption touches nothing else.                                   *)
LEMMA RecordKeeps ==
  ASSUME bound \in Bounds, NEW b \in Book, NEW n \in Nat \ {0}, NEW at \in Nat
  PROVE  AlertedOnly(b, RecordConsumption(b, n, at))
<1>1. CASE b.alerts = None \/ b.frozen
  BY <1>1 DEF RecordConsumption, AlertedOnly
<1>2. CASE ~ (b.alerts = None \/ b.frozen)
  <2>1. b.alerts \in Alerts /\ b.alerts # None
    BY <1>2 DEF Book
  <2> DEFINE r == b.alerts.rule
             w == From(Append(b.alerts.window, [at |-> at, units |-> n]), at - r.window * Second)
             recorded == [b EXCEPT !.alerts.window = w]
  <2>2. Second \in Nat \ {0} /\ r \in Rule
    BY <2>1, LockBudgetAssumption DEF Second, BoundSet, Alerts
  <2>3. r.window * Second \in Nat
    BY <2>2 DEF Rule
  <2>4. w \in Seq([at : Nat, units : Nat \ {0}])
    <3>1. Append(b.alerts.window, [at |-> at, units |-> n]) \in Seq([at : Nat, units : Nat \ {0}])
      BY <2>1 DEF Alerts
    <3>2. at - r.window * Second \in Int
      BY <2>3
    <3> QED BY <3>1, <3>2, FromIsWindow
  <2> HIDE DEF w
  <2>5. [b.alerts EXCEPT !.window = w] \in Alerts /\ [b.alerts EXCEPT !.window = w].rule = r
    BY <2>1, <2>4 DEF Alerts
  <2>6. recorded = [b EXCEPT !.alerts = [b.alerts EXCEPT !.window = w]]
    OBVIOUS
  <2>7. AlertedOnly(b, recorded) /\ recorded.alerts # None
    BY <2>1, <2>5, <2>6, NoneAssumption DEF AlertedOnly, Book
  <2>8. RecordConsumption(b, n, at) = Alert(recorded, at) \/ RecordConsumption(b, n, at) = recorded
    BY <1>2 DEF RecordConsumption, w
  <2>9. AlertedOnly(recorded, Alert(recorded, at))
    BY <2>7, AlertKeeps DEF AlertedOnly
  <2> HIDE DEF recorded
  <2> QED BY <2>1, <2>7, <2>8, <2>9 DEF AlertedOnly
<1> QED BY <1>1, <1>2

(************************* charging and metering ****************************)

(* What metering leaves alone of a book.                                     *)
SameBook(b, x) ==
  /\ x.budget = b.budget /\ x.rule = b.rule /\ x.arrears = b.arrears /\ x.billed = b.billed
  /\ x.account # None
  /\ x.account.limit = b.account.limit /\ x.account.overdraft = b.account.overdraft
  /\ x.account.period = b.account.period
  /\ x.account.start = b.account.start /\ x.account.end = b.account.end
  /\ \A l \in Locks : x.holdings[l] # None => b.holdings[l] # None

(* A book in use that was metered, whole seconds only.                       *)
MeteredBook(b, t, x) == BookSound(x, t) /\ SameBook(b, x)

(* What an account may be charged: nothing but what was used up.             *)
LEMMA PenaltyIsNat ==
  ASSUME NEW a \in Account, NEW units \in Nat
  PROVE  Penalty(a, units) \in Nat
<1>1. Larger(a.limit - a.consumed, 0) \in Int
  BY DEF Larger, Account
<1>2. \A x \in Int : x > 0 => (x + 1) \div 2 \in Nat
  OBVIOUS
<1> QED BY <1>1, <1>2 DEF Penalty

ChargedOnly(b, l, units, x) ==
  /\ x \in Book
  /\ \A f \in {"holdings", "alerts", "budget", "rows", "arrears", "billed", "rule"} : x[f] = b[f]
  /\ x.account \in Account
  /\ \A f \in {"limit", "overdraft", "period", "start", "end"} : x.account[f] = b.account[f]
  /\ x.charged = [b.charged EXCEPT ![l] = [since |-> b.charged[l].since,
                                           units |-> b.charged[l].units + units]]

LEMMA ChargeKeeps ==
  ASSUME NEW b \in Book, b.account # None, NEW l \in Locks, NEW units \in Nat
  PROVE  ChargedOnly(b, l, units, Charge(b, l, units))
<1> DEFINE p == Penalty(b.account, units)
           a == [[b.account EXCEPT !.consumed = b.account.consumed + units + p]
                   EXCEPT !.penalty = b.account.penalty + p]
           h == [since |-> b.charged[l].since, units |-> b.charged[l].units + units]
           ch == [b.charged EXCEPT ![l] = h]
<1>1. b.account \in Account /\ b.charged \in [Locks -> [since : Nat, units : Nat]]
  BY DEF Book
<1>2. p \in Nat
  BY <1>1, PenaltyIsNat
<1>3. Charge(b, l, units) = [[b EXCEPT !.account = a] EXCEPT !.charged = ch]
  <2>1. [b.charged[l] EXCEPT !.units = b.charged[l].units + units] = h
    BY <1>1
  <2>2. [b.charged EXCEPT ![l].units = b.charged[l].units + units] = ch
    BY <2>1
  <2> HIDE DEF h, ch
  <2>3. Charge(b, l, units) =
          [[b EXCEPT !.account = a] EXCEPT !.charged = [b.charged EXCEPT ![l].units = b.charged[l].units + units]]
    <3>1. {"account", "charged"} \subseteq DOMAIN b /\ {"consumed", "penalty"} \subseteq DOMAIN b.account
      BY <1>1 DEF Book, Account
    <3> HIDE DEF p
    <3> QED BY <3>1 DEF Charge, p
  <2> QED BY <2>2, <2>3
<1> HIDE DEF p
<1>4. a \in Account /\ \A f \in {"limit", "overdraft", "period", "start", "end"} : a[f] = b.account[f]
  <2> DEFINE Paying(x, i, j) == [[x EXCEPT !.consumed = i] EXCEPT !.penalty = j]
             Alike(x, y) == /\ y \in Account
                            /\ \A f \in {"limit", "overdraft", "period", "start", "end"} : y[f] = x[f]
  <2>1. b.account.consumed + units + p \in Nat /\ b.account.penalty + p \in Nat
    BY <1>1, <1>2 DEF Account
  <2>2. \A x \in Account, i, j \in Nat : Alike(x, Paying(x, i, j))
    BY DEF Account
  <2>3. a = Paying(b.account, b.account.consumed + units + p, b.account.penalty + p)
    OBVIOUS
  <2> HIDE DEF Paying, Alike, a
  <2>4. Alike(b.account, a)
    BY <1>1, <2>1, <2>2, <2>3
  <2> QED BY <2>4 DEF Alike
<1>5. ch \in [Locks -> [since : Nat, units : Nat]]
  BY <1>1
<1> HIDE DEF a, ch
<1>6. [[b EXCEPT !.account = a] EXCEPT !.charged = ch] \in Book
  BY <1>4, <1>5 DEF Book
<1>7. ch = [b.charged EXCEPT ![l] = [since |-> b.charged[l].since,
                                     units |-> b.charged[l].units + units]]
  BY DEF ch
<1> QED BY <1>3, <1>4, <1>6, <1>7 DEF ChargedOnly, Book

(* What is overdrawn is written down.                                        *)
LEMMA OverdrawKeeps ==
  ASSUME NEW b \in Book, b.account # None
  PROVE  /\ Overdraw(b) \in Book /\ Overdraw(b).account \in Account
         /\ \A f \in {"holdings", "alerts", "budget", "rows", "arrears", "billed", "rule", "charged"} :
              Overdraw(b)[f] = b[f]
         /\ \A f \in {"limit", "overdraft", "period", "start", "end"} :
              Overdraw(b).account[f] = b.account[f]
<1>1. b.account \in Account
  BY DEF Book
<1>2. CASE b.account.consumed > b.account.limit
  <2> DEFINE n == b.account.consumed - b.account.limit
             a == [b.account EXCEPT !.current = n]
  <2>1. n \in Nat
    BY <1>1, <1>2 DEF Account
  <2>2. Overdraw(b) = [b EXCEPT !.account = a]
    BY <1>2 DEF Overdraw
  <2> HIDE DEF n
  <2>3. a \in Account /\ \A f \in {"limit", "overdraft", "period", "start", "end"} : a[f] = b.account[f]
    BY <1>1, <2>1 DEF Account
  <2> HIDE DEF a
  <2>4. [b EXCEPT !.account = a] \in Book
    BY <2>3 DEF Book
  <2> QED BY <2>2, <2>3, <2>4 DEF Book
<1>3. CASE ~ (b.account.consumed > b.account.limit)
  BY <1>1, <1>3 DEF Overdraw
<1> QED BY <1>2, <1>3

(* A book that was charged so many units for a lock, and the alerts told.    *)
Recorded(b, l, units, x) ==
  /\ x \in Book
  /\ \A f \in {"holdings", "budget", "rows", "arrears", "billed", "rule"} : x[f] = b[f]
  /\ x.account \in Account
  /\ \A f \in {"limit", "overdraft", "period", "start", "end"} : x.account[f] = b.account[f]
  /\ x.alerts = None <=> b.alerts = None
  /\ b.alerts # None => x.alerts.rule = b.alerts.rule
  /\ x.charged = [b.charged EXCEPT ![l] = [since |-> b.charged[l].since,
                                           units |-> b.charged[l].units + units]]

LEMMA ChargeAndRecordKeeps ==
  ASSUME bound \in Bounds, NEW b \in Book, b.account # None, NEW l \in Locks,
         NEW units \in Nat \ {0}, NEW at \in Nat
  PROVE  Recorded(b, l, units, ChargeAndRecord(b, l, units, at))
<1> DEFINE y == Charge(b, l, units)
           z == Overdraw(y)
           n == units + Penalty(b.account, units)
<1>1. ChargedOnly(b, l, units, y)
  BY ChargeKeeps
<1> HIDE DEF y
<1>2. y \in Book /\ y.account # None
  BY <1>1, NoneAssumption DEF ChargedOnly
<1>3. /\ z \in Book /\ z.account \in Account
      /\ \A f \in {"holdings", "alerts", "budget", "rows", "arrears", "billed", "rule", "charged"} : z[f] = y[f]
      /\ \A f \in {"limit", "overdraft", "period", "start", "end"} : z.account[f] = y.account[f]
  BY <1>2, OverdrawKeeps
<1>4. n \in Nat \ {0}
  <2>1. Penalty(b.account, units) \in Nat
    BY PenaltyIsNat DEF Book
  <2> QED BY <2>1
<1> HIDE DEF z, n
<1>5. AlertedOnly(z, RecordConsumption(z, n, at))
  BY <1>3, <1>4, RecordKeeps
<1>6. ChargeAndRecord(b, l, units, at) = RecordConsumption(z, n, at)
  BY DEF ChargeAndRecord, y, z, n
<1> DEFINE x == RecordConsumption(z, n, at)
<1> HIDE DEF x
<1>7. /\ x \in Book
      /\ \A f \in {"holdings", "budget", "rows", "arrears", "billed", "rule"} : x[f] = b[f]
  BY <1>1, <1>3, <1>5 DEF x, AlertedOnly, ChargedOnly
<1>8. /\ x.account \in Account
      /\ \A f \in {"limit", "overdraft", "period", "start", "end"} : x.account[f] = b.account[f]
  BY <1>1, <1>3, <1>5 DEF x, AlertedOnly, ChargedOnly
<1>9. /\ x.alerts = None <=> b.alerts = None
      /\ b.alerts # None => x.alerts.rule = b.alerts.rule
  BY <1>1, <1>3, <1>5 DEF x, AlertedOnly, ChargedOnly
<1>10. x.charged = [b.charged EXCEPT ![l] = [since |-> b.charged[l].since,
                                             units |-> b.charged[l].units + units]]
  BY <1>1, <1>3, <1>5 DEF x, AlertedOnly, ChargedOnly
<1>11. Recorded(b, l, units, x)
  BY <1>7, <1>8, <1>9, <1>10 DEF Recorded
<1> QED BY <1>6, <1>11 DEF x

(* A charge alone is such a book too: no alert hears of it.                  *)
LEMMA ChargedIsRecorded ==
  ASSUME NEW b, NEW l, NEW units, NEW x, ChargedOnly(b, l, units, x)
  PROVE  Recorded(b, l, units, x)
BY DEF ChargedOnly, Recorded

(* One lock of a book may change, within what is sound of it.                *)
OneHold(b, l, t, x) ==
  /\ x \in Book /\ x.account \in Account
  /\ \A f \in {"budget", "rule", "arrears", "billed"} : x[f] = b[f]
  /\ \A f \in {"limit", "overdraft", "period", "start", "end"} : x.account[f] = b.account[f]
  /\ x.alerts = None <=> b.alerts = None
  /\ b.alerts # None => x.alerts.rule = b.alerts.rule
  /\ \A m \in Locks \ {l} : /\ x.holdings[m] = b.holdings[m] /\ x.rows[m] = b.rows[m]
                            /\ x.charged[m] = b.charged[m]
  /\ x.holdings[l] # None => b.holdings[l] # None
  /\ HoldSound(x, l, t)

LEMMA OneHoldKeeps ==
  ASSUME NEW b, NEW t, BookSound(b, t), b.account # None, NEW l \in Locks, NEW x,
         OneHold(b, l, t, x)
  PROVE  MeteredBook(b, t, x)
<1>1. x.account # None
  BY NoneAssumption DEF OneHold
<1>2. \A m \in Locks : HoldSound(x, m, t)
  <2> SUFFICES ASSUME NEW m \in Locks, m # l PROVE HoldSound(x, m, t)
    BY DEF OneHold
  <2>1. HoldSound(b, m, t)
    BY DEF BookSound
  <2>2. x.holdings[m] = b.holdings[m] /\ x.rows[m] = b.rows[m] /\ x.charged[m] = b.charged[m]
    BY DEF OneHold
  <2> QED BY <1>1, <2>1, <2>2 DEF HoldSound
<1>3. SameBook(b, x)
  <2>1. \A m \in Locks : x.holdings[m] # None => b.holdings[m] # None
    BY DEF OneHold
  <2> QED BY <1>1, <2>1 DEF OneHold, SameBook
<1>4. /\ x.budget = IF x.account = None THEN None
                    ELSE [limit |-> x.account.limit, overdraft |-> x.account.overdraft,
                          period |-> x.account.period]
      /\ x.billed <= t
      /\ x.account # None => /\ x.budget # None
                             /\ x.billed <= x.account.start
                             /\ x.account.start <= x.account.end
                             /\ x.account.start <= t
  BY <1>1, <1>3 DEF BookSound, SameBook
<1>5. x.rule = IF x.alerts = None THEN None ELSE x.alerts.rule
  BY DEF BookSound, OneHold
<1>6. BookSound(x, t)
  BY <1>2, <1>4, <1>5 DEF BookSound, OneHold
<1> QED BY <1>3, <1>6 DEF MeteredBook

LEMMA MeteredKeeps ==
  ASSUME NEW b \in Book, NEW l \in Locks, b.holdings[l] # None, b.rows[l] # None, NEW m \in Nat
  PROVE  LET x == Metered(b, l, m)
         IN /\ x \in Book
            /\ \A f \in {"account", "alerts", "budget", "arrears", "billed", "rule", "charged"} : x[f] = b[f]
            /\ x.holdings = [b.holdings EXCEPT ![l] = [expires |-> b.holdings[l].expires, metered |-> m]]
            /\ x.rows = [b.rows EXCEPT ![l] = [expires |-> b.rows[l].expires, metered |-> m]]
<1> DEFINE hs == [b.holdings EXCEPT ![l] = [expires |-> b.holdings[l].expires, metered |-> m]]
           rs == [b.rows EXCEPT ![l] = [expires |-> b.rows[l].expires, metered |-> m]]
           x == [[b EXCEPT !.holdings = hs] EXCEPT !.rows = rs]
<1>1. b.holdings[l] \in Holding /\ b.rows[l] \in Holding
  BY DEF Book
<1>2. /\ [b.holdings[l] EXCEPT !.metered = m] = [expires |-> b.holdings[l].expires, metered |-> m]
      /\ [b.rows[l] EXCEPT !.metered = m] = [expires |-> b.rows[l].expires, metered |-> m]
  BY <1>1 DEF Holding
<1>3. Metered(b, l, m) = x
  <2>1. {"holdings", "rows"} \subseteq DOMAIN b
    BY DEF Book
  <2>2. hs = [b.holdings EXCEPT ![l].metered = m] /\ rs = [b.rows EXCEPT ![l].metered = m]
    BY <1>2
  <2> HIDE DEF hs, rs
  <2> QED BY <2>1, <2>2 DEF Metered
<1>4. hs \in [Locks -> Holding \cup {None}] /\ rs \in [Locks -> Holding \cup {None}]
  BY <1>1 DEF Book, Holding
<1> HIDE DEF hs, rs
<1>5. x \in Book /\ x.holdings = hs /\ x.rows = rs
      /\ \A f \in {"account", "alerts", "budget", "arrears", "billed", "rule", "charged"} : x[f] = b[f]
  BY <1>4 DEF Book
<1> HIDE DEF x
<1> QED BY <1>3, <1>5 DEF hs, rs

LEMMA DropKeeps ==
  ASSUME NEW b \in Book, NEW l \in Locks
  PROVE  LET x == Drop(b, l)
         IN /\ x \in Book
            /\ \A f \in {"account", "alerts", "budget", "arrears", "billed", "rule", "charged"} : x[f] = b[f]
            /\ x.holdings = [b.holdings EXCEPT ![l] = None]
            /\ x.rows = [b.rows EXCEPT ![l] = None]
<1>1. /\ [b.holdings EXCEPT ![l] = None] \in [Locks -> Holding \cup {None}]
      /\ [b.rows EXCEPT ![l] = None] \in [Locks -> Holding \cup {None}]
  BY DEF Book
<1>2. Drop(b, l) = [[b EXCEPT !.holdings = [b.holdings EXCEPT ![l] = None]]
                       EXCEPT !.rows = [b.rows EXCEPT ![l] = None]]
  <2>1. {"holdings", "rows"} \subseteq DOMAIN b
    BY DEF Book
  <2> QED BY <2>1 DEF Drop
<1> QED BY <1>1, <1>2 DEF Book

(* What was paid stays within the time that passed when whole seconds are    *)
(* added.                                                                    *)
LEMMA PaidWithin ==
  ASSUME NEW d \in Nat \ {0}, NEW since \in Nat, NEW u \in Nat, NEW w \in Nat, NEW m \in Nat,
         NEW e \in Nat, NEW t \in Nat, since + u * d <= m, m + w * d <= e, e <= t
  PROVE  since + (u + w) * d <= e /\ u + w <= (t - since + d - 1) \div d /\ since <= t
<1>1. (u + w) * d = u * d + w * d /\ u * d \in Nat /\ w * d \in Nat
  OBVIOUS
<1> DEFINE a == u * d
           c == w * d
<1> HIDE DEF a, c
<1>2. since + (u + w) * d <= e
  <2>1. a \in Nat /\ c \in Nat /\ (u + w) * d = a + c /\ since + a <= m /\ m + c <= e
    BY <1>1 DEF a, c
  <2> HIDE DEF a, c
  <2> QED BY <2>1
<1> DEFINE k == (u + w) * d
<1>3. k <= (t - since) + d - 1
  <2>1. k \in Nat /\ since + k <= e
    BY <1>1, <1>2
  <2> HIDE DEF k
  <2> QED BY <2>1
<1>4. t - since \in Int /\ u + w \in Int
  OBVIOUS
<1>5. u + w <= (t - since + d - 1) \div d
  BY <1>3, <1>4, BegunSeconds
<1>6. since <= t
  <2>1. k \in Nat /\ since + k <= e
    BY <1>1, <1>2
  <2> HIDE DEF k
  <2> QED BY <2>1
<1> QED BY <1>2, <1>5, <1>6

LEMMA SecondIsPositive ==
  ASSUME bound \in Bounds
  PROVE  Second \in Nat \ {0}
BY LockBudgetAssumption DEF Second, BoundSet

(* A holding that is paid up to a later time stays sound.                    *)
LEMMA MeteredLater ==
  ASSUME bound \in Bounds, NEW b, NEW t \in Nat, BookSound(b, t), b.account # None,
         NEW l \in Locks, b.holdings[l] # None, NEW e \in Nat, b.holdings[l].metered <= e, e <= t
  PROVE  MeteredBook(b, t, Metered(b, l, e))
<1> DEFINE x == Metered(b, l, e)
<1>1. b \in Book /\ HoldSound(b, l, t)
  BY DEF BookSound
<1>2. b.rows[l] # None /\ b.holdings[l] \in Holding /\ b.rows[l] \in Holding
      /\ b.charged[l] \in [since : Nat, units : Nat]
  BY <1>1 DEF HoldSound, Book
<1>3. /\ x \in Book
      /\ \A f \in {"account", "alerts", "budget", "arrears", "billed", "rule", "charged"} : x[f] = b[f]
      /\ x.holdings = [b.holdings EXCEPT ![l] = [expires |-> b.holdings[l].expires, metered |-> e]]
      /\ x.rows = [b.rows EXCEPT ![l] = [expires |-> b.rows[l].expires, metered |-> e]]
  BY <1>1, <1>2, MeteredKeeps
<1> HIDE DEF x
<1>4. /\ x.holdings[l] = [expires |-> b.holdings[l].expires, metered |-> e]
      /\ x.rows[l] = [expires |-> b.rows[l].expires, metered |-> e]
      /\ \A m \in Locks \ {l} : x.holdings[m] = b.holdings[m] /\ x.rows[m] = b.rows[m]
  BY <1>1, <1>3 DEF Book
<1>5. x.holdings[l] # None /\ x.rows[l] # None
  <2>1. x.holdings[l] \in Holding /\ x.rows[l] \in Holding
    BY <1>2, <1>4 DEF Holding
  <2> QED BY <2>1, NoneAssumption
<1>6. b.charged[l].since + b.charged[l].units * Second <= e
  <2>1. b.charged[l].units * Second \in Nat
    BY <1>2, SecondIsPositive
  <2> DEFINE p == b.charged[l].units * Second
  <2>2. p \in Nat /\ b.charged[l].since + p <= b.rows[l].metered /\ b.rows[l].metered <= b.holdings[l].metered
    BY <1>1, <2>1 DEF HoldSound
  <2> HIDE DEF p
  <2>3. b.charged[l].since + p <= e
    BY <1>2, <2>2 DEF Holding
  <2> QED BY <2>3 DEF p
<1>7. HoldSound(x, l, t)
  <2>1. x.charged[l] = b.charged[l] /\ x.account = b.account
    BY <1>3
  <2>2. /\ x.holdings[l].metered = e /\ x.rows[l].metered = e
        /\ x.rows[l].expires = x.holdings[l].expires
    BY <1>1, <1>4 DEF HoldSound
  <2> QED BY <1>1, <1>5, <1>6, <2>1, <2>2 DEF HoldSound
<1>8. OneHold(b, l, t, x)
  <2>1. b.account \in Account
    BY <1>1 DEF Book
  <2> QED BY <1>3, <1>4, <1>7, <2>1 DEF OneHold
<1> QED BY <1>8, OneHoldKeeps DEF x

(* And one that is charged whole seconds, up to where they end or later.     *)
LEMMA ChargedLater ==
  ASSUME bound \in Bounds, NEW b, NEW t \in Nat, BookSound(b, t), b.account # None,
         NEW l \in Locks, b.holdings[l] # None, NEW e \in Nat, NEW units \in Nat,
         b.holdings[l].metered + units * Second <= e, e <= t,
         NEW y \in Book, Recorded(b, l, units, y)
  PROVE  MeteredBook(b, t, Metered(y, l, e))
<1> DEFINE x == Metered(y, l, e)
<1>1. b \in Book /\ HoldSound(b, l, t) /\ Second \in Nat \ {0}
  BY SecondIsPositive DEF BookSound
<1>2. b.rows[l] # None /\ b.holdings[l] \in Holding /\ b.rows[l] \in Holding
      /\ b.charged[l] \in [since : Nat, units : Nat]
  BY <1>1 DEF HoldSound, Book
<1>3. /\ x \in Book
      /\ \A f \in {"account", "alerts", "budget", "arrears", "billed", "rule", "charged"} : x[f] = y[f]
      /\ x.holdings = [b.holdings EXCEPT ![l] = [expires |-> b.holdings[l].expires, metered |-> e]]
      /\ x.rows = [b.rows EXCEPT ![l] = [expires |-> b.rows[l].expires, metered |-> e]]
  <2>1. y \in Book /\ y.holdings = b.holdings /\ y.rows = b.rows
    BY DEF Recorded
  <2>2. y.holdings[l] # None /\ y.rows[l] # None
    BY <1>2, <2>1
  <2>3. /\ x \in Book
        /\ \A f \in {"account", "alerts", "budget", "arrears", "billed", "rule", "charged"} : x[f] = y[f]
        /\ x.holdings = [y.holdings EXCEPT ![l] = [expires |-> y.holdings[l].expires, metered |-> e]]
        /\ x.rows = [y.rows EXCEPT ![l] = [expires |-> y.rows[l].expires, metered |-> e]]
    BY <2>1, <2>2, MeteredKeeps
  <2> HIDE DEF x
  <2> QED BY <2>1, <2>3
<1> HIDE DEF x
<1>4. /\ x.holdings[l] = [expires |-> b.holdings[l].expires, metered |-> e]
      /\ x.rows[l] = [expires |-> b.rows[l].expires, metered |-> e]
      /\ \A m \in Locks \ {l} : x.holdings[m] = b.holdings[m] /\ x.rows[m] = b.rows[m]
  BY <1>1, <1>3 DEF Book
<1>5. x.holdings[l] # None /\ x.rows[l] # None
  <2>1. x.holdings[l] \in Holding /\ x.rows[l] \in Holding
    BY <1>2, <1>4 DEF Holding
  <2> QED BY <2>1, NoneAssumption
<1>10. /\ y.account \in Account
       /\ \A f \in {"budget", "arrears", "billed", "rule"} : y[f] = b[f]
       /\ \A f \in {"limit", "overdraft", "period", "start", "end"} : y.account[f] = b.account[f]
       /\ y.alerts = None <=> b.alerts = None
       /\ b.alerts # None => y.alerts.rule = b.alerts.rule
       /\ y.charged = [b.charged EXCEPT ![l] = [since |-> b.charged[l].since,
                                                units |-> b.charged[l].units + units]]
  BY DEF Recorded
<1> DEFINE since == b.charged[l].since
           u == b.charged[l].units
           m == b.holdings[l].metered
<1>6. /\ x.charged[l] = [since |-> since, units |-> u + units]
      /\ \A n \in Locks \ {l} : x.charged[n] = b.charged[n]
  <2>1. x.charged = y.charged
    BY <1>3
  <2>2. b.charged \in [Locks -> [since : Nat, units : Nat]]
    BY <1>1 DEF Book
  <2>3. x.charged = [b.charged EXCEPT ![l] = [since |-> since, units |-> u + units]]
    BY <1>10, <2>1
  <2> HIDE DEF since, u
  <2> QED BY <2>2, <2>3
<1>7. since + (u + units) * Second <= e /\ u + units <= (t - since + Second - 1) \div Second /\ since <= t
  <2>1. since \in Nat /\ u \in Nat /\ m \in Nat
    BY <1>2 DEF Holding
  <2>2. since + u * Second <= m
    <3> DEFINE p == u * Second
    <3>1. p \in Nat /\ since + p <= b.rows[l].metered /\ b.rows[l].metered <= m
      BY <1>1, <2>1 DEF HoldSound
    <3> HIDE DEF p, since, m
    <3>2. since + p <= m
      BY <1>2, <2>1, <3>1 DEF Holding
    <3> QED BY <3>2 DEF p
  <2>3. m + units * Second <= e
    OBVIOUS
  <2> HIDE DEF since, u, m
  <2> QED BY <1>1, <2>1, <2>2, <2>3, PaidWithin
<1>8. HoldSound(x, l, t)
  <2>1. x.account # None
    BY <1>3, <1>10, NoneAssumption
  <2>2. /\ x.holdings[l].metered = e /\ x.rows[l].metered = e
        /\ x.rows[l].expires = x.holdings[l].expires
    BY <1>1, <1>4 DEF HoldSound
  <2>3. x.charged[l].since = since /\ x.charged[l].units = u + units
    BY <1>6
  <2> HIDE DEF since, u, m
  <2> QED BY <1>5, <1>7, <2>1, <2>2, <2>3 DEF HoldSound
<1>9. OneHold(b, l, t, x)
  <2>1. x.account = y.account /\ x.alerts = y.alerts
    BY <1>3
  <2>2. /\ x.account \in Account
        /\ \A f \in {"limit", "overdraft", "period", "start", "end"} : x.account[f] = b.account[f]
        /\ x.alerts = None <=> b.alerts = None
        /\ b.alerts # None => x.alerts.rule = b.alerts.rule
    BY <1>10, <2>1
  <2>3. \A f \in {"budget", "rule", "arrears", "billed"} : x[f] = b[f]
    BY <1>3, <1>10
  <2> QED BY <1>3, <1>4, <1>6, <1>8, <2>2, <2>3 DEF OneHold
<1> QED BY <1>9, OneHoldKeeps DEF x

(* A lock whose lease is over is dropped.                                    *)
LEMMA DroppedBook ==
  ASSUME NEW b, NEW t \in Nat, BookSound(b, t), b.account # None, NEW l \in Locks
  PROVE  MeteredBook(b, t, Drop(b, l))
<1> DEFINE x == Drop(b, l)
<1>1. b \in Book /\ HoldSound(b, l, t)
  BY DEF BookSound
<1>2. /\ x \in Book
      /\ \A f \in {"account", "alerts", "budget", "arrears", "billed", "rule", "charged"} : x[f] = b[f]
      /\ x.holdings = [b.holdings EXCEPT ![l] = None]
      /\ x.rows = [b.rows EXCEPT ![l] = None]
  BY <1>1, DropKeeps
<1> HIDE DEF x
<1>3. x.holdings[l] = None /\ x.rows[l] = None
      /\ \A m \in Locks \ {l} : x.holdings[m] = b.holdings[m] /\ x.rows[m] = b.rows[m]
  BY <1>1, <1>2 DEF Book
<1>4. HoldSound(x, l, t)
  BY <1>1, <1>2, <1>3 DEF HoldSound
<1>5. b.account \in Account
  BY <1>1 DEF Book
<1>6. OneHold(b, l, t, x)
  BY <1>2, <1>3, <1>4, <1>5 DEF OneHold
<1> QED BY <1>6, OneHoldKeeps DEF x

(* One holding of a tick (MeterHolding), and one at the end of a period.     *)
LEMMA MeterHoldingKeeps ==
  ASSUME bound \in Bounds, NEW b, NEW t \in Nat, BookSound(b, t), b.account # None,
         NEW l \in Locks, NEW inArrears \in BOOLEAN
  PROVE  MeteredBook(b, t, MeterHolding(b, l, t, inArrears))
<1> DEFINE h == b.holdings[l]
           units == (t - h.metered) \div Second
           x == MeterHolding(b, l, t, inArrears)
<1>1. b \in Book /\ HoldSound(b, l, t) /\ Second \in Nat \ {0} /\ MeteredBook(b, t, b)
  BY SecondIsPositive DEF BookSound, MeteredBook, SameBook
<1>2. CASE h = None
  BY <1>1, <1>2 DEF MeterHolding
<1>3. CASE h # None
  <2>1. h \in Holding /\ h.metered <= t
    BY <1>1, <1>3 DEF HoldSound, Book
  <2>2. h.metered \in Nat /\ h.expires \in Nat /\ t - h.metered \in Int
    BY <2>1 DEF Holding
  <2>3. units \in Int /\ units * Second <= t - h.metered
    BY <1>1, <2>2, WholeSeconds
  <2>4. CASE h.expires <= t
    BY <1>3, <2>2, <2>4, DroppedBook DEF MeterHolding
  <2>5. CASE h.expires > t /\ inArrears
    <3>1. x = Metered(b, l, t)
      BY <1>3, <2>2, <2>5 DEF MeterHolding
    <3> QED BY <1>3, <2>1, <3>1, MeteredLater
  <2>6. CASE h.expires > t /\ ~ inArrears /\ units > 0
    <3> DEFINE y == ChargeAndRecord(b, l, units, t)
               e == h.metered + units * Second
    <3>1. x = Metered(y, l, e)
      BY <1>3, <2>2, <2>6 DEF MeterHolding
    <3>2. units \in Nat \ {0} /\ e \in Nat /\ e <= t
      <4>1. units \in Nat \ {0}
        BY <2>3, <2>6
      <4>2. units * Second \in Nat
        BY <1>1, <4>1
      <4> DEFINE q == units * Second
      <4>3. q \in Nat /\ q <= t - h.metered
        BY <2>3, <4>2
      <4> HIDE DEF units, q
      <4>4. h.metered + q \in Nat /\ h.metered + q <= t
        BY <2>2, <4>3
      <4> QED BY <4>1, <4>4 DEF q
    <3> HIDE DEF units
    <3>3. Recorded(b, l, units, y)
      BY <1>1, <3>2, ChargeAndRecordKeeps
    <3> HIDE DEF y
    <3>4. b.holdings[l].metered + units * Second <= e
      BY <3>2
    <3>5. units \in Nat
      BY <3>2
    <3> HIDE DEF e
    <3>6. MeteredBook(b, t, Metered(y, l, e))
      <4>1. y \in Book
        BY <3>3 DEF Recorded
      <4> QED BY <1>3, <3>2, <3>3, <3>4, <3>5, <4>1, ChargedLater
    <3> QED BY <3>1, <3>6
  <2>7. CASE ~ (h.expires <= t) /\ ~ (h.expires > t /\ inArrears)
             /\ ~ (h.expires > t /\ ~ inArrears /\ units > 0)
    <3>1. x = b
      BY <1>3, <2>7 DEF MeterHolding
    <3> QED BY <1>1, <3>1
  <2> QED BY <2>2, <2>4, <2>5, <2>6, <2>7
<1> QED BY <1>2, <1>3

LEMMA FinalizeHoldingKeeps ==
  ASSUME bound \in Bounds, NEW b, NEW t \in Nat, BookSound(b, t), b.account # None,
         NEW l \in Locks, NEW end \in Nat, end <= t, NEW inArrears \in BOOLEAN
  PROVE  MeteredBook(b, t, FinalizeHolding(b, l, end, inArrears))
<1> DEFINE h == b.holdings[l]
           units == (end - h.metered) \div Second
           x == FinalizeHolding(b, l, end, inArrears)
<1>1. b \in Book /\ HoldSound(b, l, t) /\ Second \in Nat \ {0} /\ MeteredBook(b, t, b)
  BY SecondIsPositive DEF BookSound, MeteredBook, SameBook
<1>2. CASE h = None
  BY <1>1, <1>2 DEF FinalizeHolding
<1>3. CASE h # None
  <2>1. h \in Holding
    BY <1>1, <1>3 DEF Book
  <2>2. h.metered \in Nat /\ end - h.metered \in Int
    BY <2>1 DEF Holding
  <2>3. units \in Int /\ units * Second <= end - h.metered
    BY <1>1, <2>2, WholeSeconds
  <2>4. CASE h.metered < end /\ inArrears
    <3>1. x = Metered(b, l, end)
      BY <1>3, <2>2, <2>4 DEF FinalizeHolding
    <3>2. h.metered <= end
      BY <2>2, <2>4
    <3> QED BY <1>3, <3>1, <3>2, MeteredLater
  <2>5. CASE ~ (h.metered < end /\ inArrears) /\ ~ inArrears /\ units > 0
    <3> DEFINE y == Charge(b, l, units)
    <3>1. x = Metered(y, l, end)
      BY <1>3, <2>2, <2>5 DEF FinalizeHolding
    <3>2. units \in Nat
      BY <2>3, <2>5
    <3>3. h.metered + units * Second <= end
      <4> DEFINE q == units * Second
      <4>1. q \in Int /\ q <= end - h.metered
        BY <1>1, <2>3
      <4> HIDE DEF units, q
      <4>2. h.metered + q <= end
        BY <2>2, <4>1
      <4> QED BY <4>2 DEF q
    <3> HIDE DEF units
    <3>4. ChargedOnly(b, l, units, y)
      BY <1>1, <3>2, ChargeKeeps
    <3>5. Recorded(b, l, units, y) /\ y \in Book
      BY <3>4, ChargedIsRecorded DEF ChargedOnly
    <3> HIDE DEF y
    <3>6. MeteredBook(b, t, Metered(y, l, end))
      BY <1>3, <3>2, <3>3, <3>5, ChargedLater
    <3> QED BY <3>1, <3>6
  <2>6. CASE ~ (h.metered < end /\ inArrears) /\ ~ (~ inArrears /\ units > 0)
    <3>1. x = b
      BY <1>3, <2>6 DEF FinalizeHolding
    <3> QED BY <1>1, <3>1
  <2> QED BY <2>4, <2>5, <2>6
<1> QED BY <1>2, <1>3

(****************************** the folds ***********************************)

(* A tick meters the holdings of a book one after the other.                 *)
LEMMA MeterCallerStays ==
  ASSUME NEW V, NEW n \in Nat, NEW order \in [1..n -> Locks], NEW b \in V, NEW t, NEW inArrears,
         \A x \in V : \A l \in Locks : MeterHolding(x, l, t, inArrears) \in V
  PROVE  MeterCaller(b, t, order, inArrears) \in V
<1> DEFINE f == [a \in V \X Locks |-> MeterHolding(a[1], a[2], t, inArrears)]
           Is(x) == x = [s \in SUBSET DOMAIN order |->
                           IF s = {} THEN b
                           ELSE MeterHolding(x[s \ {Max(s)}], order[Max(s)], t, inArrears)]
           h == CHOOSE x : Is(x)
<1>1. f \in [V \X Locks -> V] /\ \A x \in V : \A l \in Locks : f[<<x, l>>] = MeterHolding(x, l, t, inArrears)
  OBVIOUS
<1> HIDE DEF f
<1>2. ASSUME NEW s \in SUBSET (1..n), s # {}
      PROVE  Max(s) \in 1..n /\ order[Max(s)] \in Locks
  <2>1. IsFiniteSet(1..n) /\ 1..n \subseteq Nat
    BY FS_Interval
  <2>2. IsFiniteSet(s) /\ s \in SUBSET Nat
    BY <2>1, FS_Subset
  <2>3. Max(s) \in 1..n
    BY <1>2, <2>2, MaxOfFinite
  <2> QED BY <2>3
<1>3. PICK g \in [SUBSET (1..n) -> V] : FoldOf(g, n, b, order, f)
  BY <1>1, FoldIsThere
<1>4. Is(g)
  <2>1. ASSUME NEW s \in SUBSET (1..n), s # {}
        PROVE  g[s] = MeterHolding(g[s \ {Max(s)}], order[Max(s)], t, inArrears)
    <3>1. g[s] = f[<<g[s \ {Max(s)}], order[Max(s)]>>] /\ g[s \ {Max(s)}] \in V
      BY <1>3, <2>1 DEF FoldOf
    <3> QED BY <1>1, <1>2, <2>1, <3>1
  <2>2. g[{}] = b
    BY <1>3 DEF FoldOf
  <2>3. DOMAIN order = 1..n
    OBVIOUS
  <2> QED BY <2>1, <2>2, <2>3
<1>5. Is(h)
  <2> HIDE DEF Is
  <2> QED BY <1>4
<1>6. MeterCaller(b, t, order, inArrears) = h[DOMAIN order]
  BY DEF MeterCaller, FoldLeft, MapThenFoldSet
<1>7. \A s \in SUBSET (1..n) :
        h[s] = IF s = {} THEN b ELSE MeterHolding(h[s \ {Max(s)}], order[Max(s)], t, inArrears)
  <2>1. \A x : Is(x) => \A s \in SUBSET (1..n) :
          x[s] = IF s = {} THEN b ELSE MeterHolding(x[s \ {Max(s)}], order[Max(s)], t, inArrears)
    OBVIOUS
  <2> HIDE DEF h, Is
  <2> QED BY <1>5, <2>1
<1> HIDE DEF h
<1>8. h[1..n] \in V
  <2>1. h[{}] = b
    BY <1>7
  <2>2. ASSUME NEW s \in SUBSET (1..n), s # {}, h[s \ {Max(s)}] \in V
        PROVE  h[s] = f[<<h[s \ {Max(s)}], order[Max(s)]>>]
    BY <1>1, <1>2, <1>7, <2>2
  <2>3. FoldWithin(h, n, b, order, f, V)
    BY <2>1, <2>2 DEF FoldWithin
  <2> QED BY <1>1, <2>3, FoldStays
<1> QED BY <1>6, <1>8

(* The end of a period charges them one after the other as well.             *)
FinalizedHoldings(b, end, order, inArrears) ==
  FoldLeft(LAMBDA x, l : FinalizeHolding(x, l, end, inArrears), b, order)

LEMMA FinalizeFoldStays ==
  ASSUME NEW V, NEW n \in Nat, NEW order \in [1..n -> Locks], NEW b \in V, NEW end, NEW inArrears,
         \A x \in V : \A l \in Locks : FinalizeHolding(x, l, end, inArrears) \in V
  PROVE  FinalizedHoldings(b, end, order, inArrears) \in V
<1> DEFINE f == [a \in V \X Locks |-> FinalizeHolding(a[1], a[2], end, inArrears)]
           Is(x) == x = [s \in SUBSET DOMAIN order |->
                           IF s = {} THEN b
                           ELSE FinalizeHolding(x[s \ {Max(s)}], order[Max(s)], end, inArrears)]
           h == CHOOSE x : Is(x)
<1>1. f \in [V \X Locks -> V] /\ \A x \in V : \A l \in Locks : f[<<x, l>>] = FinalizeHolding(x, l, end, inArrears)
  OBVIOUS
<1> HIDE DEF f
<1>2. ASSUME NEW s \in SUBSET (1..n), s # {}
      PROVE  Max(s) \in 1..n /\ order[Max(s)] \in Locks
  <2>1. IsFiniteSet(1..n) /\ 1..n \subseteq Nat
    BY FS_Interval
  <2>2. IsFiniteSet(s) /\ s \in SUBSET Nat
    BY <2>1, FS_Subset
  <2>3. Max(s) \in 1..n
    BY <1>2, <2>2, MaxOfFinite
  <2> QED BY <2>3
<1>3. PICK g \in [SUBSET (1..n) -> V] : FoldOf(g, n, b, order, f)
  BY <1>1, FoldIsThere
<1>4. Is(g)
  <2>1. ASSUME NEW s \in SUBSET (1..n), s # {}
        PROVE  g[s] = FinalizeHolding(g[s \ {Max(s)}], order[Max(s)], end, inArrears)
    <3>1. g[s] = f[<<g[s \ {Max(s)}], order[Max(s)]>>] /\ g[s \ {Max(s)}] \in V
      BY <1>3, <2>1 DEF FoldOf
    <3> QED BY <1>1, <1>2, <2>1, <3>1
  <2>2. g[{}] = b
    BY <1>3 DEF FoldOf
  <2>3. DOMAIN order = 1..n
    OBVIOUS
  <2> QED BY <2>1, <2>2, <2>3
<1>5. Is(h)
  <2> HIDE DEF Is
  <2> QED BY <1>4
<1>6. FinalizedHoldings(b, end, order, inArrears) = h[DOMAIN order]
  BY DEF FinalizedHoldings, FoldLeft, MapThenFoldSet
<1>7. \A s \in SUBSET (1..n) :
        h[s] = IF s = {} THEN b ELSE FinalizeHolding(h[s \ {Max(s)}], order[Max(s)], end, inArrears)
  <2>1. \A x : Is(x) => \A s \in SUBSET (1..n) :
          x[s] = IF s = {} THEN b ELSE FinalizeHolding(x[s \ {Max(s)}], order[Max(s)], end, inArrears)
    OBVIOUS
  <2> HIDE DEF h, Is
  <2> QED BY <1>5, <2>1
<1> HIDE DEF h
<1>8. h[1..n] \in V
  <2>1. h[{}] = b
    BY <1>7
  <2>2. ASSUME NEW s \in SUBSET (1..n), s # {}, h[s \ {Max(s)}] \in V
        PROVE  h[s] = f[<<h[s \ {Max(s)}], order[Max(s)]>>]
    BY <1>1, <1>2, <1>7, <2>2
  <2>3. FoldWithin(h, n, b, order, f, V)
    BY <2>1, <2>2 DEF FoldWithin
  <2> QED BY <1>1, <2>3, FoldStays
<1> QED BY <1>6, <1>8

(******************** one caller's book, brought up to date *****************)

LEMMA OrderIsWalk ==
  ASSUME NEW order \in Orders
  PROVE  Cardinality(Locks) \in Nat /\ order \in [1..Cardinality(Locks) -> Locks]
<1>1. Cardinality(Locks) \in Nat
  BY LockBudgetAssumption, FS_CardinalityType
<1> QED BY <1>1 DEF Orders, SetToSeqs

LEMMA MeteredTwice ==
  ASSUME NEW b, NEW t, NEW x, NEW y, MeteredBook(b, t, x), MeteredBook(x, t, y)
  PROVE  MeteredBook(b, t, y)
BY DEF MeteredBook, SameBook

LEMMA MeterCallerKeeps ==
  ASSUME bound \in Bounds, NEW b, NEW t \in Nat, BookSound(b, t), b.account # None,
         NEW order \in Orders, NEW inArrears \in BOOLEAN
  PROVE  MeteredBook(b, t, MeterCaller(b, t, order, inArrears))
<1> DEFINE V == {x \in Book : MeteredBook(b, t, x)}
<1>1. b \in V
  BY DEF BookSound, MeteredBook, SameBook
<1>2. ASSUME NEW x \in V, NEW l \in Locks PROVE MeterHolding(x, l, t, inArrears) \in V
  <2>1. BookSound(x, t) /\ x.account # None
    BY DEF MeteredBook, SameBook
  <2>2. MeteredBook(x, t, MeterHolding(x, l, t, inArrears))
    BY <2>1, MeterHoldingKeeps
  <2>3. MeteredBook(b, t, MeterHolding(x, l, t, inArrears))
    BY <2>2, MeteredTwice
  <2> QED BY <2>3 DEF MeteredBook, BookSound
<1> HIDE DEF V
<1>3. MeterCaller(b, t, order, inArrears) \in V
  BY <1>1, <1>2, OrderIsWalk, MeterCallerStays
<1> QED BY <1>3 DEF V

(* A book whose period was closed: in arrears no bill is written.            *)
Closed(b, t, end, inArrears, x) ==
  /\ x \in Book /\ x.account # None
  /\ x.budget = b.budget /\ x.rule = b.rule
  /\ x.rule = IF x.alerts = None THEN None ELSE x.alerts.rule
  /\ \A f \in {"limit", "overdraft", "period", "start", "end"} : x.account[f] = b.account[f]
  /\ \A l \in Locks : (x.holdings[l] # None => b.holdings[l] # None) /\ HoldSound(x, l, t)
  /\ IF inArrears THEN x.arrears = b.arrears /\ x.billed = b.billed ELSE x.billed = end

LEMMA FinalizedKeeps ==
  ASSUME bound \in Bounds, NEW b, NEW t \in Nat, BookSound(b, t), b.account # None,
         NEW end \in Nat, end <= t, NEW order \in Orders, NEW inArrears \in BOOLEAN
  PROVE  Closed(b, t, end, inArrears, FinalizeCurrentPeriod(b, end, order, inArrears))
<1> DEFINE V == {x \in Book : MeteredBook(b, t, x)}
           x == FinalizedHoldings(b, end, order, inArrears)
<1>1. b \in V
  BY DEF BookSound, MeteredBook, SameBook
<1>2. ASSUME NEW y \in V, NEW l \in Locks PROVE FinalizeHolding(y, l, end, inArrears) \in V
  <2>1. BookSound(y, t) /\ y.account # None
    BY DEF MeteredBook, SameBook
  <2>2. MeteredBook(y, t, FinalizeHolding(y, l, end, inArrears))
    BY <2>1, FinalizeHoldingKeeps
  <2>3. MeteredBook(b, t, FinalizeHolding(y, l, end, inArrears))
    BY <2>2, MeteredTwice
  <2> QED BY <2>3 DEF MeteredBook, BookSound
<1> HIDE DEF V
<1>3. x \in V
  BY <1>1, <1>2, OrderIsWalk, FinalizeFoldStays
<1>4. FinalizeCurrentPeriod(b, end, order, inArrears) = IF inArrears THEN x ELSE Bill(x, end)
  BY DEF FinalizeCurrentPeriod, FinalizedHoldings
<1> HIDE DEF x
<1>5. MeteredBook(b, t, x) /\ x \in Book /\ x.account # None
  BY <1>3 DEF V, MeteredBook, SameBook
<1>6. CASE inArrears
  <2>1. \A l \in Locks : (x.holdings[l] # None => b.holdings[l] # None) /\ HoldSound(x, l, t)
    BY <1>5 DEF MeteredBook, SameBook, BookSound
  <2>2. \A f \in {"limit", "overdraft", "period", "start", "end"} : x.account[f] = b.account[f]
    BY <1>5 DEF MeteredBook, SameBook
  <2> QED BY <1>4, <1>5, <1>6, <2>1, <2>2 DEF MeteredBook, SameBook, BookSound, Closed
<1>7. CASE ~ inArrears
  <2> DEFINE carry == Carry(x.account)
             n == IF carry > x.account.limit THEN carry - x.account.limit ELSE x.arrears
             y == [[x EXCEPT !.billed = end] EXCEPT !.arrears = n]
  <2>1. x.account \in Account /\ x.arrears \in Nat
    BY <1>5 DEF Book
  <2>2. n \in Nat
    <3>1. carry \in Nat
      BY <2>1 DEF Carry, Larger, Account
    <3> HIDE DEF carry
    <3> QED BY <2>1, <3>1 DEF Account
  <2>3. Bill(x, end) = y
    <3>1. {"billed", "arrears"} \subseteq DOMAIN x
      BY <1>5 DEF Book
    <3> QED BY <3>1 DEF Bill
  <2> HIDE DEF n
  <2>4. /\ y \in Book /\ y.billed = end
        /\ \A f \in {"account", "holdings", "alerts", "budget", "rows", "rule", "charged"} : y[f] = x[f]
    BY <1>5, <2>2 DEF Book
  <2> HIDE DEF y
  <2>5. ASSUME NEW l \in Locks
        PROVE  (y.holdings[l] # None => b.holdings[l] # None) /\ HoldSound(y, l, t)
    <3>1. (x.holdings[l] # None => b.holdings[l] # None) /\ HoldSound(x, l, t)
      BY <1>5 DEF MeteredBook, SameBook, BookSound
    <3> QED BY <2>4, <3>1 DEF HoldSound
  <2>6. \A f \in {"limit", "overdraft", "period", "start", "end"} : y.account[f] = b.account[f]
    BY <1>5, <2>4 DEF MeteredBook, SameBook
  <2>7. y.budget = b.budget /\ y.rule = b.rule /\ y.rule = IF y.alerts = None THEN None ELSE y.alerts.rule
    BY <1>5, <2>4 DEF MeteredBook, SameBook, BookSound
  <2>8. Closed(b, t, end, inArrears, y)
    BY <1>5, <1>7, <2>4, <2>5, <2>6, <2>7 DEF Closed
  <2> QED BY <1>4, <1>7, <2>3, <2>8
<1> QED BY <1>6, <1>7

(* A book taken to be paid up to now is as sound as before.                  *)
LEMMA PaidUpToKeeps ==
  ASSUME NEW b \in Book, NEW t \in Nat, \A l \in Locks : HoldSound(b, l, t)
  PROVE  LET x == PaidUpTo(b, t)
         IN /\ x \in Book
            /\ \A f \in {"account", "alerts", "budget", "rows", "arrears", "billed", "rule", "charged"} : x[f] = b[f]
            /\ \A l \in Locks : /\ x.holdings[l] # None => b.holdings[l] # None
                                /\ HoldSound(x, l, t)
<1> DEFINE hs == [l \in Locks |-> IF b.holdings[l] = None THEN None
                                  ELSE [b.holdings[l] EXCEPT !.metered = t]]
           x == PaidUpTo(b, t)
<1>1. b.holdings \in [Locks -> Holding \cup {None}]
  BY DEF Book
<1>2. x = [b EXCEPT !.holdings = hs]
  BY <1>1 DEF PaidUpTo
<1>3. ASSUME NEW l \in Locks, b.holdings[l] # None
      PROVE  hs[l] \in Holding /\ hs[l].metered = t /\ hs[l].expires = b.holdings[l].expires
  <2>1. b.holdings[l] \in Holding
    BY <1>1, <1>3
  <2> QED BY <1>3, <2>1 DEF Holding
<1>4. \A l \in Locks : b.holdings[l] = None => hs[l] = None
  OBVIOUS
<1>5. hs \in [Locks -> Holding \cup {None}]
  BY <1>3
<1> HIDE DEF hs
<1>6. /\ x \in Book /\ x.holdings = hs
      /\ \A f \in {"account", "alerts", "budget", "rows", "arrears", "billed", "rule", "charged"} : x[f] = b[f]
  BY <1>2, <1>5 DEF Book
<1> HIDE DEF x
<1>7. ASSUME NEW l \in Locks
      PROVE  (x.holdings[l] # None => b.holdings[l] # None) /\ HoldSound(x, l, t)
  <2>1. CASE b.holdings[l] = None
    <3>1. x.holdings[l] = None
      BY <1>4, <1>6, <2>1
    <3> QED BY <1>6, <2>1, <3>1 DEF HoldSound
  <2>2. CASE b.holdings[l] # None
    <3>1. /\ x.holdings[l] # None /\ x.holdings[l].metered = t
          /\ x.holdings[l].expires = b.holdings[l].expires
      BY <1>3, <1>6, <2>2, NoneAssumption
    <3>2. b.rows[l].metered <= t
      <4>1. b.rows[l] # None /\ b.rows[l].metered <= b.holdings[l].metered /\ b.holdings[l].metered <= t
        BY <2>2 DEF HoldSound
      <4>2. b.rows[l] \in Holding /\ b.holdings[l] \in Holding
        BY <2>2, <4>1 DEF Book
      <4> QED BY <4>1, <4>2 DEF Holding
    <3>3. t <= t
      OBVIOUS
    <3> QED BY <1>6, <2>2, <3>1, <3>2, <3>3 DEF HoldSound
  <2> QED BY <2>1, <2>2
<1> QED BY <1>6, <1>7 DEF x

(* An account that begins at t ends a period later.                          *)
LEMMA NewAccountIs ==
  ASSUME bound \in Bounds, NEW c, c.limit \in Nat, c.overdraft \in Nat, c.period \in Nat \ {0},
         NEW t \in Nat
  PROVE  LET a == NewAccount(c, t)
         IN /\ a \in Account /\ a.limit = c.limit /\ a.overdraft = c.overdraft /\ a.period = c.period
            /\ a.start = t /\ a.start <= a.end
<1>1. c.period * Second \in Nat
  BY SecondIsPositive
<1> DEFINE q == c.period * Second
<1>2. q \in Nat /\ NewAccount(c, t) =
        [limit |-> c.limit, overdraft |-> c.overdraft, period |-> c.period, start |-> t,
         end |-> t + q, consumed |-> 0, current |-> 0, penalty |-> 0, in |-> 0, out |-> 0]
  BY <1>1 DEF NewAccount
<1> HIDE DEF q
<1>3. t + q \in Nat /\ t <= t + q
  BY <1>2
<1> QED BY <1>2, <1>3 DEF Account

(* The periods skipped are whole ones that are over (advanceToNextPeriod).   *)
LEMMA PeriodsWithin ==
  ASSUME NEW d \in Nat \ {0}, NEW p \in Nat \ {0}, NEW e \in Nat, NEW t \in Nat, e <= t,
         NEW n, n = IF (t - e) \div d > p THEN ((t - e) \div d + p - 1) \div p ELSE 1
  PROVE  e + (n - 1) * p * d \in Nat /\ e <= e + (n - 1) * p * d /\ e + (n - 1) * p * d <= t
<1> DEFINE k == (t - e) \div d
<1>1. k \in Int /\ k * d <= t - e
  <2>1. t - e \in Int
    OBVIOUS
  <2> QED BY <2>1, WholeSeconds
<1>2. CASE k > p
  <2>1. k + p - 1 \in Int
    BY <1>1
  <2>2. n = (k + p - 1) \div p
    BY <1>2
  <2> HIDE DEF k
  <2>3. n \in Int /\ n * p <= k + p - 1 /\ k + p - 1 < (n + 1) * p
    BY <2>1, <2>2, WholeSeconds
  <2>4. (n - 1) * p <= k - 1 /\ (n - 1) * p \in Int
    <3>1. (n - 1) * p = n * p - p /\ n * p \in Int
      BY <2>3
    <3> DEFINE q == n * p
               r == (n - 1) * p
    <3>2. r = q - p /\ q \in Int /\ q <= k + p - 1
      BY <2>3, <3>1
    <3> HIDE DEF q, r
    <3>3. r <= k - 1 /\ r \in Int
      BY <1>1, <3>2
    <3> QED BY <3>3 DEF r
  <2>5. n >= 1
    <3>1. (n + 1) * p > p
      BY <1>1, <1>2, <2>3
    <3>2. n <= 0 => (n + 1) * p <= p
      BY <2>3
    <3> QED BY <2>3, <3>1, <3>2
  <2>6. (n - 1) * p >= 0
    BY <2>3, <2>5
  <2> DEFINE r == (n - 1) * p
  <2>7. r \in Nat /\ r <= k - 1
    BY <2>4, <2>6
  <2> HIDE DEF r
  <2>8. r * d \in Nat /\ r * d <= k * d
    BY <1>1, <2>7
  <2> DEFINE x == r * d
             y == k * d
  <2>9. x \in Nat /\ x <= y /\ y \in Int /\ y <= t - e
    BY <1>1, <2>8
  <2> HIDE DEF x, y
  <2>10. e + x \in Nat /\ e <= e + x /\ e + x <= t
    BY <2>9
  <2> QED BY <2>10 DEF x, r
<1>3. CASE ~ (k > p)
  <2>1. n = 1
    BY <1>3
  <2>2. (n - 1) * p * d = 0
    BY <2>1
  <2> QED BY <2>2
<1> QED BY <1>2, <1>3

(* A book that was brought up to date.                                       *)
Renewed(b, t, x) ==
  /\ BookSound(x, t) /\ x.account # None
  /\ x.budget = b.budget /\ x.rule = b.rule
  /\ b.arrears > 0 => x.arrears = b.arrears /\ x.billed = b.billed
  /\ \A l \in Locks : x.holdings[l] # None => b.holdings[l] # None

LEMMA CheckPeriodResetKeeps ==
  ASSUME bound \in Bounds, NEW b, NEW t \in Nat, BookSound(b, t), b.account # None,
         NEW order \in Orders
  PROVE  Renewed(b, t, CheckPeriodReset(b, t, order, b.arrears > 0))
<1> DEFINE inArrears == b.arrears > 0
           end == b.account.end
           x == CheckPeriodReset(b, t, order, inArrears)
<1>1. b \in Book /\ b.account \in Account /\ b.arrears \in Nat
  BY DEF BookSound, Book
<1>2. end \in Nat /\ inArrears \in BOOLEAN
  BY <1>1 DEF Account
<1>3. CASE t < end
  <2>1. x = b
    BY <1>3 DEF CheckPeriodReset
  <2> QED BY <2>1 DEF Renewed
<1>4. CASE ~ (t < end)
  <2>1. end <= t
    BY <1>2, <1>4
  <2> DEFINE f == FinalizeCurrentPeriod(b, end, order, inArrears)
             carry == IF inArrears THEN 0 ELSE f.account.current + f.account.penalty
             a == NextPeriod(f.account, t, carry)
             y == [f EXCEPT !.account = a]
  <2>2. Closed(b, t, end, inArrears, f)
    BY <1>2, <2>1, FinalizedKeeps
  <2>3. x = PaidUpTo(y, t)
    BY <1>4 DEF CheckPeriodReset
  <2> HIDE DEF f
  <2>4. f \in Book /\ f.account \in Account
    BY <2>2 DEF Closed, Book
  <2>5. carry \in Nat
    BY <2>4 DEF Account
  <2>6. f.account.limit = b.account.limit /\ f.account.overdraft = b.account.overdraft
        /\ f.account.period = b.account.period /\ f.account.end = end
        /\ f.account.start = b.account.start
    BY <2>2 DEF Closed
  <2> HIDE DEF carry
  <2>7. /\ a \in Account /\ a.limit = b.account.limit /\ a.overdraft = b.account.overdraft
        /\ a.period = b.account.period
        /\ end <= a.start /\ a.start <= a.end /\ a.start <= t
    <3> DEFINE s == end + (PeriodsToAdvance(f.account, t) - 1) * f.account.period * Second
               z == NewAccount(f.account, s)
    <3>1. s \in Nat /\ end <= s /\ s <= t
      <4>1. f.account.period \in Nat \ {0} /\ Second \in Nat \ {0}
        BY <2>4, SecondIsPositive DEF Account
      <4>2. PeriodsToAdvance(f.account, t) =
              IF (t - end) \div Second > f.account.period
              THEN ((t - end) \div Second + f.account.period - 1) \div f.account.period ELSE 1
        BY <2>6 DEF PeriodsToAdvance
      <4> QED BY <1>2, <2>1, <4>1, <4>2, PeriodsWithin
    <3>2. a = [z EXCEPT !.consumed = carry]
      BY <2>6 DEF NextPeriod
    <3> HIDE DEF s
    <3>3. /\ z \in Account /\ z.limit = f.account.limit /\ z.overdraft = f.account.overdraft
          /\ z.period = f.account.period /\ z.start = s /\ z.start <= z.end
      <4>1. f.account.limit \in Nat /\ f.account.overdraft \in Nat /\ f.account.period \in Nat \ {0}
        BY <2>4 DEF Account
      <4> QED BY <3>1, <4>1, NewAccountIs
    <3> HIDE DEF z
    <3>4. /\ [z EXCEPT !.consumed = carry] \in Account
          /\ \A g \in {"limit", "overdraft", "period", "start", "end"} : [z EXCEPT !.consumed = carry][g] = z[g]
      BY <2>5, <3>3 DEF Account
    <3> HIDE DEF a
    <3>5. a \in Account /\ \A g \in {"limit", "overdraft", "period", "start", "end"} : a[g] = z[g]
      BY <3>2, <3>4
    <3>6. /\ a.limit = z.limit /\ a.overdraft = z.overdraft /\ a.period = z.period
          /\ a.start = z.start /\ a.end = z.end
      BY <3>5
    <3> QED BY <2>6, <3>1, <3>3, <3>5, <3>6
  <2> HIDE DEF a
  <2>8. a # None
    BY <2>7, NoneAssumption
  <2>9. /\ y \in Book /\ y.account = a
        /\ \A g \in {"holdings", "alerts", "budget", "rows", "arrears", "billed", "rule", "charged"} : y[g] = f[g]
    BY <2>4, <2>7 DEF Book
  <2> HIDE DEF y
  <2>10. \A l \in Locks : HoldSound(y, l, t)
    <3> SUFFICES ASSUME NEW l \in Locks PROVE HoldSound(y, l, t)
      OBVIOUS
    <3>1. HoldSound(f, l, t)
      BY <2>2 DEF Closed
    <3> QED BY <2>8, <2>9, <3>1 DEF HoldSound
  <2>11. /\ x \in Book
         /\ \A g \in {"account", "alerts", "budget", "rows", "arrears", "billed", "rule", "charged"} : x[g] = y[g]
         /\ \A l \in Locks : (x.holdings[l] # None => y.holdings[l] # None) /\ HoldSound(x, l, t)
    BY <2>3, <2>9, <2>10, PaidUpToKeeps
  <2> HIDE DEF x
  <2>12. /\ x.account = a /\ x.alerts = f.alerts /\ x.budget = f.budget /\ x.arrears = f.arrears
         /\ x.billed = f.billed /\ x.rule = f.rule
    BY <2>9, <2>11
  <2>13. f.billed <= a.start /\ f.billed <= t
    <3>1. f.billed = b.billed \/ f.billed = end
      BY <2>2 DEF Closed
    <3>2. b.billed <= b.account.start /\ b.account.start <= end /\ b.billed \in Nat /\ b.account.start \in Nat
      BY <1>1 DEF BookSound, Book, Account
    <3>3. a.start \in Nat
      BY <2>7 DEF Account
    <3> QED BY <1>2, <2>1, <2>7, <3>1, <3>2, <3>3
  <2>14. x.budget = [limit |-> a.limit, overdraft |-> a.overdraft, period |-> a.period]
    <3>1. b.budget = [limit |-> b.account.limit, overdraft |-> b.account.overdraft, period |-> b.account.period]
      BY DEF BookSound
    <3>2. f.budget = b.budget
      BY <2>2 DEF Closed
    <3> QED BY <2>7, <2>12, <3>1, <3>2
  <2>15. x.rule = IF x.alerts = None THEN None ELSE x.alerts.rule
    BY <2>2, <2>12 DEF Closed
  <2>16. BookSound(x, t)
    <3>1. x.budget # None
      BY <2>2, <2>12 DEF Closed, BookSound
    <3> QED BY <3>1, <2>7, <2>8, <2>11, <2>12, <2>13, <2>14, <2>15 DEF BookSound
  <2>17. \A l \in Locks : x.holdings[l] # None => b.holdings[l] # None
    BY <2>2, <2>9, <2>11 DEF Closed
  <2>18. x.budget = b.budget /\ x.rule = b.rule
         /\ (inArrears => x.arrears = b.arrears /\ x.billed = b.billed)
    BY <2>2, <2>12 DEF Closed
  <2>19. Renewed(b, t, x)
    BY <2>8, <2>12, <2>16, <2>17, <2>18 DEF Renewed
  <2> QED BY <2>19 DEF x
<1> QED BY <1>3, <1>4

LEMMA RefreshCallerKeeps ==
  ASSUME bound \in Bounds, NEW b, NEW t \in Nat, BookSound(b, t), b.account # None,
         NEW order \in Orders
  PROVE  Renewed(b, t, RefreshCaller(b, t, order))
<1> DEFINE inArrears == b.arrears > 0
           y == CheckPeriodReset(b, t, order, inArrears)
           x == MeterCaller(y, t, order, inArrears)
<1>1. inArrears \in BOOLEAN
  OBVIOUS
<1>2. Renewed(b, t, y)
  BY CheckPeriodResetKeeps
<1>3. RefreshCaller(b, t, order) = x
  BY DEF RefreshCaller
<1> HIDE DEF y
<1>4. MeteredBook(y, t, x)
  BY <1>1, <1>2, MeterCallerKeeps DEF Renewed
<1> HIDE DEF x
<1>5. Renewed(b, t, x)
  BY <1>2, <1>4 DEF Renewed, MeteredBook, SameBook
<1> QED BY <1>3, <1>5

(*************************** what a step has to keep ************************)

(* What is sound stays sound when nothing but time goes on.                  *)
LEMMA BookLater ==
  ASSUME bound \in Bounds, NEW b, NEW t \in Nat, NEW u \in Nat, t <= u, BookSound(b, t)
  PROVE  BookSound(b, u)
<1>1. b \in Book
  BY DEF BookSound
<1>2. ASSUME NEW l \in Locks PROVE HoldSound(b, l, u)
  <2>1. HoldSound(b, l, t) /\ Second \in Nat \ {0}
    BY SecondIsPositive DEF BookSound
  <2>2. b.charged[l].since \in Nat /\ b.charged[l].units \in Nat
    BY <1>1 DEF Book
  <2> DEFINE x == t - b.charged[l].since + Second - 1
             y == u - b.charged[l].since + Second - 1
  <2>3. x \in Int /\ y \in Int /\ x <= y
    BY <2>1, <2>2
  <2>4. x \div Second <= y \div Second /\ x \div Second \in Int /\ y \div Second \in Int
    BY <2>1, <2>3, LaterIsMore, WholeSeconds
  <2>5. b.charged[l].units <= y \div Second
    <3>1. b.charged[l].units <= x \div Second
      BY <2>1 DEF HoldSound
    <3> HIDE DEF x, y
    <3> QED BY <2>2, <2>4, <3>1
  <2>6. b.charged[l].since <= u
    BY <2>1, <2>2 DEF HoldSound
  <2>7. CASE b.holdings[l] = None
    <3>1. b.rows[l] # None => b.rows[l].expires \in Nat
      BY <1>1 DEF Book, Holding
    <3>2. b.rows[l] = None \/ b.rows[l].expires < u
      BY <2>1, <2>7, <3>1 DEF HoldSound
    <3> QED BY <2>5, <2>6, <2>7, <3>2 DEF HoldSound
  <2>8. CASE b.holdings[l] # None
    <3>1. b.holdings[l].metered \in Nat
      BY <1>1, <2>8 DEF Book, Holding
    <3>2. b.holdings[l].metered <= u
      BY <2>1, <2>8, <3>1 DEF HoldSound
    <3> QED BY <2>1, <2>5, <2>6, <2>8, <3>2 DEF HoldSound
  <2> QED BY <2>7, <2>8
<1>3. b.billed <= u /\ (b.account # None => b.account.start <= u)
  <2>1. b.billed \in Nat /\ (b.account # None => b.account.start \in Nat)
    BY <1>1 DEF Book, Account
  <2> QED BY <2>1 DEF BookSound
<1> QED BY <1>1, <1>2, <1>3 DEF BookSound

(* What the next state has to be, the bounds being the same.                 *)
LEMMA StepKeeps ==
  ASSUME BudgetInv, bound' = bound, beat' \in BOOLEAN, now' \in Time,
         requests' \in 0..bound.requests, restarts' \in 0..bound.restarts,
         books' \in [Callers -> Book], \A c \in Callers : BookSound(books'[c], now'),
         leases' \in [Locks -> [holder : Callers \cup {NoCaller}, until : Nat]],
         \A l \in Locks : leases'[l] = NoLease \/ leases'[l].holder \in Callers,
         call' # None => /\ call'.lock \in Locks /\ call'.at \in Nat /\ call'.at <= now'
                         /\ leases'[call'.lock].holder \in Callers,
         \A c \in Callers, l \in Locks : books'[c].holdings[l] # None => leases'[l].holder = c
  PROVE  BudgetInv'
<1>1. \A c \in Callers : BookSound(books[c], now)'
  BY DEF BookSound, HoldSound, Second
<1>2. LeasesSound'
  BY DEF LeasesSound, NoLease
<1>3. (bound \in Bounds /\ beat \in BOOLEAN /\ now \in Time)'
  BY DEF BudgetInv, Time
<1>4. (requests \in 0..bound.requests /\ restarts \in 0..bound.restarts /\ books \in [Callers -> Book])'
  OBVIOUS
<1> QED BY <1>1, <1>2, <1>3, <1>4 DEF BudgetInv

(* What a step has to do to a caller in arrears.                             *)
Settles(c) ==
  books[c].arrears > 0 =>
    /\ books'[c].billed = books[c].billed
    /\ \/ books'[c].arrears = books[c].arrears
       \/ \E n \in bound.amounts : RechargeBudget(c, n)

GoodStep == BudgetInv' /\ \A c \in Callers : Settles(c)

(* Many a step gives some callers new books and does nothing else to what    *)
(* the invariant is about.                                                   *)
Renews(c, x) ==
  /\ BookSound(x, now)
  /\ books[c].arrears > 0 => x.arrears = books[c].arrears /\ x.billed = books[c].billed
  /\ \A l \in Locks : x.holdings[l] # None => books[c].holdings[l] # None

LEMMA NowIsNat ==
  ASSUME BudgetInv
  PROVE  now \in Nat /\ bound.time \in Nat /\ bound \in BoundSet
BY LockBudgetAssumption DEF BudgetInv, Time, BoundSet

LEMMA BooksKept ==
  ASSUME BudgetInv, bound' = bound, beat' \in BOOLEAN, now' = now, leases' = leases,
         call' = call \/ call' = None,
         requests' \in 0..bound.requests, restarts' = restarts,
         books' \in [Callers -> Book],
         \A c \in Callers : books'[c] = books[c] \/ Renews(c, books'[c])
  PROVE  GoodStep
<1>1. \A c \in Callers : BookSound(books'[c], now')
  BY DEF BudgetInv, Renews
<1>2. \A c \in Callers, l \in Locks : books'[c].holdings[l] # None => leases'[l].holder = c
  BY DEF BudgetInv, LeasesSound, Renews
<1>3. call' # None => /\ call'.lock \in Locks /\ call'.at \in Nat /\ call'.at <= now'
                      /\ leases'[call'.lock].holder \in Callers
  BY DEF BudgetInv, LeasesSound
<1>4. now' \in Time /\ restarts' \in 0..bound.restarts
  BY DEF BudgetInv
<1>5. /\ leases' \in [Locks -> [holder : Callers \cup {NoCaller}, until : Nat]]
      /\ \A l \in Locks : leases'[l] = NoLease \/ leases'[l].holder \in Callers
  BY DEF BudgetInv, LeasesSound
<1>6. BudgetInv'
  BY <1>1, <1>2, <1>3, <1>4, <1>5, StepKeeps
<1>7. \A c \in Callers : Settles(c)
  BY DEF Settles, Renews
<1> QED BY <1>6, <1>7 DEF GoodStep

LEMMA RefreshedKeeps ==
  ASSUME BudgetInv, NEW c \in Callers, NEW order \in Orders
  PROVE  LET x == Refreshed(c, order)
         IN /\ x \in Book /\ Renews(c, x)
            /\ x.account = None <=> books[c].account = None
<1>1. bound \in Bounds /\ now \in Nat /\ books[c] \in Book /\ BookSound(books[c], now)
  BY NowIsNat DEF BudgetInv
<1>2. CASE HasAccount(c)
  <2> DEFINE x == RefreshCaller(books[c], now, order)
  <2>1. Renewed(books[c], now, x)
    BY <1>1, <1>2, RefreshCallerKeeps DEF HasAccount
  <2>2. Refreshed(c, order) = x
    BY <1>2 DEF Refreshed
  <2> HIDE DEF x
  <2> QED BY <1>2, <2>1, <2>2 DEF Renewed, Renews, BookSound, HasAccount
<1>3. CASE ~ HasAccount(c)
  BY <1>1, <1>3 DEF Refreshed, Renews
<1> QED BY <1>2, <1>3

(* Another account for a book, with the same limits and the same period.     *)
LEMMA OtherAccount ==
  ASSUME NEW b, NEW t, BookSound(b, t), b.account # None, NEW a \in Account,
         \A f \in {"limit", "overdraft", "period", "start", "end"} : a[f] = b.account[f]
  PROVE  LET x == [b EXCEPT !.account = a]
         IN /\ x \in Book /\ BookSound(x, t) /\ x.account = a
            /\ \A f \in {"holdings", "alerts", "budget", "rows", "arrears", "billed", "rule", "charged"} : x[f] = b[f]
<1> DEFINE x == [b EXCEPT !.account = a]
<1>1. b \in Book
  BY DEF BookSound
<1>2. /\ x \in Book /\ x.account = a
      /\ \A f \in {"holdings", "alerts", "budget", "rows", "arrears", "billed", "rule", "charged"} : x[f] = b[f]
  BY <1>1 DEF Book
<1> HIDE DEF x
<1>3. x.account # None
  BY <1>2, NoneAssumption
<1>4. \A l \in Locks : HoldSound(x, l, t)
  <2> SUFFICES ASSUME NEW l \in Locks PROVE HoldSound(x, l, t)
    OBVIOUS
  <2>1. HoldSound(b, l, t)
    BY DEF BookSound
  <2> QED BY <1>2, <1>3, <2>1 DEF HoldSound
<1>5. x.budget = IF x.account = None THEN None
                 ELSE [limit |-> x.account.limit, overdraft |-> x.account.overdraft,
                       period |-> x.account.period]
  BY <1>2, <1>3 DEF BookSound
<1>6. x.rule = IF x.alerts = None THEN None ELSE x.alerts.rule
  BY <1>2 DEF BookSound
<1>7. x.budget # None /\ x.billed <= t /\ x.billed <= x.account.start /\ x.account.start <= x.account.end /\ x.account.start <= t
  BY <1>2 DEF BookSound
<1>8. BookSound(x, t)
  BY <1>2, <1>4, <1>5, <1>6, <1>7 DEF BookSound
<1> QED BY <1>2, <1>8 DEF x

(*********************** the requests and the ticks *************************)

LEMMA TickStep ==
  ASSUME BudgetInv, MeterTick
  PROVE  GoodStep
<1>1. PICK orders \in [Callers -> Orders] : books' = [c \in Callers |-> Refreshed(c, orders[c])]
  BY DEF MeterTick
<1>2. \A c \in Callers : books'[c] \in Book /\ Renews(c, books'[c])
  BY <1>1, RefreshedKeeps
<1>3. books' \in [Callers -> Book]
  BY <1>1, <1>2
<1>4. beat' \in BOOLEAN /\ requests' \in 0..bound.requests
  BY DEF MeterTick, BudgetInv
<1> QED BY <1>2, <1>3, <1>4, BooksKept DEF MeterTick

LEMMA StatusStep ==
  ASSUME BudgetInv, NEW cs \in SUBSET Callers, GetCallerStatus(cs)
  PROVE  GoodStep
<1>1. PICK orders \in [cs -> Orders] :
        books' = [c \in Callers |-> IF c \in cs THEN Refreshed(c, orders[c]) ELSE books[c]]
  BY DEF GetCallerStatus
<1>2. ASSUME NEW c \in Callers
      PROVE  books'[c] \in Book /\ (books'[c] = books[c] \/ Renews(c, books'[c]))
  <2>1. CASE c \in cs
    BY <1>1, <2>1, RefreshedKeeps
  <2>2. CASE c \notin cs
    BY <1>1, <2>2 DEF BudgetInv
  <2> QED BY <2>1, <2>2
<1>3. books' \in [Callers -> Book]
  BY <1>1, <1>2
<1>4. beat' \in BOOLEAN /\ requests' \in 0..bound.requests
  BY DEF GetCallerStatus, BudgetInv
<1> QED BY <1>2, <1>3, <1>4, BooksKept DEF GetCallerStatus

(* A request that changes the book of one caller.                            *)
LEMMA KeepsStep ==
  ASSUME BudgetInv, NEW c \in Callers, NEW x \in Book, Renews(c, x), Keeps(c, x)
  PROVE  GoodStep
<1>1. books \in [Callers -> Book] /\ books' = [books EXCEPT ![c] = x]
  BY DEF BudgetInv, Keeps
<1>2. books' \in [Callers -> Book] /\ \A d \in Callers : books'[d] = books[d] \/ Renews(d, books'[d])
  BY <1>1
<1>3. beat' \in BOOLEAN /\ requests' \in 0..bound.requests
  <2>1. bound.requests \in Nat
    BY NowIsNat DEF BoundSet
  <2> QED BY <2>1 DEF Keeps, Asked, BudgetInv
<1> QED BY <1>2, <1>3, BooksKept DEF Keeps

(* A new account on a book whose periods are closed.                         *)
LEMMA SetBudgetStep ==
  ASSUME BudgetInv, NEW c \in Callers, NEW cfg \in Budget, SetBudgetWithOverdraft(c, cfg)
  PROVE  GoodStep
<1>1. bound \in Bounds /\ now \in Nat /\ books[c] \in Book /\ BookSound(books[c], now)
  BY NowIsNat DEF BudgetInv
<1> DEFINE a == NewAccount(cfg, now)
<1>2. PICK order \in Orders :
        LET b == IF HasAccount(c) THEN PaidUpTo(Finalized(c, order), now) ELSE books[c]
        IN Keeps(c, [b EXCEPT !.account = a, !.budget = cfg])
  BY DEF SetBudgetWithOverdraft
<1> DEFINE f == Finalized(c, order)
           b == IF HasAccount(c) THEN PaidUpTo(f, now) ELSE books[c]
           x == [[b EXCEPT !.account = a] EXCEPT !.budget = cfg]
<1>3. /\ b \in Book /\ b.billed <= now
      /\ b.rule = IF b.alerts = None THEN None ELSE b.alerts.rule
      /\ books[c].arrears > 0 => b.arrears = books[c].arrears /\ b.billed = books[c].billed
      /\ \A l \in Locks : (b.holdings[l] # None => books[c].holdings[l] # None) /\ HoldSound(b, l, now)
  <2>1. CASE HasAccount(c)
    <3> DEFINE inArrears == books[c].arrears > 0
    <3>1. f = FinalizeCurrentPeriod(books[c], now, order, inArrears)
      BY DEF Finalized
    <3>2. inArrears \in BOOLEAN /\ now <= now
      BY <1>1
    <3>3. Closed(books[c], now, now, inArrears, f)
      BY <1>1, <2>1, <3>1, <3>2, FinalizedKeeps DEF HasAccount
    <3> HIDE DEF f
    <3>4. f \in Book /\ \A l \in Locks : HoldSound(f, l, now)
      BY <3>3 DEF Closed
    <3> DEFINE p == PaidUpTo(f, now)
    <3>5. /\ p \in Book
          /\ \A g \in {"account", "alerts", "budget", "rows", "arrears", "billed", "rule", "charged"} : p[g] = f[g]
          /\ \A l \in Locks : (p.holdings[l] # None => f.holdings[l] # None) /\ HoldSound(p, l, now)
      BY <1>1, <3>4, PaidUpToKeeps
    <3>6. b = p
      BY <2>1
    <3> HIDE DEF b, p
    <3>7. /\ b \in Book /\ b.alerts = f.alerts /\ b.arrears = f.arrears /\ b.billed = f.billed /\ b.rule = f.rule
          /\ \A l \in Locks : (b.holdings[l] # None => f.holdings[l] # None) /\ HoldSound(b, l, now)
      BY <3>5, <3>6
    <3>8. f.billed <= now
      BY <1>1, <3>2, <3>3 DEF Closed, BookSound
    <3>9. books[c].arrears > 0 => f.arrears = books[c].arrears /\ f.billed = books[c].billed
      BY <3>3 DEF Closed
    <3>10. /\ f.rule = IF f.alerts = None THEN None ELSE f.alerts.rule
           /\ \A l \in Locks : f.holdings[l] # None => books[c].holdings[l] # None
      BY <3>3 DEF Closed
    <3> QED BY <3>7, <3>8, <3>9, <3>10
  <2>2. CASE ~ HasAccount(c)
    BY <1>1, <2>2 DEF BookSound
  <2> QED BY <2>1, <2>2
<1>4. /\ a \in Account /\ a.limit = cfg.limit /\ a.overdraft = cfg.overdraft /\ a.period = cfg.period
      /\ a.start = now /\ a.start <= a.end
  <2>1. cfg.limit \in Nat /\ cfg.overdraft \in Nat /\ cfg.period \in Nat \ {0}
    BY DEF Budget
  <2> QED BY <1>1, <2>1, NewAccountIs
<1>5. a # None
  BY <1>4, NoneAssumption
<1>6. Keeps(c, x)
  BY <1>2
<1> HIDE DEF b, f, a
<1>7. /\ x \in Book /\ x.account = a /\ x.budget = cfg
      /\ \A g \in {"holdings", "alerts", "rows", "arrears", "billed", "rule", "charged"} : x[g] = b[g]
  BY <1>3, <1>4 DEF Book
<1> HIDE DEF x
<1>8. \A l \in Locks : HoldSound(x, l, now)
  <2> SUFFICES ASSUME NEW l \in Locks PROVE HoldSound(x, l, now)
    OBVIOUS
  <2>1. HoldSound(b, l, now)
    BY <1>3
  <2> QED BY <1>5, <1>7, <2>1 DEF HoldSound
<1>9. x.budget = [limit |-> a.limit, overdraft |-> a.overdraft, period |-> a.period]
  BY <1>4, <1>7 DEF Budget
<1>10. BookSound(x, now)
  <2>1. x.rule = IF x.alerts = None THEN None ELSE x.alerts.rule
    BY <1>3, <1>7
  <2>2. x.billed <= now /\ x.billed <= x.account.start /\ x.account.start <= x.account.end
        /\ x.account.start <= now
    BY <1>1, <1>3, <1>4, <1>7
  <2>3. x.budget # None
    BY <1>7, NoneAssumption
  <2> QED BY <1>5, <1>7, <1>8, <1>9, <2>1, <2>2, <2>3 DEF BookSound
<1>11. Renews(c, x)
  BY <1>3, <1>7, <1>10 DEF Renews
<1> QED BY <1>6, <1>7, <1>11, KeepsStep

LEMMA DeleteBudgetStep ==
  ASSUME BudgetInv, NEW c \in Callers, DeleteBudget(c)
  PROVE  GoodStep
<1>1. bound \in Bounds /\ now \in Nat /\ books[c] \in Book /\ BookSound(books[c], now)
  BY NowIsNat DEF BudgetInv
<1>2. HasAccount(c) /\ now <= now
  BY <1>1 DEF DeleteBudget
<1>3. PICK order \in Orders :
        LET b == Finalized(c, order)
        IN Keeps(c, [b EXCEPT !.account = None, !.budget = None,
                              !.rows = [l \in Locks |-> IF b.holdings[l] = None THEN @[l] ELSE None],
                              !.holdings = [l \in Locks |-> None]])
  BY DEF DeleteBudget
<1> DEFINE inArrears == books[c].arrears > 0
           b == Finalized(c, order)
           rs == [l \in Locks |-> IF b.holdings[l] = None THEN b.rows[l] ELSE None]
           hs == [l \in Locks |-> None]
           x == [[[[b EXCEPT !.account = None] EXCEPT !.budget = None]
                     EXCEPT !.rows = rs] EXCEPT !.holdings = hs]
<1>4. Closed(books[c], now, now, inArrears, b)
  <2>1. b = FinalizeCurrentPeriod(books[c], now, order, inArrears) /\ inArrears \in BOOLEAN
    BY DEF Finalized
  <2> HIDE DEF b
  <2> QED BY <1>1, <1>2, <2>1, FinalizedKeeps DEF HasAccount
<1>5. Keeps(c, [b EXCEPT !.account = None, !.budget = None,
                         !.rows = [l \in Locks |-> IF b.holdings[l] = None THEN @[l] ELSE None],
                         !.holdings = [l \in Locks |-> None]])
  BY <1>3
<1> HIDE DEF b
<1>6. b \in Book
  BY <1>4 DEF Closed
<1>7. Keeps(c, x)
  <2>1. {"account", "budget", "rows", "holdings"} \subseteq DOMAIN b
    BY <1>6 DEF Book
  <2>2. x = [b EXCEPT !.account = None, !.budget = None,
                      !.rows = [l \in Locks |-> IF b.holdings[l] = None THEN @[l] ELSE None],
                      !.holdings = [l \in Locks |-> None]]
    BY <2>1
  <2> HIDE DEF x
  <2> QED BY <1>5, <2>2
<1>8. /\ x \in Book /\ x.account = None /\ x.budget = None /\ x.rows = rs /\ x.holdings = hs
      /\ \A g \in {"alerts", "arrears", "billed", "rule", "charged"} : x[g] = b[g]
  <2>1. b.holdings \in [Locks -> Holding \cup {None}] /\ b.rows \in [Locks -> Holding \cup {None}]
    BY <1>6 DEF Book
  <2>2. rs \in [Locks -> Holding \cup {None}] /\ hs \in [Locks -> Holding \cup {None}]
    BY <2>1
  <2> HIDE DEF rs, hs
  <2> QED BY <1>6, <2>2 DEF Book
<1> HIDE DEF x
<1>9. ASSUME NEW l \in Locks PROVE HoldSound(x, l, now)
  <2>1. HoldSound(b, l, now)
    BY <1>4 DEF Closed
  <2>2. x.holdings[l] = None /\ x.rows[l] = (IF b.holdings[l] = None THEN b.rows[l] ELSE None)
    BY <1>8
  <2> QED BY <1>8, <2>1, <2>2 DEF HoldSound
<1>10. x.rule = IF x.alerts = None THEN None ELSE x.alerts.rule
  BY <1>4, <1>8 DEF Closed
<1>11. b.billed <= now
  BY <1>1, <1>4 DEF Closed, BookSound
<1>12. BookSound(x, now)
  BY <1>8, <1>9, <1>10, <1>11 DEF BookSound
<1>13. books[c].arrears > 0 => b.arrears = books[c].arrears /\ b.billed = books[c].billed
  BY <1>4 DEF Closed
<1>14. Renews(c, x)
  BY <1>8, <1>12, <1>13 DEF Renews
<1> QED BY <1>7, <1>8, <1>14, KeepsStep

(* The giver has used more, the receiver less.                               *)
LEMMA GiverKeeps ==
  ASSUME NEW b, NEW t, BookSound(b, t), b.account # None, NEW n \in Nat
  PROVE  LET x == [b EXCEPT !.account.consumed = @ + n, !.account.out = @ + n]
         IN /\ x \in Book /\ BookSound(x, t)
            /\ \A f \in {"holdings", "arrears", "billed"} : x[f] = b[f]
<1> DEFINE i == b.account.consumed + n
           j == b.account.out + n
           a == [[b.account EXCEPT !.consumed = i] EXCEPT !.out = j]
           x == [b EXCEPT !.account.consumed = @ + n, !.account.out = @ + n]
<1>1. b \in Book /\ b.account \in Account
  BY DEF BookSound, Book
<1>2. i \in Nat /\ j \in Nat
  BY <1>1 DEF Account
<1>3. x = [b EXCEPT !.account = a]
  <2>1. "account" \in DOMAIN b /\ {"consumed", "out"} \subseteq DOMAIN b.account
    BY <1>1 DEF Book, Account
  <2> QED BY <2>1
<1> HIDE DEF i, j, x
<1>4. a \in Account /\ \A f \in {"limit", "overdraft", "period", "start", "end"} : a[f] = b.account[f]
  BY <1>1, <1>2 DEF Account
<1> HIDE DEF a
<1>5. x \in Book /\ BookSound(x, t) /\ \A f \in {"holdings", "arrears", "billed"} : x[f] = b[f]
  BY <1>3, <1>4, OtherAccount
<1> QED BY <1>5 DEF x

LEMMA ReceiverKeeps ==
  ASSUME NEW b, NEW t, BookSound(b, t), b.account # None, NEW n \in Nat
  PROVE  LET x == Overdraw([b EXCEPT !.account.consumed = Larger(@ - n, 0),
                                     !.account.current = 0, !.account.in = @ + n])
         IN /\ x \in Book /\ BookSound(x, t)
            /\ \A f \in {"holdings", "arrears", "billed"} : x[f] = b[f]
<1> DEFINE i == Larger(b.account.consumed - n, 0)
           j == b.account.in + n
           a == [[[b.account EXCEPT !.consumed = i] EXCEPT !.current = 0] EXCEPT !.in = j]
           y == [b EXCEPT !.account.consumed = Larger(@ - n, 0), !.account.current = 0, !.account.in = @ + n]
           x == Overdraw(y)
<1>1. b \in Book /\ b.account \in Account
  BY DEF BookSound, Book
<1>2. i \in Nat /\ j \in Nat
  BY <1>1 DEF Account, Larger
<1>3. y = [b EXCEPT !.account = a]
  <2>1. "account" \in DOMAIN b /\ {"consumed", "current", "in"} \subseteq DOMAIN b.account
    BY <1>1 DEF Book, Account
  <2> QED BY <2>1
<1> HIDE DEF i, j, y
<1>4. a \in Account /\ \A f \in {"limit", "overdraft", "period", "start", "end"} : a[f] = b.account[f]
  BY <1>1, <1>2 DEF Account
<1> HIDE DEF a
<1>5. /\ y \in Book /\ BookSound(y, t) /\ y.account = a
      /\ \A f \in {"holdings", "arrears", "billed"} : y[f] = b[f]
  BY <1>3, <1>4, OtherAccount
<1>6. y.account \in Account /\ y.account # None
  BY <1>4, <1>5, NoneAssumption
<1>7. CASE y.account.consumed > y.account.limit
  <2> DEFINE k == y.account.consumed - y.account.limit
             z == [y.account EXCEPT !.current = k]
  <2>1. k \in Nat
    BY <1>6, <1>7 DEF Account
  <2>2. x = [y EXCEPT !.account = z]
    BY <1>7 DEF Overdraw
  <2> HIDE DEF k
  <2>3. z \in Account /\ \A f \in {"limit", "overdraft", "period", "start", "end"} : z[f] = y.account[f]
    BY <1>6, <2>1 DEF Account
  <2> HIDE DEF z, x
  <2>4. x \in Book /\ BookSound(x, t) /\ \A f \in {"holdings", "arrears", "billed"} : x[f] = y[f]
    BY <1>5, <1>6, <2>2, <2>3, OtherAccount
  <2>5. x \in Book /\ BookSound(x, t) /\ \A f \in {"holdings", "arrears", "billed"} : x[f] = b[f]
    BY <1>5, <2>4
  <2> QED BY <2>5 DEF x, y
<1>8. CASE ~ (y.account.consumed > y.account.limit)
  <2>1. x = y
    BY <1>8 DEF Overdraw
  <2> HIDE DEF x
  <2>2. x \in Book /\ BookSound(x, t) /\ \A f \in {"holdings", "arrears", "billed"} : x[f] = b[f]
    BY <1>5, <2>1
  <2> QED BY <2>2 DEF x, y
<1> QED BY <1>7, <1>8

LEMMA TransferStep ==
  ASSUME BudgetInv, NEW f \in Callers, NEW to \in Callers, NEW n \in Nat, TransferBudget(f, to, n)
  PROVE  GoodStep
<1>1. PICK orders \in [{f, to} -> Orders] :
        books' = [books EXCEPT
          ![f] = [Refreshed(f, orders[f]) EXCEPT !.account.consumed = @ + n, !.account.out = @ + n],
          ![to] = Overdraw([Refreshed(to, orders[to]) EXCEPT !.account.consumed = Larger(@ - n, 0),
                                       !.account.current = 0, !.account.in = @ + n])]
  BY DEF TransferBudget
<1> DEFINE p == Refreshed(f, orders[f])
           q == Refreshed(to, orders[to])
           x == [p EXCEPT !.account.consumed = @ + n, !.account.out = @ + n]
           y == Overdraw([q EXCEPT !.account.consumed = Larger(@ - n, 0),
                                   !.account.current = 0, !.account.in = @ + n])
<1>2. orders[f] \in Orders /\ orders[to] \in Orders /\ f # to /\ HasAccount(f) /\ HasAccount(to)
  BY DEF TransferBudget
<1>3. Renews(f, p) /\ p.account # None /\ Renews(to, q) /\ q.account # None
  BY <1>2, RefreshedKeeps DEF HasAccount
<1>4. books' = [books EXCEPT ![f] = x, ![to] = y]
  BY <1>1
<1> HIDE DEF p, q
<1>5. x \in Book /\ BookSound(x, now) /\ \A g \in {"holdings", "arrears", "billed"} : x[g] = p[g]
  BY <1>3, GiverKeeps DEF Renews
<1>6. y \in Book /\ BookSound(y, now) /\ \A g \in {"holdings", "arrears", "billed"} : y[g] = q[g]
  BY <1>3, ReceiverKeeps DEF Renews
<1> HIDE DEF x, y
<1>7. Renews(f, x) /\ Renews(to, y)
  BY <1>3, <1>5, <1>6 DEF Renews
<1>8. books \in [Callers -> Book]
  BY DEF BudgetInv
<1>9. books' \in [Callers -> Book] /\ \A d \in Callers : books'[d] = books[d] \/ Renews(d, books'[d])
  BY <1>2, <1>4, <1>5, <1>6, <1>7, <1>8
<1>10. beat' \in BOOLEAN /\ requests' \in 0..bound.requests
  <2>1. bound.requests \in Nat
    BY NowIsNat DEF BoundSet
  <2> QED BY <2>1 DEF TransferBudget, Asked, BudgetInv
<1> QED BY <1>9, <1>10, BooksKept DEF TransferBudget

(* What is paid in pays arrears first: the one step that takes any off.      *)
LEMMA RechargeStep ==
  ASSUME BudgetInv, NEW c \in Callers, NEW n \in bound.amounts, RechargeBudget(c, n)
  PROVE  GoodStep
<1>1. bound \in Bounds /\ now \in Nat /\ books[c] \in Book /\ BookSound(books[c], now)
      /\ books \in [Callers -> Book]
  BY NowIsNat DEF BudgetInv
<1> DEFINE b == books[c]
           rest == Larger(n - b.arrears, 0)
           left == Larger(b.arrears - n, 0)
           k == b.account.limit + rest
           a == [b.account EXCEPT !.limit = k]
           g == [b.budget EXCEPT !.limit = k]
           x == [[[b EXCEPT !.arrears = left] EXCEPT !.budget = g] EXCEPT !.account = a]
<1>2. b.account # None /\ b.account \in Account /\ b.arrears \in Nat /\ n \in Nat
  <2>1. n \in Nat
    BY NowIsNat DEF BoundSet
  <2> QED BY <1>1, <2>1 DEF RechargeBudget, HasAccount, Book
<1>3. b.budget = [limit |-> b.account.limit, overdraft |-> b.account.overdraft, period |-> b.account.period]
  BY <1>1, <1>2 DEF BookSound
<1>4. b.budget \in Budget
  BY <1>1, <1>2 DEF BookSound, Book
<1>5. rest \in Nat /\ left \in Nat
  BY <1>2 DEF Larger
<1>6. k \in Nat \ {0}
  <2>1. b.account.limit \in Nat \ {0}
    BY <1>3, <1>4 DEF Budget
  <2> HIDE DEF rest
  <2> QED BY <1>5, <2>1
<1>7. Keeps(c, x)
  <2>1. {"arrears", "budget", "account"} \subseteq DOMAIN b /\ "limit" \in DOMAIN b.account
        /\ "limit" \in DOMAIN b.budget
    BY <1>1, <1>2, <1>4 DEF Book, Account, Budget
  <2>2. b.budget.limit = b.account.limit
    BY <1>3
  <2>3. [b EXCEPT !.arrears = Larger(@ - n, 0), !.budget.limit = @ + rest, !.account.limit = @ + rest] = x
    <3> HIDE DEF rest
    <3> QED BY <2>1, <2>2
  <2>4. Keeps(c, [b EXCEPT !.arrears = Larger(@ - n, 0), !.budget.limit = @ + rest, !.account.limit = @ + rest])
    BY DEF RechargeBudget
  <2> HIDE DEF x
  <2> QED BY <2>3, <2>4
<1> HIDE DEF rest, left, k
<1>8. a \in Account /\ a.limit = k /\ \A h \in {"overdraft", "period", "start", "end"} : a[h] = b.account[h]
  BY <1>2, <1>6 DEF Account
<1>9. g \in Budget /\ g = [limit |-> a.limit, overdraft |-> a.overdraft, period |-> a.period]
  <2>1. g \in Budget /\ g = [limit |-> k, overdraft |-> b.account.overdraft, period |-> b.account.period]
    BY <1>3, <1>4, <1>6 DEF Budget
  <2> HIDE DEF g, a
  <2> QED BY <1>8, <2>1
<1>10. a # None /\ g # None
  BY <1>8, <1>9, NoneAssumption
<1> HIDE DEF a, g
<1>11. /\ x \in Book /\ x.account = a /\ x.budget = g
       /\ \A h \in {"holdings", "alerts", "rows", "billed", "rule", "charged"} : x[h] = b[h]
  BY <1>1, <1>5, <1>8, <1>9 DEF Book
<1> HIDE DEF x
<1>12. ASSUME NEW l \in Locks PROVE HoldSound(x, l, now)
  <2>1. HoldSound(b, l, now)
    BY <1>1 DEF BookSound
  <2> QED BY <1>10, <1>11, <2>1 DEF HoldSound
<1>13. BookSound(x, now)
  <2>1. x.rule = IF x.alerts = None THEN None ELSE x.alerts.rule
    BY <1>1, <1>11 DEF BookSound
  <2>2. x.billed <= now /\ x.billed <= x.account.start /\ x.account.start <= x.account.end
        /\ x.account.start <= now
    BY <1>1, <1>2, <1>8, <1>11 DEF BookSound
  <2>3. x.budget = [limit |-> x.account.limit, overdraft |-> x.account.overdraft, period |-> x.account.period]
    BY <1>9, <1>11
  <2> QED BY <1>10, <1>11, <1>12, <2>1, <2>2, <2>3 DEF BookSound
<1>14. books' = [books EXCEPT ![c] = x]
  BY <1>7 DEF Keeps
<1>15. books' \in [Callers -> Book] /\ books'[c] = x /\ \A d \in Callers \ {c} : books'[d] = books[d]
  BY <1>1, <1>11, <1>14
<1>16. \A d \in Callers : BookSound(books'[d], now)
  BY <1>13, <1>15 DEF BudgetInv
<1>17. \A d \in Callers, l \in Locks : books'[d].holdings[l] # None => leases[l].holder = d
  BY <1>11, <1>15 DEF BudgetInv, LeasesSound
<1>18. /\ bound' = bound /\ beat' \in BOOLEAN /\ now' = now /\ requests' \in 0..bound.requests
       /\ restarts' \in 0..bound.restarts /\ leases' = leases /\ call' = call
  <2>1. bound.requests \in Nat
    BY NowIsNat DEF BoundSet
  <2> QED BY <1>7, <2>1 DEF Keeps, Asked, BudgetInv
<1>19. BudgetInv'
  <2>1. now' \in Time /\ (\A d \in Callers : BookSound(books'[d], now'))
    BY <1>16, <1>18 DEF BudgetInv
  <2>2. leases' \in [Locks -> [holder : Callers \cup {NoCaller}, until : Nat]]
        /\ \A l \in Locks : leases'[l] = NoLease \/ leases'[l].holder \in Callers
    BY <1>18 DEF BudgetInv, LeasesSound
  <2>3. call' # None => /\ call'.lock \in Locks /\ call'.at \in Nat /\ call'.at <= now'
                        /\ leases'[call'.lock].holder \in Callers
    BY <1>18 DEF BudgetInv, LeasesSound
  <2>4. \A d \in Callers, l \in Locks : books'[d].holdings[l] # None => leases'[l].holder = d
    BY <1>17, <1>18
  <2> QED BY <1>15, <1>18, <2>1, <2>2, <2>3, <2>4, StepKeeps
<1>20. \A d \in Callers : Settles(d)
  <2>1. x.billed = b.billed
    BY <1>11
  <2> QED BY <1>15, <2>1 DEF Settles
<1> QED BY <1>19, <1>20 DEF GoodStep

(* The rules of a caller and its freeze are no concern of its account.       *)
LEMMA AlertsStep ==
  ASSUME BudgetInv, NEW c \in Callers, NEW x \in Book, Keeps(c, x),
         \A f \in {"account", "holdings", "budget", "rows", "arrears", "billed", "charged"} :
           x[f] = books[c][f],
         x.rule = IF x.alerts = None THEN None ELSE x.alerts.rule
  PROVE  GoodStep
<1>1. BookSound(books[c], now)
  BY DEF BudgetInv
<1>2. ASSUME NEW l \in Locks PROVE HoldSound(x, l, now)
  <2>1. HoldSound(books[c], l, now)
    BY <1>1 DEF BookSound
  <2> QED BY <2>1 DEF HoldSound
<1>3. BookSound(x, now)
  BY <1>1, <1>2 DEF BookSound
<1>4. Renews(c, x)
  BY <1>3 DEF Renews
<1> QED BY <1>4, KeepsStep

LEMMA SetRuleStep ==
  ASSUME BudgetInv, NEW c \in Callers, NEW r \in Rule, SetRule(c, r)
  PROVE  GoodStep
<1> DEFINE a == NewAlerts(r, now)
           b == books[c]
           x == [[b EXCEPT !.rule = r] EXCEPT !.alerts = a]
<1>1. bound \in Bounds /\ now \in Nat /\ b \in Book
  BY NowIsNat DEF BudgetInv
<1>2. a \in Alerts /\ a.rule = r
  <2>1. r.window \in Nat /\ Second \in Nat
    BY <1>1, SecondIsPositive DEF Rule
  <2>2. 2 * r.window * Second \in Int
    BY <2>1
  <2> DEFINE k == 2 * r.window * Second
  <2>3. a = [rule |-> r, window |-> << >>, count |-> 0, last |-> now - k]
    BY DEF NewAlerts
  <2>4. now - k \in Int
    BY <1>1, <2>2
  <2> HIDE DEF k
  <2> QED BY <2>3, <2>4 DEF Alerts
<1>3. a # None
  BY <1>2, NoneAssumption
<1>4. Keeps(c, x)
  BY DEF SetRule
<1> HIDE DEF a
<1>5. /\ x \in Book /\ x.rule = r /\ x.alerts = a
      /\ \A f \in {"account", "holdings", "budget", "rows", "arrears", "billed", "charged"} : x[f] = b[f]
  BY <1>1, <1>2 DEF Book
<1> HIDE DEF x
<1>6. x.rule = IF x.alerts = None THEN None ELSE x.alerts.rule
  BY <1>2, <1>3, <1>5
<1> QED BY <1>4, <1>5, <1>6, AlertsStep

LEMMA DeleteRuleStep ==
  ASSUME BudgetInv, NEW c \in Callers, DeleteRule(c)
  PROVE  GoodStep
<1> DEFINE b == books[c]
           x == [[b EXCEPT !.rule = None] EXCEPT !.alerts = None]
<1>1. b \in Book
  BY DEF BudgetInv
<1>2. Keeps(c, x)
  BY DEF DeleteRule
<1>3. /\ x \in Book /\ x.rule = None /\ x.alerts = None
      /\ \A f \in {"account", "holdings", "budget", "rows", "arrears", "billed", "charged"} : x[f] = b[f]
  BY <1>1 DEF Book
<1> HIDE DEF x
<1> QED BY <1>2, <1>3, AlertsStep

LEMMA UnfreezeStep ==
  ASSUME BudgetInv, NEW c \in Callers, Unfreeze(c)
  PROVE  GoodStep
<1> DEFINE b == books[c]
           a == IF b.alerts = None THEN None ELSE [b.alerts EXCEPT !.count = 0]
           x == [[b EXCEPT !.frozen = FALSE] EXCEPT !.alerts = a]
<1>1. b \in Book /\ BookSound(b, now)
  BY DEF BudgetInv
<1>2. a \in Alerts \cup {None} /\ (a = None <=> b.alerts = None) /\ (a # None => a.rule = b.alerts.rule)
  <2>1. CASE b.alerts = None
    BY <2>1
  <2>2. CASE b.alerts # None
    <3>1. b.alerts \in Alerts
      BY <1>1, <2>2 DEF Book
    <3>2. [b.alerts EXCEPT !.count = 0] \in Alerts /\ [b.alerts EXCEPT !.count = 0].rule = b.alerts.rule
      BY <3>1 DEF Alerts
    <3> QED BY <2>2, <3>2, NoneAssumption
  <2> QED BY <2>1, <2>2
<1>3. Keeps(c, x)
  <2>1. {"frozen", "alerts"} \subseteq DOMAIN b
    BY <1>1 DEF Book
  <2>2. x = [b EXCEPT !.frozen = FALSE, !.alerts = IF @ = None THEN None ELSE [@ EXCEPT !.count = 0]]
    BY <2>1
  <2> HIDE DEF x
  <2> QED BY <2>2 DEF Unfreeze
<1> HIDE DEF a
<1>4. /\ x \in Book /\ x.alerts = a
      /\ \A f \in {"account", "holdings", "budget", "rows", "arrears", "billed", "charged", "rule"} : x[f] = b[f]
  BY <1>1, <1>2 DEF Book
<1> HIDE DEF x
<1>5. x.rule = IF x.alerts = None THEN None ELSE x.alerts.rule
  BY <1>1, <1>2, <1>4 DEF BookSound
<1> QED BY <1>3, <1>4, <1>5, AlertsStep

(************************ what the lock manager reports *********************)

LEMMA AcquireStep ==
  ASSUME BudgetInv, NEW c \in Callers, NEW l \in Locks, NEW secs \in Nat, AcquireLease(c, l, secs)
  PROVE  GoodStep
<1>1. bound \in Bounds /\ now \in Nat /\ books \in [Callers -> Book] /\ bound.requests \in Nat
  BY NowIsNat DEF BudgetInv, BoundSet
<1>2. PICK order \in Orders : books' = [books EXCEPT ![c] = Refreshed(c, order)]
  BY DEF AcquireLease
<1> DEFINE x == Refreshed(c, order)
           u == now + secs * Second
<1>3. x \in Book /\ Renews(c, x)
  BY RefreshedKeeps
<1> HIDE DEF x
<1>4. u \in Nat
  <2>1. secs * Second \in Nat
    BY <1>1, SecondIsPositive
  <2> QED BY <1>1, <2>1
<1>5. leases' = [leases EXCEPT ![l] = [holder |-> c, until |-> u]] /\ leases[l] = NoLease
      /\ call' = [op |-> "start", lock |-> l, at |-> now]
  BY DEF AcquireLease
<1> HIDE DEF u
<1>6. leases \in [Locks -> [holder : Callers \cup {NoCaller}, until : Nat]]
  BY DEF BudgetInv, LeasesSound
<1>7. /\ leases' \in [Locks -> [holder : Callers \cup {NoCaller}, until : Nat]]
      /\ leases'[l].holder = c /\ \A m \in Locks \ {l} : leases'[m] = leases[m]
  BY <1>4, <1>5, <1>6
<1>8. books' = [books EXCEPT ![c] = x]
  BY <1>2 DEF x
<1>9. books' \in [Callers -> Book] /\ \A d \in Callers : books'[d] = books[d] \/ Renews(d, books'[d])
  BY <1>1, <1>3, <1>8
<1>10. /\ bound' = bound /\ beat' \in BOOLEAN /\ now' = now /\ requests' \in 0..bound.requests
       /\ restarts' \in 0..bound.restarts
  BY <1>1 DEF AcquireLease, Asked, BudgetInv
<1>11. ASSUME NEW d \in Callers, NEW m \in Locks, books'[d].holdings[m] # None
       PROVE  leases'[m].holder = d
  <2>1. leases[m].holder = d
    BY <1>9, <1>11 DEF Renews, BudgetInv, LeasesSound
  <2>2. m # l
    BY <1>5, <2>1, LockBudgetAssumption DEF NoLease
  <2> QED BY <1>7, <2>1, <2>2
<1>12. \A d \in Callers : BookSound(books'[d], now')
  BY <1>9, <1>10 DEF Renews, BudgetInv
<1>13. \A m \in Locks : leases'[m] = NoLease \/ leases'[m].holder \in Callers
  BY <1>7 DEF BudgetInv, LeasesSound
<1>14. call'.lock \in Locks /\ call'.at \in Nat /\ call'.at <= now' /\ leases'[call'.lock].holder \in Callers
  BY <1>1, <1>5, <1>7, <1>10
<1>15. now' \in Time
  BY <1>10 DEF BudgetInv
<1>16. BudgetInv'
  BY <1>7, <1>9, <1>10, <1>11, <1>12, <1>13, <1>14, <1>15, StepKeeps
<1>17. \A d \in Callers : Settles(d)
  BY <1>9 DEF Settles, Renews
<1> QED BY <1>16, <1>17 DEF GoodStep

(* A step of the lock manager alone: the books stay as they are.             *)
LEMMA LeaseStep ==
  ASSUME BudgetInv, NEW l \in Locks, NEW u \in Nat, leases[l] # NoLease,
         leases' = leases \/ leases' = [leases EXCEPT ![l].until = u],
         call'.lock = l, call'.at = now, bound' = bound, beat' = beat, now' = now, books' = books,
         requests' \in 0..bound.requests, restarts' = restarts
  PROVE  GoodStep
<1>1. now \in Nat /\ leases \in [Locks -> [holder : Callers \cup {NoCaller}, until : Nat]]
      /\ leases[l].holder \in Callers
  BY NowIsNat DEF BudgetInv, LeasesSound
<1>2. /\ leases' \in [Locks -> [holder : Callers \cup {NoCaller}, until : Nat]]
      /\ \A m \in Locks : leases'[m].holder = leases[m].holder
      /\ \A m \in Locks \ {l} : leases'[m] = leases[m]
  BY <1>1
<1>3. \A m \in Locks : leases'[m] = NoLease \/ leases'[m].holder \in Callers
  BY <1>1, <1>2 DEF BudgetInv, LeasesSound
<1>4. \A d \in Callers, m \in Locks : books'[d].holdings[m] # None => leases'[m].holder = d
  BY <1>2 DEF BudgetInv, LeasesSound
<1>5. call'.lock \in Locks /\ call'.at \in Nat /\ call'.at <= now' /\ leases'[call'.lock].holder \in Callers
  BY <1>1, <1>2
<1>6. /\ beat' \in BOOLEAN /\ now' \in Time /\ restarts' \in 0..bound.restarts
      /\ books' \in [Callers -> Book] /\ \A d \in Callers : BookSound(books'[d], now')
  BY DEF BudgetInv
<1>7. BudgetInv'
  BY <1>2, <1>3, <1>4, <1>5, <1>6, StepKeeps
<1> QED BY <1>7 DEF GoodStep, Settles

LEMMA RenewStep ==
  ASSUME BudgetInv, NEW l \in Locks, NEW secs \in Nat, RenewLease(l, secs)
  PROVE  GoodStep
<1> DEFINE u == leases[l].until + secs * Second
<1>1. u \in Nat
  <2>1. leases[l].until \in Nat
    BY DEF BudgetInv, LeasesSound
  <2>2. secs * Second \in Nat
    BY SecondIsPositive DEF BudgetInv
  <2> QED BY <2>1, <2>2
<1>2. leases' = [leases EXCEPT ![l].until = u]
  BY DEF RenewLease
<1>3. requests' \in 0..bound.requests
  <2>1. bound.requests \in Nat
    BY NowIsNat DEF BoundSet
  <2> QED BY <2>1 DEF RenewLease, Asked, BudgetInv
<1> HIDE DEF u
<1>4. call'.lock = l /\ call'.at = now
  BY DEF RenewLease
<1> QED BY <1>1, <1>2, <1>3, <1>4, LeaseStep DEF RenewLease

LEMMA EndStep ==
  ASSUME BudgetInv, NEW l \in Locks, EndLease(l)
  PROVE  GoodStep
<1>1. call'.lock = l /\ call'.at = now /\ requests' \in 0..bound.requests /\ 0 \in Nat
  BY DEF EndLease, BudgetInv
<1> QED BY <1>1, LeaseStep DEF EndLease

(* What Called does when the lock's holder has an account: its book changes. *)
LEMMA ReportedStep ==
  ASSUME BudgetInv, NEW op, NEW x, Called(op, x),
         HasAccount(Caller) => /\ x \in Book /\ BookSound(x, now)
                               /\ x.arrears = books[Caller].arrears /\ x.billed = books[Caller].billed,
         leases' \in [Locks -> [holder : Callers \cup {NoCaller}, until : Nat]],
         \A m \in Locks : leases'[m] = NoLease \/ leases'[m].holder \in Callers,
         \A d \in Callers, m \in Locks :
           (IF d = Caller /\ HasAccount(d) THEN x ELSE books[d]).holdings[m] # None => leases'[m].holder = d
  PROVE  GoodStep
<1>1. Caller \in Callers /\ call # None /\ call' = None
  BY DEF Called, BudgetInv, LeasesSound, Caller
<1>2. books' = [books EXCEPT ![Caller] = IF HasAccount(Caller) THEN x ELSE books[Caller]]
  BY DEF Called, Caller
<1>3. books \in [Callers -> Book]
  BY DEF BudgetInv
<1>4. /\ books' \in [Callers -> Book]
      /\ \A d \in Callers : books'[d] = IF d = Caller /\ HasAccount(d) THEN x ELSE books[d]
  BY <1>1, <1>2, <1>3
<1>5. /\ bound' = bound /\ beat' \in BOOLEAN /\ now' = now /\ now' \in Time
      /\ requests' \in 0..bound.requests /\ restarts' \in 0..bound.restarts
  BY DEF Called, BudgetInv
<1>6. \A d \in Callers : BookSound(books'[d], now')
  BY <1>4, <1>5 DEF BudgetInv
<1>7. \A d \in Callers, m \in Locks : books'[d].holdings[m] # None => leases'[m].holder = d
  BY <1>4
<1>8. BudgetInv'
  BY <1>1, <1>4, <1>5, <1>6, <1>7, StepKeeps
<1>9. \A d \in Callers : Settles(d)
  BY <1>4 DEF Settles
<1> QED BY <1>8, <1>9 DEF GoodStep

(* A new hold begins unpaid, at the report's time or the period's beginning. *)
LEMMA StartStep ==
  ASSUME BudgetInv, StartHolding
  PROVE  GoodStep
<1> DEFINE l == call.lock
           b == books[Caller]
           h == [expires |-> leases[l].until, metered |-> Larger(call.at, b.account.start)]
           k == [since |-> call.at, units |-> 0]
           x == [b EXCEPT !.holdings[l] = h, !.rows[l] = h, !.charged[l] = k]
<1>1. Called("start", x) /\ leases' = leases
  BY DEF StartHolding
<1>2. /\ l \in Locks /\ call.at \in Nat /\ call.at <= now /\ Caller \in Callers
      /\ now \in Nat /\ bound \in Bounds /\ b \in Book /\ BookSound(b, now)
      /\ leases \in [Locks -> [holder : Callers \cup {NoCaller}, until : Nat]]
      /\ leases[l].holder = Caller
  BY <1>1, NowIsNat DEF Called, BudgetInv, LeasesSound, Caller
<1>3. ASSUME HasAccount(Caller)
      PROVE  /\ x \in Book /\ BookSound(x, now) /\ x.arrears = b.arrears /\ x.billed = b.billed
             /\ \A m \in Locks \ {l} : x.holdings[m] = b.holdings[m]
  <2>1. b.account \in Account /\ b.account # None
    BY <1>2, <1>3 DEF HasAccount, Book
  <2>2. h \in Holding /\ h.metered <= now /\ call.at <= h.metered
    <3>1. b.account.start \in Nat /\ b.account.start <= now /\ leases[l].until \in Nat
      BY <1>2, <2>1 DEF Account, BookSound
    <3>2. Larger(call.at, b.account.start) \in Nat /\ Larger(call.at, b.account.start) <= now
          /\ call.at <= Larger(call.at, b.account.start)
      BY <1>2, <3>1 DEF Larger
    <3> QED BY <3>1, <3>2 DEF Holding
  <2> DEFINE hs == [b.holdings EXCEPT ![l] = h]
             rs == [b.rows EXCEPT ![l] = h]
             ks == [b.charged EXCEPT ![l] = k]
             y == [[[b EXCEPT !.holdings = hs] EXCEPT !.rows = rs] EXCEPT !.charged = ks]
  <2>3. x = y
    <3>1. {"holdings", "rows", "charged"} \subseteq DOMAIN b
      BY <1>2 DEF Book
    <3> HIDE DEF h, k
    <3> QED BY <3>1
  <2> HIDE DEF x, h
  <2>4. /\ hs \in [Locks -> Holding \cup {None}] /\ rs \in [Locks -> Holding \cup {None}]
        /\ ks \in [Locks -> [since : Nat, units : Nat]]
    BY <1>2, <2>2 DEF Book
  <2>5. /\ hs[l] = h /\ rs[l] = h /\ ks[l] = k
        /\ \A m \in Locks \ {l} : hs[m] = b.holdings[m] /\ rs[m] = b.rows[m] /\ ks[m] = b.charged[m]
    BY <1>2 DEF Book
  <2> HIDE DEF hs, rs, ks
  <2>6. /\ y \in Book /\ y.holdings = hs /\ y.rows = rs /\ y.charged = ks
        /\ \A f \in {"account", "alerts", "budget", "arrears", "billed", "rule"} : y[f] = b[f]
    BY <1>2, <2>4 DEF Book
  <2> HIDE DEF y
  <2>7. HoldSound(y, l, now)
    <3>1. y.charged[l].since = call.at /\ y.charged[l].units = 0 /\ y.holdings[l] = h /\ y.rows[l] = h
      BY <2>5, <2>6
    <3>2. 0 <= (now - call.at + Second - 1) \div Second
      <4>1. Second \in Nat \ {0}
        BY <1>2, SecondIsPositive
      <4>2. now - call.at \in Int /\ 0 * Second <= (now - call.at) + Second - 1
        BY <1>2, <4>1
      <4> QED BY <4>1, <4>2, BegunSeconds
    <3>3. call.at + 0 * Second <= h.metered
      <4>1. Second \in Nat
        BY <1>2, SecondIsPositive
      <4>2. 0 * Second = 0
        BY <4>1
      <4> QED BY <1>2, <2>2, <4>2
    <3>4. y.holdings[l] # None /\ y.rows[l] # None /\ y.account # None
      BY <2>1, <2>2, <2>6, <3>1, NoneAssumption
    <3>5. y.rows[l].metered <= y.holdings[l].metered
      BY <2>2, <3>1 DEF Holding
    <3> QED BY <1>2, <2>2, <3>1, <3>2, <3>3, <3>4, <3>5 DEF HoldSound
  <2>8. \A m \in Locks \ {l} : y.holdings[m] = b.holdings[m] /\ y.rows[m] = b.rows[m] /\ y.charged[m] = b.charged[m]
    BY <2>5, <2>6
  <2>9. \A m \in Locks : HoldSound(y, m, now)
    <3> SUFFICES ASSUME NEW m \in Locks, m # l PROVE HoldSound(y, m, now)
      BY <2>7
    <3>1. HoldSound(b, m, now)
      BY <1>2 DEF BookSound
    <3> QED BY <2>6, <2>8, <3>1 DEF HoldSound
  <2>10. BookSound(y, now)
    BY <1>2, <2>6, <2>9 DEF BookSound
  <2> QED BY <2>3, <2>6, <2>8, <2>10
<1> HIDE DEF x
<1>4. \A d \in Callers, m \in Locks :
        (IF d = Caller /\ HasAccount(d) THEN x ELSE books[d]).holdings[m] # None => leases'[m].holder = d
  <2> SUFFICES ASSUME NEW d \in Callers, NEW m \in Locks,
                      (IF d = Caller /\ HasAccount(d) THEN x ELSE books[d]).holdings[m] # None
               PROVE  leases[m].holder = d
    BY <1>1
  <2>1. CASE d = Caller /\ HasAccount(d) /\ m = l
    BY <1>2, <2>1
  <2>2. CASE ~ (d = Caller /\ HasAccount(d) /\ m = l)
    <3>1. books[d].holdings[m] # None
      BY <1>3, <2>2
    <3> QED BY <3>1 DEF BudgetInv, LeasesSound
  <2> QED BY <2>1, <2>2
<1>5. /\ leases' \in [Locks -> [holder : Callers \cup {NoCaller}, until : Nat]]
      /\ \A m \in Locks : leases'[m] = NoLease \/ leases'[m].holder \in Callers
  BY <1>1 DEF BudgetInv, LeasesSound
<1> QED BY <1>1, <1>3, <1>4, <1>5, ReportedStep

LEMMA RenewalStep ==
  ASSUME BudgetInv, RenewHolding
  PROVE  GoodStep
<1> DEFINE l == call.lock
           b == books[Caller]
           x == IF b.holdings[l] = None THEN b
                ELSE [b EXCEPT !.holdings[l].expires = leases[l].until,
                               !.rows[l].expires = leases[l].until]
<1>1. Called("renew", x) /\ leases' = leases
  BY DEF RenewHolding
<1>2. /\ l \in Locks /\ Caller \in Callers
      /\ now \in Nat /\ bound \in Bounds /\ b \in Book /\ BookSound(b, now)
      /\ leases \in [Locks -> [holder : Callers \cup {NoCaller}, until : Nat]]
  BY <1>1, NowIsNat DEF Called, BudgetInv, LeasesSound, Caller
<1>3. /\ x \in Book /\ BookSound(x, now) /\ x.arrears = b.arrears /\ x.billed = b.billed
      /\ \A m \in Locks : x.holdings[m] # None => b.holdings[m] # None
  <2>1. CASE b.holdings[l] = None
    BY <1>2, <2>1
  <2>2. CASE b.holdings[l] # None
    <3>1. HoldSound(b, l, now)
      BY <1>2 DEF BookSound
    <3>2. b.holdings[l] \in Holding /\ b.rows[l] \in Holding /\ leases[l].until \in Nat /\ b.account # None
          /\ b.account \in Account
      BY <1>2, <2>2, <3>1 DEF HoldSound, Book
    <3> DEFINE h == [b.holdings[l] EXCEPT !.expires = leases[l].until]
               r == [b.rows[l] EXCEPT !.expires = leases[l].until]
               hs == [b.holdings EXCEPT ![l] = h]
               rs == [b.rows EXCEPT ![l] = r]
               y == [[b EXCEPT !.holdings = hs] EXCEPT !.rows = rs]
    <3>3. /\ h \in Holding /\ h.metered = b.holdings[l].metered
          /\ r \in Holding /\ r.metered = b.rows[l].metered /\ r.expires = h.expires
      BY <3>2 DEF Holding
    <3>4. x = y
      <4>1. {"holdings", "rows"} \subseteq DOMAIN b
        BY <1>2 DEF Book
      <4> QED BY <2>2, <4>1
    <3> HIDE DEF x, h, r
    <3>5. /\ hs \in [Locks -> Holding \cup {None}] /\ rs \in [Locks -> Holding \cup {None}]
          /\ hs[l] = h /\ rs[l] = r
          /\ \A m \in Locks \ {l} : hs[m] = b.holdings[m] /\ rs[m] = b.rows[m]
      BY <1>2, <3>3 DEF Book
    <3> HIDE DEF hs, rs
    <3>6. /\ y \in Book /\ y.holdings = hs /\ y.rows = rs
          /\ \A f \in {"account", "alerts", "budget", "arrears", "billed", "rule", "charged"} : y[f] = b[f]
      BY <1>2, <3>5 DEF Book
    <3> HIDE DEF y
    <3>7. HoldSound(y, l, now)
      <4>1. y.holdings[l] = h /\ y.rows[l] = r /\ h # None /\ r # None
        BY <3>3, <3>5, <3>6, NoneAssumption
      <4> QED BY <2>2, <3>1, <3>3, <3>6, <4>1 DEF HoldSound
    <3>8. OneHold(b, l, now, y)
      BY <2>2, <3>2, <3>5, <3>6, <3>7 DEF OneHold
    <3>9. MeteredBook(b, now, y)
      BY <1>2, <3>2, <3>8, OneHoldKeeps
    <3> QED BY <3>4, <3>6, <3>9 DEF MeteredBook, SameBook
  <2> QED BY <2>1, <2>2
<1> HIDE DEF x
<1>4. \A d \in Callers, m \in Locks :
        (IF d = Caller /\ HasAccount(d) THEN x ELSE books[d]).holdings[m] # None => leases'[m].holder = d
  BY <1>1, <1>3 DEF BudgetInv, LeasesSound
<1>5. /\ leases' \in [Locks -> [holder : Callers \cup {NoCaller}, until : Nat]]
      /\ \A m \in Locks : leases'[m] = NoLease \/ leases'[m].holder \in Callers
  BY <1>1 DEF BudgetInv, LeasesSound
<1> QED BY <1>1, <1>3, <1>4, <1>5, ReportedStep

(* The last second that was begun is paid for when the lock goes back.       *)
LEMMA LastSecond ==
  ASSUME NEW d \in Nat \ {0}, NEW since \in Nat, NEW u \in Nat, NEW m \in Nat, NEW at \in Nat,
         NEW t \in Nat, at <= t, since + u * d <= m, NEW w \in Nat, w = (at - m + d - 1) \div d
  PROVE  u + w <= (t - since + d - 1) \div d
<1>1. at - m + d - 1 \in Int /\ w * d <= at - m + d - 1
  <2>1. at - m + d - 1 \in Int
    OBVIOUS
  <2> QED BY <2>1, WholeSeconds
<1>2. (u + w) * d = u * d + w * d /\ u * d \in Nat /\ w * d \in Nat /\ u + w \in Int
  OBVIOUS
<1> DEFINE a == u * d
           c == w * d
           k == (u + w) * d
<1>3. a \in Nat /\ c \in Nat /\ k = a + c /\ since + a <= m /\ c <= at - m + d - 1
  BY <1>1, <1>2
<1> HIDE DEF a, c, k
<1>4. k <= (t - since) + d - 1 /\ t - since \in Int
  BY <1>3
<1>5. u + w <= ((t - since) + d - 1) \div d
  BY <1>2, <1>4, BegunSeconds DEF k
<1> QED BY <1>5

LEMMA StopStep ==
  ASSUME BudgetInv, StopHolding
  PROVE  GoodStep
<1> DEFINE l == call.lock
           b == books[Caller]
           x == Stopped(b, l, call.at)
<1>1. Called("stop", x) /\ leases' = [leases EXCEPT ![l] = NoLease]
  BY DEF StopHolding
<1>2. /\ l \in Locks /\ Caller \in Callers /\ call.at \in Nat /\ call.at <= now
      /\ now \in Nat /\ bound \in Bounds /\ b \in Book /\ BookSound(b, now)
      /\ leases \in [Locks -> [holder : Callers \cup {NoCaller}, until : Nat]]
      /\ leases[l].holder = Caller
  BY <1>1, NowIsNat DEF Called, BudgetInv, LeasesSound, Caller
<1>3. /\ x \in Book /\ BookSound(x, now) /\ x.arrears = b.arrears /\ x.billed = b.billed
      /\ x.holdings[l] = None
      /\ \A m \in Locks : x.holdings[m] # None => b.holdings[m] # None
  <2>1. CASE b.holdings[l] = None
    <3>1. x = b
      BY <2>1 DEF Stopped
    <3> QED BY <1>2, <2>1, <3>1
  <2>2. CASE b.holdings[l] # None
    <3>1. HoldSound(b, l, now) /\ Second \in Nat \ {0}
      BY <1>2, SecondIsPositive DEF BookSound
    <3>2. /\ b.holdings[l] \in Holding /\ b.rows[l] \in Holding /\ b.account # None /\ b.account \in Account
          /\ b.charged[l] \in [since : Nat, units : Nat]
      BY <1>2, <2>2, <3>1 DEF HoldSound, Book
    <3> DEFINE units == (call.at - b.holdings[l].metered + Second - 1) \div Second
               y == IF units > 0 THEN ChargeAndRecord(b, l, units, call.at) ELSE b
    <3>3. x = Drop(y, l)
      BY <2>2 DEF Stopped
    <3>4. units \in Int
      <4>1. call.at - b.holdings[l].metered + Second - 1 \in Int
        BY <1>2, <3>1, <3>2 DEF Holding
      <4> QED BY <3>1, <4>1, WholeSeconds
    <3> DEFINE w == IF units > 0 THEN units ELSE 0
    <3>5. w \in Nat
      BY <3>4
    <3>6. Recorded(b, l, w, y)
      <4>1. CASE units > 0
        <5>1. units \in Nat \ {0} /\ w = units /\ y = ChargeAndRecord(b, l, units, call.at)
          BY <3>4, <4>1
        <5> HIDE DEF units, y, w
        <5> QED BY <1>2, <3>2, <5>1, ChargeAndRecordKeeps
      <4>2. CASE ~ (units > 0)
        <5>1. w = 0 /\ y = b
          BY <4>2
        <5>2. b.charged[l] = [since |-> b.charged[l].since, units |-> b.charged[l].units + 0]
          BY <3>2
        <5>3. b.charged = [b.charged EXCEPT ![l] = [since |-> b.charged[l].since,
                                                    units |-> b.charged[l].units + 0]]
          BY <1>2, <5>2 DEF Book
        <5>4. Recorded(b, l, 0, b)
          BY <1>2, <3>2, <5>3 DEF Recorded
        <5> QED BY <5>1, <5>4
      <4> QED BY <4>1, <4>2
    <3>7. y \in Book
      BY <3>6 DEF Recorded
    <3>8. b.charged[l].units + w <= (now - b.charged[l].since + Second - 1) \div Second
      <4>1. CASE units > 0
        <5>1. b.charged[l].since + b.charged[l].units * Second <= b.holdings[l].metered
          <6> DEFINE q == b.charged[l].units * Second
          <6>1. q \in Nat
            BY <3>1, <3>2
          <6>2. b.charged[l].since + q <= b.rows[l].metered /\ b.rows[l].metered <= b.holdings[l].metered
            BY <2>2, <3>1 DEF HoldSound
          <6> HIDE DEF q
          <6>3. b.charged[l].since + q <= b.holdings[l].metered
            BY <3>2, <6>1, <6>2 DEF Holding
          <6> QED BY <6>3 DEF q
        <5>2. w \in Nat /\ w = (call.at - b.holdings[l].metered + Second - 1) \div Second
          BY <3>5, <4>1
        <5>3. b.charged[l].since \in Nat /\ b.charged[l].units \in Nat /\ b.holdings[l].metered \in Nat
          BY <3>2 DEF Holding
        <5> HIDE DEF w, units
        <5> QED BY <1>2, <3>1, <5>1, <5>2, <5>3, LastSecond
      <4>2. CASE ~ (units > 0)
        <5>1. b.charged[l].units + w = b.charged[l].units
          BY <3>2, <4>2
        <5> HIDE DEF w, units
        <5> QED BY <3>1, <5>1 DEF HoldSound
      <4> QED BY <4>1, <4>2
    <3> HIDE DEF x, y, w, units
    <3>9. /\ x \in Book
          /\ \A f \in {"account", "alerts", "budget", "arrears", "billed", "rule", "charged"} : x[f] = y[f]
          /\ x.holdings = [y.holdings EXCEPT ![l] = None]
          /\ x.rows = [y.rows EXCEPT ![l] = None]
      BY <1>2, <3>3, <3>7, DropKeeps
    <3>10. /\ y.holdings = b.holdings /\ y.rows = b.rows /\ y.budget = b.budget /\ y.arrears = b.arrears
           /\ y.billed = b.billed /\ y.rule = b.rule /\ y.account \in Account
           /\ \A f \in {"limit", "overdraft", "period", "start", "end"} : y.account[f] = b.account[f]
           /\ y.alerts = None <=> b.alerts = None
           /\ b.alerts # None => y.alerts.rule = b.alerts.rule
           /\ y.charged = [b.charged EXCEPT ![l] = [since |-> b.charged[l].since,
                                                    units |-> b.charged[l].units + w]]
      BY <3>6 DEF Recorded
    <3>11. /\ x.holdings[l] = None /\ x.rows[l] = None
           /\ x.charged[l].since = b.charged[l].since /\ x.charged[l].units = b.charged[l].units + w
           /\ \A m \in Locks \ {l} : /\ x.holdings[m] = b.holdings[m] /\ x.rows[m] = b.rows[m]
                                     /\ x.charged[m] = b.charged[m]
      <4>1. x.charged = y.charged
        BY <3>9
      <4>2. /\ b.holdings \in [Locks -> Holding \cup {None}] /\ b.rows \in [Locks -> Holding \cup {None}]
            /\ b.charged \in [Locks -> [since : Nat, units : Nat]]
        BY <1>2 DEF Book
      <4> QED BY <1>2, <3>9, <3>10, <4>1, <4>2
    <3>12. HoldSound(x, l, now)
      BY <3>1, <3>8, <3>11 DEF HoldSound
    <3>13. OneHold(b, l, now, x)
      <4>1. x.account = y.account /\ x.alerts = y.alerts /\ x.budget = y.budget /\ x.rule = y.rule
            /\ x.arrears = y.arrears /\ x.billed = y.billed
        BY <3>9
      <4>2. /\ \A f \in {"budget", "rule", "arrears", "billed"} : x[f] = b[f]
            /\ x.account \in Account
            /\ \A f \in {"limit", "overdraft", "period", "start", "end"} : x.account[f] = b.account[f]
            /\ x.alerts = None <=> b.alerts = None
            /\ b.alerts # None => x.alerts.rule = b.alerts.rule
        BY <3>10, <4>1
      <4> QED BY <3>9, <3>11, <3>12, <4>2 DEF OneHold
    <3>14. MeteredBook(b, now, x)
      BY <1>2, <3>2, <3>13, OneHoldKeeps
    <3> QED BY <3>9, <3>11, <3>14 DEF MeteredBook, SameBook
  <2> QED BY <2>1, <2>2
<1> HIDE DEF x
<1>4. /\ leases' \in [Locks -> [holder : Callers \cup {NoCaller}, until : Nat]]
      /\ leases'[l] = NoLease /\ \A m \in Locks \ {l} : leases'[m] = leases[m]
  BY <1>1, <1>2 DEF NoLease
<1>5. \A m \in Locks : leases'[m] = NoLease \/ leases'[m].holder \in Callers
  BY <1>4 DEF BudgetInv, LeasesSound
<1>6. ASSUME NEW d \in Callers, NEW m \in Locks,
             (IF d = Caller /\ HasAccount(d) THEN x ELSE books[d]).holdings[m] # None
      PROVE  leases'[m].holder = d
  <2>1. books[d].holdings[m] # None
    BY <1>3, <1>6
  <2>2. leases[m].holder = d
    BY <2>1 DEF BudgetInv, LeasesSound
  <2>3. m # l
    <3> SUFFICES ASSUME m = l PROVE FALSE
      OBVIOUS
    <3>1. d = Caller
      BY <1>2, <2>2
    <3>2. HasAccount(d)
      BY <1>2, <2>1, <3>1 DEF BookSound, HoldSound, HasAccount
    <3> QED BY <1>3, <1>6, <3>1, <3>2
  <2> QED BY <1>4, <2>2, <2>3
<1> QED BY <1>1, <1>3, <1>4, <1>5, <1>6, ReportedStep

(************************** restarts, and time ******************************)

(* What Start makes of a sound book at a later time.                         *)
LEMMA LoadedKeeps ==
  ASSUME bound \in Bounds, NEW b \in Book, NEW s \in Nat, NEW t \in Nat, s < t, b.billed <= s,
         b.budget = None <=> b.account = None,
         \A l \in Locks : HoldSound(b, l, s)
  PROVE  LET x == Loaded(b, t)
         IN /\ x \in Book /\ BookSound(x, t) /\ x.arrears = b.arrears /\ x.billed = b.billed
            /\ \A l \in Locks : x.holdings[l] # None => b.holdings[l] # None
<1> DEFINE a == IF b.budget = None THEN None ELSE NewAccount(b.budget, t)
           hs == [l \in Locks |-> IF b.budget = None \/ b.rows[l] = None THEN None
                                  ELSE IF b.rows[l].expires < t THEN None ELSE b.rows[l]]
           z == IF b.rule = None THEN None ELSE NewAlerts(b.rule, t)
           x == [[[b EXCEPT !.account = a] EXCEPT !.holdings = hs] EXCEPT !.alerts = z]
<1>1. Loaded(b, t) = x
  <2>1. {"account", "holdings", "alerts"} \subseteq DOMAIN b
    BY DEF Book
  <2> QED BY <2>1 DEF Loaded
<1>2. b.budget = None => a = None
  OBVIOUS
<1>3. b.budget # None =>
        /\ a \in Account /\ a # None
        /\ b.budget = [limit |-> a.limit, overdraft |-> a.overdraft, period |-> a.period]
        /\ a.start = t /\ a.start <= a.end
  <2> SUFFICES ASSUME b.budget # None
               PROVE  /\ a \in Account /\ a # None
                      /\ b.budget = [limit |-> a.limit, overdraft |-> a.overdraft, period |-> a.period]
                      /\ a.start = t /\ a.start <= a.end
    OBVIOUS
  <2>1. b.budget \in Budget
    BY DEF Book
  <2>2. b.budget.limit \in Nat /\ b.budget.overdraft \in Nat /\ b.budget.period \in Nat \ {0}
    BY <2>1 DEF Budget
  <2>3. /\ a \in Account /\ a.limit = b.budget.limit /\ a.overdraft = b.budget.overdraft
        /\ a.period = b.budget.period /\ a.start = t /\ a.start <= a.end
    BY <2>2, NewAccountIs
  <2> HIDE DEF a
  <2> QED BY <2>1, <2>3, NoneAssumption DEF Budget
<1>4. hs \in [Locks -> Holding \cup {None}]
  BY DEF Book
<1>5. z \in Alerts \cup {None} /\ b.rule = IF z = None THEN None ELSE z.rule
  <2>1. CASE b.rule = None
    BY <2>1
  <2>2. CASE b.rule # None
    <3>1. b.rule \in Rule
      BY <2>2 DEF Book
    <3>2. 2 * b.rule.window * Second \in Int
      BY <3>1, SecondIsPositive DEF Rule
    <3> DEFINE k == 2 * b.rule.window * Second
    <3>3. z = [rule |-> b.rule, window |-> << >>, count |-> 0, last |-> t - k]
      BY <2>2 DEF NewAlerts
    <3>4. t - k \in Int
      BY <3>2
    <3> HIDE DEF k, z
    <3>5. z \in Alerts /\ z.rule = b.rule
      BY <3>1, <3>3, <3>4 DEF Alerts
    <3> QED BY <2>2, <3>5, NoneAssumption
  <2> QED BY <2>1, <2>2
<1>6. \A l \in Locks :
        /\ hs[l] # None => b.budget # None /\ hs[l] = b.rows[l] /\ b.rows[l] # None /\ ~ (b.rows[l].expires < t)
        /\ hs[l] = None => b.budget = None \/ b.rows[l] = None \/ b.rows[l].expires < t
  OBVIOUS
<1>7. a \in Account \cup {None}
  BY <1>2, <1>3
<1> HIDE DEF a, hs, z
<1>8. /\ x \in Book /\ x.account = a /\ x.holdings = hs /\ x.alerts = z
      /\ \A f \in {"budget", "rows", "arrears", "billed", "rule", "charged"} : x[f] = b[f]
  BY <1>4, <1>5, <1>7 DEF Book
<1> HIDE DEF x
<1>9. ASSUME NEW l \in Locks
      PROVE  (x.holdings[l] # None => b.holdings[l] # None) /\ HoldSound(x, l, t)
  <2>1. HoldSound(b, l, s) /\ b.charged[l].since \in Nat /\ b.charged[l].units \in Nat
    BY DEF Book
  <2>2. /\ b.charged[l].since <= t
        /\ b.charged[l].units <= (t - b.charged[l].since + Second - 1) \div Second
    <3> DEFINE i == s - b.charged[l].since + Second - 1
               j == t - b.charged[l].since + Second - 1
    <3>1. Second \in Nat \ {0} /\ i \in Int /\ j \in Int /\ i <= j
      BY <2>1, SecondIsPositive
    <3>2. i \div Second <= j \div Second /\ i \div Second \in Int /\ j \div Second \in Int
      BY <3>1, LaterIsMore, WholeSeconds
    <3>3. b.charged[l].units <= i \div Second /\ b.charged[l].since <= s
      BY <2>1 DEF HoldSound
    <3> HIDE DEF i, j
    <3>4. b.charged[l].units <= j \div Second /\ b.charged[l].since <= t
      BY <2>1, <3>2, <3>3
    <3> QED BY <3>4 DEF j
  <2>3. b.rows[l] # None => b.rows[l].expires \in Nat /\ b.rows[l].metered \in Nat
    BY DEF Book, Holding
  <2>4. CASE x.holdings[l] # None
    <3>1. b.budget # None /\ x.holdings[l] = b.rows[l] /\ b.rows[l] # None /\ ~ (b.rows[l].expires < t)
      BY <1>6, <1>8, <2>4
    <3>2. b.holdings[l] # None
      BY <2>1, <2>3, <3>1 DEF HoldSound
    <3>3. /\ b.charged[l].since + b.charged[l].units * Second <= b.rows[l].metered
          /\ b.rows[l].metered <= t
      <4>1. b.rows[l].metered <= b.holdings[l].metered /\ b.holdings[l].metered <= s
        BY <2>1, <3>2 DEF HoldSound
      <4>2. b.holdings[l].metered \in Nat
        BY <3>2 DEF Book, Holding
      <4>3. b.rows[l].metered <= t
        BY <2>3, <3>1, <4>1, <4>2
      <4> QED BY <2>1, <3>2, <4>3 DEF HoldSound
    <3>4. x.account # None
      BY <1>3, <1>8, <3>1
    <3>5. b.rows[l].metered <= b.rows[l].metered
      BY <2>3, <3>1
    <3> QED BY <1>8, <2>2, <2>4, <3>1, <3>2, <3>3, <3>4, <3>5 DEF HoldSound
  <2>5. CASE x.holdings[l] = None
    <3>1. b.rows[l] = None \/ b.rows[l].expires < t
      <4>1. CASE b.budget = None
        <5>1. b.holdings[l] = None
          BY <2>1, <4>1 DEF HoldSound
        <5> QED BY <2>1, <2>3, <5>1 DEF HoldSound
      <4>2. CASE b.budget # None
        BY <1>6, <1>8, <2>5, <4>2
      <4> QED BY <4>1, <4>2
    <3> QED BY <1>8, <2>2, <2>5, <3>1 DEF HoldSound
  <2> QED BY <2>4, <2>5
<1>10. BookSound(x, t)
  <2>1. x.budget = IF x.account = None THEN None
                   ELSE [limit |-> x.account.limit, overdraft |-> x.account.overdraft,
                         period |-> x.account.period]
    BY <1>2, <1>3, <1>8
  <2>2. x.rule = IF x.alerts = None THEN None ELSE x.alerts.rule
    BY <1>5, <1>8
  <2>3. x.billed <= t
    <3>1. b.billed \in Nat
      BY DEF Book
    <3> QED BY <1>8, <3>1
  <2>4. x.account # None => x.budget # None /\ x.billed <= x.account.start
                            /\ x.account.start <= x.account.end /\ x.account.start <= t
    BY <1>2, <1>3, <1>8, <2>3
  <2> QED BY <1>8, <1>9, <2>1, <2>2, <2>3, <2>4 DEF BookSound
<1>11. /\ x \in Book /\ BookSound(x, t) /\ x.arrears = b.arrears /\ x.billed = b.billed
       /\ \A l \in Locks : x.holdings[l] # None => b.holdings[l] # None
  BY <1>8, <1>9, <1>10
<1> QED BY <1>1, <1>11

LEMMA RestartStep ==
  ASSUME BudgetInv, NEW stopped \in BOOLEAN, RestartBudgets(stopped)
  PROVE  GoodStep
<1>1. bound \in Bounds /\ now \in Nat /\ bound.time \in Nat /\ bound.restarts \in Nat /\ books \in [Callers -> Book]
  BY NowIsNat DEF BudgetInv, BoundSet
<1>2. PICK orders \in [Callers -> Orders], t \in (now + 1)..bound.time :
        /\ books' = [c \in Callers |->
             Loaded(IF stopped /\ HasAccount(c) THEN Finalized(c, orders[c]) ELSE books[c], t)]
        /\ now' = t
  BY DEF RestartBudgets
<1>3. t \in Nat /\ now < t /\ t \in Time
  BY <1>1 DEF Time
<1>4. ASSUME NEW c \in Callers
      PROVE  /\ books'[c] \in Book /\ BookSound(books'[c], t)
             /\ books[c].arrears > 0 =>
                  books'[c].arrears = books[c].arrears /\ books'[c].billed = books[c].billed
             /\ \A l \in Locks : books'[c].holdings[l] # None => books[c].holdings[l] # None
  <2> DEFINE b == IF stopped /\ HasAccount(c) THEN Finalized(c, orders[c]) ELSE books[c]
  <2>1. BookSound(books[c], now) /\ books[c] \in Book /\ now <= now
    BY <1>1 DEF BudgetInv
  <2>2. /\ b \in Book /\ b.billed <= now /\ (b.budget = None <=> b.account = None)
        /\ \A l \in Locks : (b.holdings[l] # None => books[c].holdings[l] # None) /\ HoldSound(b, l, now)
        /\ books[c].arrears > 0 => b.arrears = books[c].arrears /\ b.billed = books[c].billed
    <3>1. CASE stopped /\ HasAccount(c)
      <4> DEFINE inArrears == books[c].arrears > 0
      <4>1. b = FinalizeCurrentPeriod(books[c], now, orders[c], inArrears) /\ inArrears \in BOOLEAN
        BY <3>1 DEF Finalized
      <4> HIDE DEF b
      <4>2. Closed(books[c], now, now, inArrears, b)
        BY <1>1, <2>1, <3>1, <4>1, FinalizedKeeps DEF HasAccount
      <4>3. b.billed <= now
        BY <2>1, <4>2 DEF Closed, BookSound
      <4>4. b.budget # None /\ b.account # None
        BY <2>1, <3>1, <4>2 DEF Closed, BookSound, HasAccount
      <4> QED BY <4>2, <4>3, <4>4 DEF Closed
    <3>2. CASE ~ (stopped /\ HasAccount(c))
      <4>1. b = books[c]
        BY <3>2
      <4> QED BY <2>1, <4>1 DEF BookSound
    <3> QED BY <3>1, <3>2
  <2>3. books'[c] = Loaded(b, t)
    BY <1>2
  <2> HIDE DEF b
  <2> DEFINE x == Loaded(b, t)
  <2>4. /\ x \in Book /\ BookSound(x, t) /\ x.arrears = b.arrears /\ x.billed = b.billed
        /\ \A l \in Locks : x.holdings[l] # None => b.holdings[l] # None
    BY <1>1, <1>3, <2>2, LoadedKeeps
  <2> HIDE DEF x
  <2>5. books'[c] = x
    BY <2>3 DEF x
  <2> QED BY <2>2, <2>4, <2>5
<1>5. books' \in [Callers -> Book]
  BY <1>2, <1>4
<1>6. /\ bound' = bound /\ beat' \in BOOLEAN /\ now' = t /\ requests' \in 0..bound.requests
      /\ restarts' \in 0..bound.restarts /\ leases' = leases /\ call' = None
  BY <1>1, <1>2 DEF RestartBudgets, BudgetInv
<1>7. /\ leases' \in [Locks -> [holder : Callers \cup {NoCaller}, until : Nat]]
      /\ \A m \in Locks : leases'[m] = NoLease \/ leases'[m].holder \in Callers
      /\ \A d \in Callers, m \in Locks : books'[d].holdings[m] # None => leases'[m].holder = d
  BY <1>4, <1>6 DEF BudgetInv, LeasesSound
<1>8. \A d \in Callers : BookSound(books'[d], now')
  BY <1>4, <1>6
<1>9. BudgetInv'
  BY <1>3, <1>5, <1>6, <1>7, <1>8, StepKeeps
<1>10. \A d \in Callers : Settles(d)
  BY <1>4 DEF Settles
<1> QED BY <1>9, <1>10 DEF GoodStep

LEMMA TimeStep ==
  ASSUME BudgetInv, TimePasses
  PROVE  GoodStep
<1>1. bound \in Bounds /\ now \in Nat /\ bound.time \in Nat
  BY NowIsNat DEF BudgetInv
<1>2. now' = now + 1 /\ now' \in Nat /\ now <= now' /\ now' \in Time
  BY <1>1 DEF TimePasses, Time
<1>3. \A d \in Callers : BookSound(books'[d], now')
  BY <1>1, <1>2, BookLater DEF TimePasses, BudgetInv
<1>4. call' # None => /\ call'.lock \in Locks /\ call'.at \in Nat /\ call'.at <= now'
                      /\ leases'[call'.lock].holder \in Callers
  BY <1>1, <1>2 DEF TimePasses, BudgetInv, LeasesSound
<1>5. /\ leases' \in [Locks -> [holder : Callers \cup {NoCaller}, until : Nat]]
      /\ \A m \in Locks : leases'[m] = NoLease \/ leases'[m].holder \in Callers
      /\ \A d \in Callers, m \in Locks : books'[d].holdings[m] # None => leases'[m].holder = d
  BY DEF TimePasses, BudgetInv, LeasesSound
<1>6. /\ bound' = bound /\ beat' \in BOOLEAN /\ requests' \in 0..bound.requests
      /\ restarts' \in 0..bound.restarts /\ books' \in [Callers -> Book]
  BY DEF TimePasses, BudgetInv
<1>7. BudgetInv'
  BY <1>2, <1>3, <1>4, <1>5, <1>6, StepKeeps
<1> QED BY <1>7 DEF GoodStep, Settles, TimePasses

(****************************** the theorems ********************************)

LEMMA BudgetInitHolds == ASSUME BudgetInit PROVE BudgetInv
<1>1. bound \in BoundSet /\ bound \in Bounds
  BY LockBudgetAssumption DEF BudgetInit
<1> DEFINE b == [account |-> None, holdings |-> [l \in Locks |-> None], alerts |-> None,
                 budget |-> None, rows |-> [l \in Locks |-> None], arrears |-> 0, billed |-> 0,
                 rule |-> None, frozen |-> FALSE,
                 charged |-> [l \in Locks |-> [since |-> 0, units |-> 0]]]
<1>2. b \in Book
  BY DEF Book
<1>3. \A l \in Locks : HoldSound(b, l, 0)
  <2>1. Second \in Nat \ {0}
    BY <1>1, SecondIsPositive
  <2>2. 0 <= (0 - 0 + Second - 1) \div Second
    <3>1. 0 * Second <= (0 - 0) + Second - 1 /\ 0 - 0 \in Int
      BY <2>1
    <3> QED BY <2>1, <3>1, BegunSeconds
  <2> QED BY <2>2 DEF HoldSound
<1>4. BookSound(b, 0)
  <2>1. /\ b.account = None /\ b.budget = None /\ b.rule = None /\ b.alerts = None /\ b.billed = 0
    OBVIOUS
  <2> HIDE DEF b
  <2> QED BY <1>2, <1>3, <2>1 DEF BookSound
<1>5. books = [c \in Callers |-> b]
  BY DEF BudgetInit
<1> HIDE DEF b
<1>6. books \in [Callers -> Book] /\ \A c \in Callers : books[c] = b
  BY <1>2, <1>5
<1>7. \A c \in Callers : BookSound(books[c], now)
  BY <1>4, <1>6 DEF BudgetInit
<1>8. LeasesSound
  <2>1. \A c \in Callers, l \in Locks : books[c].holdings[l] = None
    BY <1>6 DEF b
  <2> QED BY <2>1 DEF BudgetInit, LeasesSound, NoLease
<1>9. /\ beat \in BOOLEAN /\ now \in Time /\ requests \in 0..bound.requests
      /\ restarts \in 0..bound.restarts
  <2>1. bound.time \in Nat /\ bound.requests \in Nat /\ bound.restarts \in Nat
    BY <1>1 DEF BoundSet
  <2>2. beat \in BOOLEAN
    BY DEF BudgetInit
  <2>3. now \in Time
    BY <2>1 DEF BudgetInit, Time
  <2>4. requests \in 0..bound.requests
    BY <2>1 DEF BudgetInit
  <2>5. restarts \in 0..bound.restarts
    BY <2>1 DEF BudgetInit
  <2> QED BY <2>2, <2>3, <2>4, <2>5
<1> QED BY <1>1, <1>6, <1>7, <1>8, <1>9 DEF BudgetInv

LEMMA BudgetNextStep == ASSUME BudgetInv, [BudgetNext]_budgetVars PROVE GoodStep
<1>1. bound \in BoundSet /\ bound.callers \subseteq Callers /\ bound.locks \subseteq Locks
      /\ bound.secs \subseteq Nat /\ bound.amounts \subseteq Nat
      /\ bound.budgets \subseteq Budget /\ bound.rules \subseteq Rule
  BY NowIsNat DEF BoundSet
<1>2. CASE LockManagerStep
  <2>1. ASSUME NEW c \in bound.callers, NEW l \in bound.locks, NEW secs \in bound.secs, AcquireLease(c, l, secs)
        PROVE  GoodStep
    BY <1>1, <2>1, AcquireStep
  <2>2. ASSUME NEW l \in bound.locks, EndLease(l) PROVE GoodStep
    BY <1>1, <2>2, EndStep
  <2>3. ASSUME NEW l \in bound.locks, NEW secs \in bound.secs, RenewLease(l, secs) PROVE GoodStep
    BY <1>1, <2>3, RenewStep
  <2> QED BY <1>2, <2>1, <2>2, <2>3, StartStep, RenewalStep, StopStep DEF LockManagerStep
<1>3. CASE BudgetRequest
  <2>1. ASSUME NEW cs \in {{c} : c \in bound.callers} \cup {bound.callers}, GetCallerStatus(cs)
        PROVE  GoodStep
    <3>1. cs \in SUBSET Callers
      BY <1>1
    <3> QED BY <2>1, <3>1, StatusStep
  <2>2. ASSUME NEW c \in bound.callers, DeleteBudget(c) PROVE GoodStep
    BY <1>1, <2>2, DeleteBudgetStep
  <2>3. ASSUME NEW c \in bound.callers, NEW cfg \in bound.budgets, SetBudgetWithOverdraft(c, cfg)
        PROVE  GoodStep
    BY <1>1, <2>3, SetBudgetStep
  <2>4. ASSUME NEW c \in bound.callers, NEW n \in bound.amounts, RechargeBudget(c, n) PROVE GoodStep
    BY <1>1, <2>4, RechargeStep
  <2>5. ASSUME NEW c \in bound.callers, NEW n \in bound.amounts, NEW t \in bound.callers,
               TransferBudget(c, t, n)
        PROVE  GoodStep
    BY <1>1, <2>5, TransferStep
  <2> QED BY <1>3, <2>1, <2>2, <2>3, <2>4, <2>5 DEF BudgetRequest
<1>4. CASE AlertRequest
  <2>1. ASSUME NEW c \in bound.callers, NEW r \in bound.rules, SetRule(c, r) PROVE GoodStep
    BY <1>1, <2>1, SetRuleStep
  <2>2. ASSUME NEW c \in bound.callers, DeleteRule(c) \/ Unfreeze(c) PROVE GoodStep
    BY <1>1, <2>2, DeleteRuleStep, UnfreezeStep
  <2> QED BY <1>4, <2>1, <2>2 DEF AlertRequest
<1>5. CASE \E stopped \in BOOLEAN : RestartBudgets(stopped)
  BY <1>5, RestartStep
<1>6. CASE UNCHANGED budgetVars
  <2>1. /\ beat' \in BOOLEAN /\ requests' \in 0..bound.requests /\ books' \in [Callers -> Book]
    BY <1>6 DEF budgetVars, BudgetInv
  <2> QED BY <1>6, <2>1, BooksKept DEF budgetVars
<1> QED BY <1>2, <1>3, <1>4, <1>5, <1>6, TickStep, TimeStep DEF BudgetNext

(* The books, the leases and what the lock manager has yet to report stay    *)
(* sound together.                                                           *)
THEOREM BudgetInvariant == BudgetSpec => []BudgetInv
<1>1. BudgetInit => BudgetInv
  BY BudgetInitHolds
<1>2. BudgetInv /\ [BudgetNext]_budgetVars => BudgetInv'
  BY BudgetNextStep DEF GoodStep
<1> QED BY <1>1, <1>2, PTL DEF BudgetSpec

(* Nobody pays for a lock of another or pays a second twice, bills do not    *)
(* overlap, and a crash loses nothing of an account.                         *)
THEOREM BudgetSound == BudgetSpec => []BudgetIsSound
<1>1. BudgetInv => BudgetIsSound
  <2> SUFFICES ASSUME BudgetInv PROVE BudgetIsSound
    OBVIOUS
  <2>1. ASSUME NEW c \in Callers, NEW l \in Locks
        PROVE  /\ books[c] \in Book /\ BookSound(books[c], now) /\ HoldSound(books[c], l, now)
    BY DEF BudgetInv, BookSound
  <2>2. \A c \in Callers : books[c] \in Book /\ BookSound(books[c], now)
    BY DEF BudgetInv, BookSound
  <2>3. BudgetTypes
    <3>1. \A c \in Callers :
            /\ books[c].account # None => books[c].account \in Account
            /\ \A l \in Locks : /\ books[c].holdings[l] # None => books[c].holdings[l] \in Holding
                                /\ books[c].rows[l] # None => books[c].rows[l] \in Holding
            /\ books[c].arrears \in Nat /\ books[c].billed \in Nat
      BY <2>2 DEF Book
    <3>2. \A c \in Callers : books[c].billed \in Time
      <4>1. now \in Nat /\ bound.time \in Nat /\ now <= bound.time
        BY NowIsNat DEF BudgetInv, Time
      <4>2. ASSUME NEW c \in Callers PROVE books[c].billed \in Time
        <5>1. books[c].billed \in Nat /\ books[c].billed <= now
          BY <2>2, <3>1 DEF BookSound
        <5> QED BY <4>1, <5>1 DEF Time
      <4> QED BY <4>2
    <3> QED BY <3>1, <3>2 DEF BudgetTypes, BudgetInv, LeasesSound
  <2>4. MemoryIsSaved
    BY <2>1, <2>2 DEF MemoryIsSaved, BookSound, HoldSound
  <2>5. HoldingsAreHeld
    BY DEF HoldingsAreHeld, BudgetInv, LeasesSound
  <2>6. ChargedOnce
    BY <2>1 DEF ChargedOnce, HoldSound
  <2>7. BillsFollow
    <3>1. \A c \in Callers : HasAccount(c) =>
            /\ books[c].billed <= books[c].account.start
            /\ books[c].account.start \in Nat /\ books[c].billed \in Nat
      BY <2>2 DEF BookSound, HasAccount, Book, Account
    <3> QED BY <3>1 DEF BillsFollow
  <2> QED BY <2>3, <2>4, <2>5, <2>6, <2>7 DEF BudgetIsSound
<1> QED BY <1>1, BudgetInvariant, PTL

(* Arrears outlive everything but what is paid in, and no bill is written    *)
(* while there are any.                                                      *)
THEOREM ArrearsPaid == BudgetSpec => ArrearsArePaid
<1>1. BudgetInv /\ [BudgetNext]_budgetVars =>
        [\A c \in Callers :
           books[c].arrears > 0 =>
             /\ books'[c].billed = books[c].billed
             /\ \/ books'[c].arrears = books[c].arrears
                \/ \E n \in bound.amounts : RechargeBudget(c, n)]_budgetVars
  BY BudgetNextStep DEF GoodStep, Settles
<1> QED BY <1>1, BudgetInvariant, PTL DEF BudgetSpec, ArrearsArePaid
=============================================================================
