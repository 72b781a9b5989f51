---------------------------- MODULE ManagerProofs ----------------------------
(***************************************************************************)
(* Three managers whose promises are about what a failure leaves behind.   *)
(*                                                                         *)
(* Memory, table and history of the circuit breakers agree, for any number *)
(* of callers, requests under way, rules and crashes; and a cooldown is as *)
(* long as it was set for.  Every action does one of a few things to the   *)
(* breakers: it recovers some that are over or closed by hand, it opens    *)
(* one that is closed, it writes one as it is, it starts the server, or    *)
(* time passes.  A lemma each says what this does to the breakers; what it *)
(* does to the rest is typing.                                             *)
(*                                                                         *)
(* A shadow plan is applied as a whole or not at all, for any number of    *)
(* plans, overrides and requests.  What the request that applies one has   *)
(* saved tells, row by row, what the overrides before had made of it.      *)
(*                                                                         *)
(* A handover that is left alone moves everything or nothing, for any      *)
(* callers, resources and requests.  Every row is either where it was when *)
(* the execution began, or among what the execution has moved, or between  *)
(* two statements of the one it moves.                                     *)
(***************************************************************************)
EXTENDS AuditBreaker, ShadowPlan, Handover, DataProofs


(**************************** circuit breakers ******************************)

(* The bounds the model takes from the rules are bounds. *)
LEMMA RuleBounds ==
  /\ MaxWindow \in Nat /\ MaxCooldown \in Nat
  /\ \A r \in RuleSet : r.cooldown \in 1..MaxCooldown
<1> DEFINE W == {r.window : r \in RuleSet}
           C == {r.cooldown : r \in RuleSet}
<1>1. W \in SUBSET Nat /\ W # {} /\ C \in SUBSET Nat /\ C # {} /\ \A c \in C : c > 0
  BY AuditAssumption DEF Rule
<1>2. IsFiniteSet(W) /\ IsFiniteSet(C)
  <2> DEFINE w == [r \in RuleSet |-> r.window]
             c == [r \in RuleSet |-> r.cooldown]
  <2>1. IsFiniteSet({w[r] : r \in RuleSet}) /\ IsFiniteSet({c[r] : r \in RuleSet})
    <3>1. w = [r \in RuleSet |-> w[r]] /\ c = [r \in RuleSet |-> c[r]]
      OBVIOUS
    <3> HIDE DEF w, c
    <3> QED BY <3>1, AuditAssumption, ImageIsFinite
  <2>2. {w[r] : r \in RuleSet} = W /\ {c[r] : r \in RuleSet} = C
    OBVIOUS
  <2> QED BY <2>1, <2>2
<1>3. MaxWindow \in W /\ MaxCooldown \in C /\ \A c \in C : MaxCooldown >= c
  <2> HIDE DEF W, C
  <2>1. Max(W) \in W /\ Max(C) \in C /\ \A c \in C : Max(C) >= c
    BY <1>1, <1>2, MaxOfFinite
  <2> QED BY <2>1 DEF MaxWindow, MaxCooldown, W, C
<1> QED BY <1>1, <1>3

StatusesTyped(ss) == DOMAIN ss \subseteq Callers /\ \A c \in DOMAIN ss : ss[c] \in Status

(* The breakers part of the invariant, and the rest of the state. *)
Agreed ==
  /\ StatusesTyped(statuses) /\ StatusesTyped(statusRows) /\ openRows \in [Callers -> Nat]
  /\ torn \in [Callers -> Nat] /\ HistoryAgrees /\ TableAgrees

RestTyped ==
  /\ bound \in CrashBounds /\ crashes \in 0..bound /\ beat \in BOOLEAN
  /\ DOMAIN rules \subseteq Callers \cup {Default} /\ \A c \in DOMAIN rules : rules[c] \in RuleSet
  /\ failures \in [Callers -> [0..MaxWindow -> 0..MaxFailures]]
  /\ calls \in [Clients -> Call]
  /\ \A k \in Clients : calls[k].pc # "idle" => calls[k].caller \in Callers

(* The two parts together are the invariant that the run checks.             *)
LEMMA SoundParts == Agreed /\ RestTyped => BreakersAreSound
BY DEF BreakersAreSound, TypeOK, Agreed, RestTyped, StatusesTyped

(* A breaker that is open in memory is open in the table; one that is not is *)
(* not.                                                                      *)
LEMMA SeenTwice ==
  ASSUME Agreed, NEW c \in Callers
  PROVE  /\ IsOpen(statuses, c) <=> IsOpen(statusRows, c)
         /\ IsOpen(statuses, c) => statuses[c] = statusRows[c]
         /\ IsOpen(statuses, c) \in BOOLEAN /\ IsOpen(statusRows, c) \in BOOLEAN
<1>1. \A d \in DOMAIN statuses : statuses[d].open \in BOOLEAN
  BY DEF Agreed, StatusesTyped, Status
<1>2. \A d \in DOMAIN statusRows : statusRows[d].open \in BOOLEAN
  BY DEF Agreed, StatusesTyped, Status
<1>3. IsOpen(statuses, c) <=> IsOpen(statusRows, c)
  BY <1>1, <1>2 DEF Agreed, TableAgrees, IsOpen
<1> QED BY <1>1, <1>2, <1>3 DEF Agreed, TableAgrees, IsOpen

(* Among these rows of the history, those of the caller without an end are   *)
(* as many as its breaker asks for, but for so many crashes.                 *)
Fits(n, open, crashed) ==
  n \in ((IF open THEN 1 ELSE 0) - crashed)..((IF open THEN 1 ELSE 0) + crashed)

LEMMA HistoryFits ==
  /\ HistoryAgrees => \A c \in Callers : Fits(openRows[c], IsOpen(statusRows, c), torn[c])
  /\ (\A c \in Callers : Fits(openRows'[c], IsOpen(statusRows', c), torn'[c])) =>
       HistoryAgrees'
BY DEF HistoryAgrees, Fits

(* One row less of some callers, if they have one. *)
LEMMA OneRowLess ==
  ASSUME NEW rows \in [Callers -> Nat], NEW cs
  PROVE  /\ WithoutLatest(rows, cs) \in [Callers -> Nat]
         /\ \A c \in Callers : WithoutLatest(rows, cs)[c] =
              IF c \in cs /\ rows[c] >= 1 THEN rows[c] - 1 ELSE rows[c]
<1>1. ASSUME NEW c \in Callers
      PROVE  Max({0, rows[c] - 1}) = IF rows[c] >= 1 THEN rows[c] - 1 ELSE rows[c]
  <2>1. rows[c] \in Nat
    OBVIOUS
  <2>2. Max({0, rows[c] - 1}) = IF 0 >= rows[c] - 1 THEN 0 ELSE rows[c] - 1
    BY <2>1, MaxOfTwo
  <2> QED BY <2>1, <2>2
<1>2. \A c \in Callers : WithoutLatest(rows, cs)[c] =
        IF c \in cs /\ rows[c] >= 1 THEN rows[c] - 1 ELSE rows[c]
  BY <1>1 DEF WithoutLatest
<1>3. \A c \in Callers : WithoutLatest(rows, cs)[c] \in Nat
  BY <1>2
<1>4. WithoutLatest(rows, cs) = [c \in Callers |-> WithoutLatest(rows, cs)[c]]
  BY DEF WithoutLatest
<1> QED BY <1>2, <1>3, <1>4

(* What a recovery of some open breakers leaves of them. *)
LEMMA RecoverKeeps ==
  ASSUME Agreed, RestTyped, NEW cs \in SUBSET Callers, \A c \in cs : IsOpen(statuses, c),
         RecoverCircuitBreaker(cs), torn' = torn
  PROVE  /\ Agreed'
         /\ \A c \in Callers : IsOpen(statusRows', c) => statusRows'[c] = statusRows[c]
         /\ \A c \in Callers \ cs : IsOpen(statusRows, c) => IsOpen(statuses', c)
<1>1. /\ statuses' = [c \in DOMAIN statuses |-> IF c \in cs THEN Closed ELSE statuses[c]]
      /\ statusRows' = [c \in DOMAIN statusRows |-> IF c \in cs THEN Closed ELSE statusRows[c]]
      /\ openRows' = WithoutLatest(openRows, cs)
  BY DEF RecoverCircuitBreaker, EndLatestHistory
<1>2. /\ openRows' \in [Callers -> Nat]
      /\ \A c \in Callers : openRows'[c] = IF c \in cs /\ openRows[c] >= 1
                                          THEN openRows[c] - 1 ELSE openRows[c]
  BY <1>1, OneRowLess DEF Agreed
<1>3. Closed \in Status /\ ~ Closed.open
  BY RuleBounds DEF Closed, Status
<1>4. StatusesTyped(statuses') /\ StatusesTyped(statusRows')
  BY <1>1, <1>3 DEF Agreed, StatusesTyped
<1>5. TableAgrees'
  BY <1>1, <1>3 DEF Agreed, TableAgrees
<1>6. ASSUME NEW c \in Callers
      PROVE  Fits(openRows'[c], IsOpen(statusRows', c), torn'[c])
  <2>1. Fits(openRows[c], IsOpen(statusRows, c), torn[c])
    BY HistoryFits DEF Agreed
  <2>2. torn[c] \in Nat /\ openRows[c] \in Nat
    BY DEF Agreed
  <2>3. CASE c \in cs
    <3>1. IsOpen(statusRows, c) /\ ~ IsOpen(statusRows', c)
      BY <1>1, <1>3, <2>3, SeenTwice DEF IsOpen
    <3> QED BY <1>2, <2>1, <2>2, <2>3, <3>1 DEF Fits
  <2>4. CASE c \notin cs
    <3>1. IsOpen(statusRows', c) = IsOpen(statusRows, c) /\ openRows'[c] = openRows[c]
      BY <1>1, <1>2, <2>4 DEF IsOpen
    <3> QED BY <2>1, <3>1
  <2> QED BY <2>3, <2>4
<1>7. HistoryAgrees'
  BY <1>6, HistoryFits
<1>8. \A c \in Callers : IsOpen(statusRows', c) => statusRows'[c] = statusRows[c]
  BY <1>1, <1>3 DEF IsOpen
<1>9. \A c \in Callers \ cs : IsOpen(statusRows, c) => IsOpen(statuses', c)
  BY <1>1, SeenTwice DEF IsOpen
<1> QED BY <1>2, <1>4, <1>5, <1>7, <1>8, <1>9 DEF Agreed

(* A failure that is counted opens a breaker that was closed, with a row of *)
(* the history, or writes down the breaker as it is.                        *)
LEMMA CountKeeps ==
  ASSUME Agreed, RestTyped, NEW c \in Callers, CheckAndTriggerCircuitBreaker(c),
         torn' = torn
  PROVE  /\ Agreed'
         /\ \A d \in Callers : IsOpen(statusRows, d) =>
              IsOpen(statuses', d) /\ statusRows'[d] = statusRows[d]
<1>0. /\ \A d \in Callers : IsOpen(statuses, d) <=> IsOpen(statusRows, d)
      /\ torn \in [Callers -> Nat] /\ Closed \in Status /\ ~ Closed.open /\ openRows \in [Callers -> Nat]
  BY SeenTwice, RuleBounds DEF Closed, Status, Agreed
<1>1. CASE Triggers(c)
  <2> DEFINE st == OpenFor(c)
  <2>1. st \in Status /\ st.open
    <3>1. RuleFor(c) \in DOMAIN rules /\ rules[RuleFor(c)] \in RuleSet
      BY <1>1 DEF Triggers, RestTyped
    <3> QED BY <3>1, RuleBounds DEF OpenFor, Status
  <2>2. ~ IsOpen(statuses, c) /\ ~ IsOpen(statusRows, c)
    BY <1>0, <1>1 DEF Triggers
  <2>3. /\ statuses' = Put(statuses, c, st) /\ statusRows' = Put(statusRows, c, st)
        /\ openRows' = [openRows EXCEPT ![c] = @ + 1]
    BY <1>1 DEF CheckAndTriggerCircuitBreaker, AddCircuitBreakerHistory
  <2> HIDE DEF st
  <2>4. StatusesTyped(statuses') /\ StatusesTyped(statusRows') /\ openRows' \in [Callers -> Nat]
    BY <1>0, <2>1, <2>3 DEF Agreed, StatusesTyped, Put
  <2>5. TableAgrees'
    BY <2>2, <2>3 DEF Agreed, TableAgrees, Put, IsOpen
  <2>6. \A d \in Callers \ {c} : IsOpen(statusRows', d) = IsOpen(statusRows, d)
    BY <2>3 DEF Put, IsOpen
  <2>7. HistoryAgrees'
    <3> SUFFICES ASSUME NEW d \in Callers
                 PROVE  Fits(openRows'[d], IsOpen(statusRows', d), torn'[d])
      BY HistoryFits
    <3>1. Fits(openRows[d], IsOpen(statusRows, d), torn[d])
      BY HistoryFits DEF Agreed
    <3>2. CASE d = c
      <4>1. IsOpen(statusRows', d) /\ openRows'[d] = openRows[d] + 1
        BY <1>0, <2>1, <2>3, <3>2 DEF Put, IsOpen
      <4>2. openRows[d] \in Nat /\ torn[d] \in Nat
        BY <1>0
      <4> QED BY <2>2, <3>1, <3>2, <4>1, <4>2 DEF Fits
    <3>3. CASE d # c
      BY <1>0, <2>3, <2>6, <3>1, <3>3
    <3> QED BY <3>2, <3>3
  <2>8. \A d \in Callers : IsOpen(statusRows, d) =>
          IsOpen(statuses', d) /\ statusRows'[d] = statusRows[d]
    BY <1>0, <2>2, <2>3 DEF Put, IsOpen
  <2> QED BY <2>4, <2>5, <2>7, <2>8 DEF Agreed
<1>2. CASE ~ Triggers(c)
  <2> DEFINE st == IF c \in DOMAIN statuses THEN statuses[c] ELSE Closed
  <2>1. openRows' = openRows
    BY <1>2 DEF CheckAndTriggerCircuitBreaker
  <2>2. CASE statuses' = statuses /\ statusRows' = statusRows
    BY <1>0, <2>1, <2>2 DEF Agreed, TableAgrees, HistoryAgrees
  <2>3. CASE statuses' = Put(statuses, c, st) /\ statusRows' = Put(statusRows, c, st)
    <3>1. st \in Status
      BY <1>0 DEF Agreed, StatusesTyped
    <3>2. /\ c \in DOMAIN statuses => c \in DOMAIN statusRows /\ st = statusRows[c]
          /\ c \notin DOMAIN statuses => ~ st.open /\ ~ IsOpen(statusRows, c)
      BY <1>0 DEF Agreed, TableAgrees, IsOpen
    <3> HIDE DEF st
    <3>3. StatusesTyped(statuses') /\ StatusesTyped(statusRows')
      BY <2>3, <3>1 DEF Agreed, StatusesTyped, Put
    <3>4. TableAgrees'
      BY <2>3 DEF Agreed, TableAgrees, Put
    <3>5. \A d \in Callers : IsOpen(statusRows', d) = IsOpen(statusRows, d)
      BY <2>3, <3>2 DEF Put, IsOpen
    <3>6. \A d \in Callers : IsOpen(statusRows, d) =>
            IsOpen(statuses', d) /\ statusRows'[d] = statusRows[d]
      BY <1>0, <2>3, <3>2 DEF Put, IsOpen
    <3> QED BY <1>0, <2>1, <3>3, <3>4, <3>5, <3>6 DEF Agreed, HistoryAgrees
  <2> QED BY <1>2, <2>2, <2>3 DEF CheckAndTriggerCircuitBreaker
<1> QED BY <1>1, <1>2

(* A start recovers the breakers of the table that are over and loads the   *)
(* others, whatever rows of the history a crash has left.                   *)
LEMMA StartKeeps ==
  ASSUME Agreed, RestTyped, NEW rows \in [Callers -> Nat], torn' \in [Callers -> Nat],
         \A c \in Callers : Fits(rows[c], IsOpen(statusRows, c), torn'[c]),
         StartWith(rows)
  PROVE  /\ Agreed'
         /\ \A c \in Callers : IsOpen(statusRows, c) =>
              /\ IsOpen(statuses', c) \/ Expired(statusRows[c])
              /\ IsOpen(statusRows', c) => statusRows'[c] = statusRows[c]
<1> DEFINE over == Over(statusRows)
<1>0. Closed \in Status /\ ~ Closed.open
  BY RuleBounds DEF Closed, Status
<1>1. /\ over \subseteq DOMAIN statusRows
      /\ \A c \in over : IsOpen(statusRows, c) /\ Expired(statusRows[c])
      /\ \A c \in DOMAIN statusRows : Expired(statusRows[c]) => c \in over
  BY DEF Over, Expired, IsOpen
<1>2. /\ statuses' = [c \in DOMAIN statusRows \ over |-> statusRows[c]]
      /\ statusRows' = [x \in DOMAIN statusRows |-> IF x \in over THEN Closed ELSE statusRows[x]]
      /\ openRows' = WithoutLatest(rows, over)
  BY DEF StartWith, LoadStatuses, Restrict
<1> HIDE DEF over
<1>3. StatusesTyped(statuses') /\ StatusesTyped(statusRows')
  BY <1>0, <1>2 DEF Agreed, StatusesTyped
<1>4. TableAgrees'
  BY <1>0, <1>1, <1>2 DEF TableAgrees
<1>5. /\ openRows' \in [Callers -> Nat]
      /\ \A c \in Callers : openRows'[c] = IF c \in over /\ rows[c] >= 1
                                          THEN rows[c] - 1 ELSE rows[c]
  BY <1>2, OneRowLess
<1>6. ASSUME NEW c \in Callers
      PROVE  Fits(openRows'[c], IsOpen(statusRows', c), torn'[c])
  <2>1. /\ Fits(rows[c], IsOpen(statusRows, c), torn'[c])
        /\ rows[c] \in Nat /\ torn'[c] \in Nat
    OBVIOUS
  <2>2. CASE c \in over
    <3>1. IsOpen(statusRows, c) /\ ~ IsOpen(statusRows', c)
      BY <1>0, <1>1, <1>2, <2>2 DEF IsOpen
    <3> QED BY <1>5, <2>1, <2>2, <3>1 DEF Fits
  <2>3. CASE c \notin over
    <3>1. IsOpen(statusRows', c) = IsOpen(statusRows, c) /\ openRows'[c] = rows[c]
      BY <1>2, <1>5, <2>3 DEF IsOpen
    <3> QED BY <2>1, <3>1
  <2> QED BY <2>2, <2>3
<1>7. HistoryAgrees'
  BY <1>6, HistoryFits
<1>8. \A c \in Callers : IsOpen(statusRows, c) =>
        /\ IsOpen(statuses', c) \/ Expired(statusRows[c])
        /\ IsOpen(statusRows', c) => statusRows'[c] = statusRows[c]
  BY <1>0, <1>1, <1>2 DEF IsOpen
<1> QED BY <1>3, <1>4, <1>5, <1>7, <1>8 DEF Agreed

(* As time passes, open breakers have less of it left and stay open. *)
LEMMA LaterKeeps ==
  ASSUME Agreed, RestTyped, statuses' = Later(statuses), statusRows' = Later(statusRows),
         openRows' = openRows, torn' = torn
  PROVE  /\ Agreed'
         /\ \A c \in Callers : IsOpen(statusRows, c) =>
              IsOpen(statuses', c) /\ statusRows'[c].left <= statusRows[c].left
<1>1. ASSUME NEW st \in Status, st.open
      PROVE  /\ Max({-1, st.left - 1}) \in -1..MaxCooldown
             /\ Max({-1, st.left - 1}) <= st.left
  <2>1. st.left \in Int /\ st.left >= -1 /\ st.left <= MaxCooldown /\ MaxCooldown \in Nat
    BY RuleBounds DEF Status
  <2>2. Max({-1, st.left - 1}) = IF -1 >= st.left - 1 THEN -1 ELSE st.left - 1
    BY <2>1, MaxOfTwo
  <2> QED BY <2>1, <2>2
<1>2. ASSUME NEW ss, StatusesTyped(ss)
      PROVE  /\ StatusesTyped(Later(ss)) /\ DOMAIN Later(ss) = DOMAIN ss
             /\ \A c \in DOMAIN ss : /\ Later(ss)[c].open = ss[c].open
                                     /\ ss[c].open => Later(ss)[c].left <= ss[c].left
             /\ \A c \in DOMAIN ss :
                  Later(ss)[c] = IF ss[c].open THEN [ss[c] EXCEPT !.left = Max({-1, @ - 1})]
                                 ELSE ss[c]
  <2>1. \A c \in DOMAIN ss :
          Later(ss)[c] = IF ss[c].open THEN [ss[c] EXCEPT !.left = Max({-1, @ - 1})] ELSE ss[c]
    BY DEF Later
  <2>2. DOMAIN Later(ss) = DOMAIN ss
    BY DEF Later
  <2>3. ASSUME NEW c \in DOMAIN ss
        PROVE  /\ Later(ss)[c] \in Status /\ Later(ss)[c].open = ss[c].open
               /\ ss[c].open => Later(ss)[c].left <= ss[c].left
    <3>1. ss[c] \in Status
      BY <1>2 DEF StatusesTyped
    <3>2. CASE ss[c].open
      <4> DEFINE m == Max({-1, ss[c].left - 1})
      <4>1. Later(ss)[c] = [ss[c] EXCEPT !.left = m]
        BY <2>1, <3>2
      <4>2. m \in -1..MaxCooldown /\ m <= ss[c].left
        BY <1>1, <3>1, <3>2
      <4> HIDE DEF m
      <4> QED BY <3>1, <4>1, <4>2 DEF Status
    <3>3. CASE ~ ss[c].open
      BY <2>1, <3>1, <3>3
    <3> QED BY <3>2, <3>3
  <2> QED BY <1>2, <2>1, <2>2, <2>3 DEF StatusesTyped
<1>3. StatusesTyped(statuses') /\ StatusesTyped(statusRows') /\ openRows' \in [Callers -> Nat]
  BY <1>2 DEF Agreed
<1>4. TableAgrees'
  <2>1. ASSUME NEW c \in DOMAIN statuses PROVE Later(statuses)[c] = Later(statusRows)[c]
    BY DEF Agreed, TableAgrees, Later
  <2>2. /\ DOMAIN statuses' = DOMAIN statuses /\ DOMAIN statusRows' = DOMAIN statusRows
        /\ \A c \in DOMAIN statusRows : statusRows'[c].open = statusRows[c].open
    BY <1>2 DEF Agreed
  <2> QED BY <2>1, <2>2 DEF Agreed, TableAgrees
<1>5. \A c \in Callers : /\ IsOpen(statusRows', c) = IsOpen(statusRows, c)
                         /\ IsOpen(statuses', c) = IsOpen(statuses, c)
  BY <1>2 DEF Agreed, IsOpen
<1>6. HistoryAgrees'
  BY <1>5 DEF Agreed, HistoryAgrees
<1>7. \A c \in Callers : IsOpen(statusRows, c) =>
        IsOpen(statuses', c) /\ statusRows'[c].left <= statusRows[c].left
  BY <1>2, <1>5, SeenTwice DEF Agreed, IsOpen
<1> QED BY <1>3, <1>4, <1>6, <1>7 DEF Agreed

(* What a step may do to cooldowns. *)
TimeServed ==
  \A c \in Callers : IsOpen(statusRows, c) /\ ~ IsOpen(statuses', c) =>
    Expired(statusRows[c]) \/ ClosedByHand(c)

NotExtended ==
  \A c \in Callers : IsOpen(statusRows, c) /\ IsOpen(statusRows', c) =>
    statusRows'[c].left <= statusRows[c].left

(* A step that leaves open breakers as they are changes no cooldown. *)
LEMMA SameTime ==
  ASSUME Agreed, RestTyped, NEW cs,
         \A c \in Callers : IsOpen(statusRows', c) /\ IsOpen(statusRows, c) =>
           statusRows'[c] = statusRows[c],
         \A c \in Callers \ cs : IsOpen(statusRows, c) => IsOpen(statuses', c),
         \A c \in cs : Expired(statusRows[c]) \/ ClosedByHand(c)
  PROVE  TimeServed /\ NotExtended
<1>1. TimeServed
  BY DEF TimeServed
<1>2. \A c \in Callers : IsOpen(statusRows, c) => statusRows[c].left \in Int
  BY DEF Agreed, StatusesTyped, IsOpen, Status
<1> QED BY <1>1, <1>2 DEF NotExtended

(* A step that leaves every open breaker open and as it is.                  *)
LEMMA QuietTime ==
  ASSUME Agreed, RestTyped,
         \A c \in Callers : IsOpen(statusRows, c) =>
           IsOpen(statuses', c) /\ statusRows'[c] = statusRows[c]
  PROVE  TimeServed /\ NotExtended
<1>1. TimeServed
  BY DEF TimeServed
<1>2. \A c \in Callers : IsOpen(statusRows, c) => statusRows[c].left \in Int
  BY DEF Agreed, StatusesTyped, IsOpen, Status
<1> QED BY <1>1, <1>2 DEF NotExtended

(* A step that writes neither breakers nor history.                          *)
LEMMA NothingHappens ==
  ASSUME Agreed, RestTyped, UNCHANGED <<statuses, statusRows, openRows, torn>>
  PROVE  Agreed' /\ TimeServed /\ NotExtended
<1>1. Agreed'
  BY DEF Agreed, HistoryAgrees, TableAgrees
<1>2. \A c \in Callers : IsOpen(statusRows, c) =>
        IsOpen(statuses', c) /\ statusRows'[c] = statusRows[c]
  BY SeenTwice
<1> QED BY <1>1, <1>2, QuietTime

(* A recovery of breakers that are over. *)
LEMMA RecoverOver ==
  ASSUME Agreed, RestTyped, NEW cs \in SUBSET Over(statuses), RecoverCircuitBreaker(cs),
         torn' = torn
  PROVE  Agreed' /\ TimeServed /\ NotExtended
<1>1. cs \in SUBSET Callers /\ \A c \in cs : IsOpen(statuses, c) /\ Expired(statusRows[c])
  BY DEF Over, Expired, IsOpen, Agreed, StatusesTyped, TableAgrees
<1>2. /\ Agreed'
      /\ \A c \in Callers : IsOpen(statusRows', c) => statusRows'[c] = statusRows[c]
      /\ \A c \in Callers \ cs : IsOpen(statusRows, c) => IsOpen(statuses', c)
  BY <1>1, RecoverKeeps
<1> QED BY <1>1, <1>2, SameTime

(* An entry of the log is counted up to the bound.                           *)
LEMMA LogKeeps ==
  ASSUME RestTyped, NEW c \in Callers, NEW success \in BOOLEAN, AddAuditLog(c, success)
  PROVE  failures' \in [Callers -> [0..MaxWindow -> 0..MaxFailures]]
<1>1. CASE success
  BY <1>1 DEF AddAuditLog, RestTyped
<1>2. CASE ~ success
  <2> DEFINE n == Min({failures[c][0] + 1, MaxFailures})
  <2>1. failures[c][0] \in 0..MaxFailures /\ MaxFailures \in Nat /\ 0 \in 0..MaxWindow
    BY RuleBounds, AuditAssumption DEF RestTyped
  <2>2. n \in 0..MaxFailures
    <3>1. n = IF failures[c][0] + 1 <= MaxFailures THEN failures[c][0] + 1 ELSE MaxFailures
      <4>1. failures[c][0] + 1 \in Int /\ MaxFailures \in Int
        BY <2>1
      <4> QED BY <4>1, MaxOfTwo
    <3> HIDE DEF n
    <3> QED BY <2>1, <3>1
  <2>3. failures' = [failures EXCEPT ![c][0] = n]
    BY <1>2 DEF AddAuditLog
  <2> HIDE DEF n
  <2> QED BY <2>2, <2>3 DEF RestTyped
<1> QED BY <1>1, <1>2

(* A request changes its own entry of the calls only. *)
LEMMA CallKeeps ==
  ASSUME RestTyped, NEW k \in Clients, NEW x \in Call, x.pc # "idle" => x.caller \in Callers,
         calls' = [calls EXCEPT ![k] = x]
  PROVE  calls' \in [Clients -> Call]
         /\ \A j \in Clients : calls'[j].pc # "idle" => calls'[j].caller \in Callers
BY DEF RestTyped

(* An idle client is one of the calls.                                       *)
LEMMA Idles == Idle \in Call /\ Idle.pc = "idle"
BY DEF Idle, Call

(* Asking for the breaker may recover it and lets the request in or not.     *)
LEMMA EnterKeeps ==
  ASSUME Agreed, RestTyped, NEW k \in Clients, NEW c \in Callers, NEW triggers \in BOOLEAN,
         Enter(k, c, triggers)
  PROVE  Agreed' /\ RestTyped' /\ TimeServed /\ NotExtended
<1>1. PICK out \in BOOLEAN :
        /\ IsCircuitBreakerOpen(c, out)
        /\ calls' = [calls EXCEPT ![k] = [pc |-> IF out THEN "refused" ELSE "admitted",
                                          caller |-> c, triggers |-> triggers]]
  BY DEF Enter
<1>2. Agreed' /\ TimeServed /\ NotExtended
  BY <1>1, RecoverOver DEF IsCircuitBreakerOpen, Enter
<1>3. [pc |-> IF out THEN "refused" ELSE "admitted", caller |-> c, triggers |-> triggers]
        \in Call
  BY DEF Call
<1>4. RestTyped'
  BY <1>1, <1>3, CallKeeps DEF RestTyped, Enter
<1> QED BY <1>2, <1>4

(* A request under way is refused, carried out, or its failure counted.      *)
LEMMA RequestKeeps ==
  ASSUME Agreed, RestTyped, NEW k \in Clients,
         \/ Refuse(k)
         \/ \E success \in BOOLEAN : RecordAuditLog(k, success)
         \/ CountFailure(k)
  PROVE  Agreed' /\ RestTyped' /\ TimeServed /\ NotExtended
<1>0. calls[k] \in Call /\ Idle \in Call /\ Idle.pc = "idle"
      /\ (calls[k].pc # "idle" => calls[k].caller \in Callers)
  BY Idles DEF RestTyped
<1>1. CASE Refuse(k)
  <2>1. Agreed' /\ TimeServed /\ NotExtended
    BY <1>1, NothingHappens DEF Refuse
  <2>2. failures' \in [Callers -> [0..MaxWindow -> 0..MaxFailures]]
    BY <1>0, <1>1, LogKeeps DEF Refuse
  <2>3. RestTyped'
    BY <1>0, <1>1, <2>2, CallKeeps DEF Refuse, RestTyped
  <2> QED BY <2>1, <2>3
<1>2. ASSUME NEW success \in BOOLEAN, RecordAuditLog(k, success)
      PROVE  Agreed' /\ RestTyped' /\ TimeServed /\ NotExtended
  <2>1. Agreed' /\ TimeServed /\ NotExtended
    BY <1>2, NothingHappens DEF RecordAuditLog
  <2>2. failures' \in [Callers -> [0..MaxWindow -> 0..MaxFailures]]
    BY <1>0, <1>2, LogKeeps DEF RecordAuditLog
  <2> DEFINE x == IF ~success /\ calls[k].triggers THEN [calls[k] EXCEPT !.pc = "failed"]
                  ELSE Idle
  <2>3. x \in Call /\ (x.pc # "idle" => x.caller \in Callers)
    BY <1>0, <1>2 DEF Call, RecordAuditLog
  <2>4. calls' = [calls EXCEPT ![k] = x]
    BY <1>2 DEF RecordAuditLog
  <2> HIDE DEF x
  <2>5. RestTyped'
    BY <1>2, <2>2, <2>3, <2>4, CallKeeps DEF RecordAuditLog, RestTyped
  <2> QED BY <2>1, <2>5
<1>3. CASE CountFailure(k)
  <2>1. /\ calls[k].caller \in Callers /\ CheckAndTriggerCircuitBreaker(calls[k].caller)
        /\ torn' = torn
    BY <1>0, <1>3 DEF CountFailure
  <2>2. /\ Agreed'
        /\ \A d \in Callers : IsOpen(statusRows, d) =>
             IsOpen(statuses', d) /\ statusRows'[d] = statusRows[d]
    BY <2>1, CountKeeps
  <2>3. TimeServed /\ NotExtended
    BY <2>2, QuietTime
  <2>4. RestTyped'
    BY <1>0, <1>3, CallKeeps DEF CountFailure, RestTyped
  <2> QED BY <2>2, <2>3, <2>4
<1> QED BY <1>1, <1>2, <1>3

(* A stop or a crash, also one between the two rows of a breaker, and a start. *)
LEMMA StartStepKeeps ==
  ASSUME Agreed, RestTyped,
         \/ StopAndStart
         \/ Crash
         \/ \E k \in Clients : CrashInTrigger(k)
         \/ \E c \in Callers : CrashInRecovery(c)
  PROVE  Agreed' /\ RestTyped' /\ TimeServed /\ NotExtended
<1>0. /\ crashes \in Nat /\ bound \in Nat /\ crashes \in 0..bound
      /\ openRows \in [Callers -> Nat] /\ torn \in [Callers -> Nat]
      /\ \A c \in Callers : Fits(openRows[c], IsOpen(statusRows, c), torn[c])
  BY AuditAssumption, HistoryFits DEF RestTyped, Agreed
<1>1. ASSUME NEW rows \in [Callers -> Nat], torn' \in [Callers -> Nat],
             \A c \in Callers : Fits(rows[c], IsOpen(statusRows, c), torn'[c]),
             crashes' \in 0..bound, StartWith(rows)
      PROVE  Agreed' /\ RestTyped' /\ TimeServed /\ NotExtended
  <2>1. /\ Agreed'
        /\ \A c \in Callers : IsOpen(statusRows, c) =>
             /\ IsOpen(statuses', c) \/ Expired(statusRows[c])
             /\ IsOpen(statusRows', c) => statusRows'[c] = statusRows[c]
    BY <1>1, StartKeeps
  <2>2. TimeServed
    BY <2>1 DEF TimeServed
  <2>3. \A c \in Callers : IsOpen(statusRows, c) => statusRows[c].left \in Int
    BY DEF Agreed, StatusesTyped, IsOpen, Status
  <2>4. NotExtended
    BY <2>1, <2>3 DEF NotExtended
  <2>5. RestTyped'
    BY <1>1, Idles DEF RestTyped, StartWith
  <2> QED BY <2>1, <2>2, <2>4, <2>5
<1>2. CASE StopAndStart
  BY <1>0, <1>1, <1>2 DEF StopAndStart, Restart
<1>3. CASE Crash
  BY <1>0, <1>1, <1>3 DEF Crash, Restart
<1>4. ASSUME NEW c \in Callers, NEW rows \in [Callers -> Nat], CrashBetween(c, rows),
             \A d \in Callers \ {c} : rows[d] = openRows[d],
             Fits(rows[c], IsOpen(statusRows, c), torn[c] + 1)
      PROVE  Agreed' /\ RestTyped' /\ TimeServed /\ NotExtended
  <2>1. torn' = [torn EXCEPT ![c] = @ + 1] /\ crashes' \in 0..bound /\ StartWith(rows)
    BY <1>0, <1>4 DEF CrashBetween
  <2>2. torn' \in [Callers -> Nat]
    BY <1>0, <2>1
  <2>3. \A d \in Callers : Fits(rows[d], IsOpen(statusRows, d), torn'[d])
    BY <1>0, <1>4, <2>1
  <2> QED BY <1>1, <2>1, <2>2, <2>3
<1>5. ASSUME NEW k \in Clients, CrashInTrigger(k)
      PROVE  Agreed' /\ RestTyped' /\ TimeServed /\ NotExtended
  <2> DEFINE c == calls[k].caller
             rows == [openRows EXCEPT ![c] = @ + 1]
  <2>1. c \in Callers /\ CrashBetween(c, rows)
    BY <1>5 DEF CrashInTrigger, RestTyped
  <2> HIDE DEF c
  <2>2. /\ rows \in [Callers -> Nat] /\ rows[c] = openRows[c] + 1
        /\ \A d \in Callers \ {c} : rows[d] = openRows[d]
    BY <1>0, <2>1
  <2>3. Fits(rows[c], IsOpen(statusRows, c), torn[c] + 1)
    <3>1. openRows[c] \in Nat /\ torn[c] \in Nat
          /\ Fits(openRows[c], IsOpen(statusRows, c), torn[c])
      BY <1>0, <2>1
    <3> HIDE DEF rows
    <3>2. CASE IsOpen(statusRows, c)
      BY <2>2, <3>1, <3>2 DEF Fits
    <3>3. CASE ~ IsOpen(statusRows, c)
      BY <2>2, <3>1, <3>3 DEF Fits
    <3> QED BY <3>2, <3>3
  <2> HIDE DEF rows
  <2> QED BY <1>4, <2>1, <2>2, <2>3
<1>6. ASSUME NEW c \in Callers, CrashInRecovery(c)
      PROVE  Agreed' /\ RestTyped' /\ TimeServed /\ NotExtended
  <2> DEFINE rows == WithoutLatest(openRows, {c})
  <2>1. CrashBetween(c, rows)
    BY <1>6 DEF CrashInRecovery
  <2>2. /\ rows \in [Callers -> Nat]
        /\ \A d \in Callers : rows[d] = IF d \in {c} /\ openRows[d] >= 1
                                        THEN openRows[d] - 1 ELSE openRows[d]
    BY <1>0, OneRowLess
  <2> HIDE DEF rows
  <2>3. Fits(rows[c], IsOpen(statusRows, c), torn[c] + 1)
    <3>1. openRows[c] \in Nat /\ torn[c] \in Nat
          /\ Fits(openRows[c], IsOpen(statusRows, c), torn[c])
      BY <1>0
    <3>2. CASE IsOpen(statusRows, c)
      BY <2>2, <3>1, <3>2 DEF Fits
    <3>3. CASE ~ IsOpen(statusRows, c)
      BY <2>2, <3>1, <3>3 DEF Fits
    <3> QED BY <3>2, <3>3
  <2> QED BY <1>4, <2>1, <2>2, <2>3
<1> QED BY <1>2, <1>3, <1>5, <1>6

(* A second passes for failures and breakers.                                *)
LEMMA TimePassesKeeps ==
  ASSUME Agreed, RestTyped, TimePasses
  PROVE  Agreed' /\ RestTyped' /\ TimeServed /\ NotExtended
<1>1. /\ Agreed'
      /\ \A c \in Callers : IsOpen(statusRows, c) =>
           IsOpen(statuses', c) /\ statusRows'[c].left <= statusRows[c].left
  BY LaterKeeps DEF TimePasses
<1>2. failures' \in [Callers -> [0..MaxWindow -> 0..MaxFailures]]
  <2>1. \A c \in Callers, age \in 0..MaxWindow :
          (IF age = 0 THEN 0 ELSE failures[c][age - 1]) \in 0..MaxFailures
    BY RuleBounds, AuditAssumption DEF RestTyped
  <2> QED BY <2>1 DEF TimePasses
<1>3. RestTyped'
  BY <1>2 DEF TimePasses, RestTyped
<1> QED BY <1>1, <1>3 DEF TimeServed, NotExtended

(* One step of the whole. *)
LEMMA BreakerStep ==
  ASSUME Agreed, RestTyped, [Next]_vars
  PROVE  Agreed' /\ RestTyped' /\ (UNCHANGED vars \/ (TimeServed /\ NotExtended))
<1>1. ASSUME NEW k \in Clients, NEW c \in Callers,
             \/ AcquireLock(k, c) \/ RenewLock(k, c) \/ AcquireLocksBatch(k, c)
             \/ RequestTokens(k, c) \/ BorrowQuota(k, c) \/ AdjustQuota(k, c)
      PROVE  Agreed' /\ RestTyped' /\ TimeServed /\ NotExtended
  BY <1>1, EnterKeeps DEF AcquireLock, RenewLock, AcquireLocksBatch, RequestTokens,
     BorrowQuota, AdjustQuota
<1>2. ASSUME NEW c \in Callers, NEW success \in BOOLEAN, LogOnly(c, success)
      PROVE  Agreed' /\ RestTyped' /\ TimeServed /\ NotExtended
  <2>1. Agreed' /\ TimeServed /\ NotExtended
    BY <1>2, NothingHappens DEF LogOnly
  <2>2. failures' \in [Callers -> [0..MaxWindow -> 0..MaxFailures]]
    BY <1>2, LogKeeps DEF LogOnly
  <2>3. RestTyped'
    BY <1>2, <2>2 DEF LogOnly, RestTyped
  <2> QED BY <2>1, <2>3
<1>3. ASSUME NEW c \in Callers \cup {Default}, NEW r \in RuleSet, SetCircuitBreakerRule(c, r)
      PROVE  Agreed' /\ RestTyped' /\ TimeServed /\ NotExtended
  <2>1. Agreed' /\ TimeServed /\ NotExtended
    BY <1>3, NothingHappens DEF SetCircuitBreakerRule
  <2>2. RestTyped'
    BY <1>3 DEF SetCircuitBreakerRule, RestTyped, Put
  <2> QED BY <2>1, <2>2
<1>4. ASSUME NEW c \in DOMAIN rules, DeleteCircuitBreakerRule(c)
      PROVE  Agreed' /\ RestTyped' /\ TimeServed /\ NotExtended
  <2>1. Agreed' /\ TimeServed /\ NotExtended
    BY <1>4, NothingHappens DEF DeleteCircuitBreakerRule
  <2>2. RestTyped'
    BY <1>4 DEF DeleteCircuitBreakerRule, RestTyped, Restrict
  <2> QED BY <2>1, <2>2
<1>5. ASSUME NEW c \in Callers, ManuallyCloseCircuitBreaker(c)
      PROVE  Agreed' /\ RestTyped' /\ TimeServed /\ NotExtended
  <2>1. /\ Agreed'
        /\ \A d \in Callers : IsOpen(statusRows', d) => statusRows'[d] = statusRows[d]
        /\ \A d \in Callers \ {c} : IsOpen(statusRows, d) => IsOpen(statuses', d)
    BY <1>5, RecoverKeeps DEF ManuallyCloseCircuitBreaker
  <2>2. \A d \in {c} : Expired(statusRows[d]) \/ ClosedByHand(d)
    BY <1>5 DEF ClosedByHand
  <2>3. TimeServed /\ NotExtended
    <3>1. \A d \in Callers : IsOpen(statusRows', d) /\ IsOpen(statusRows, d) =>
            statusRows'[d] = statusRows[d]
      BY <2>1
    <3> DEFINE cs == {c}
    <3>2. /\ \A d \in Callers \ cs : IsOpen(statusRows, d) => IsOpen(statuses', d)
          /\ \A d \in cs : Expired(statusRows[d]) \/ ClosedByHand(d)
      BY <2>1, <2>2
    <3> HIDE DEF cs
    <3> QED BY <3>1, <3>2, SameTime
  <2>4. RestTyped'
    BY <1>5 DEF ManuallyCloseCircuitBreaker, RestTyped
  <2> QED BY <2>1, <2>3, <2>4
<1>6. ASSUME NEW cs \in SUBSET Over(statuses), RecoverCircuitBreaker(cs), beat' \in BOOLEAN,
             UNCHANGED <<bound, rules, failures, calls, crashes, torn>>
      PROVE  Agreed' /\ RestTyped' /\ TimeServed /\ NotExtended
  BY <1>6, RecoverOver DEF RestTyped
<1>7. CASE \/ \E c \in Callers : GetCircuitBreakerStatus(c)
           \/ ListOpenCircuitBreakers \/ CheckCooldownExpiry
  BY <1>6, <1>7 DEF GetCircuitBreakerStatus, ListOpenCircuitBreakers, CheckCooldownExpiry,
     RestTyped
<1>8. CASE UNCHANGED vars
  <2>1. Agreed'
    BY <1>8 DEF vars, Agreed, HistoryAgrees, TableAgrees
  <2>2. RestTyped'
    BY <1>8 DEF vars, RestTyped
  <2> QED BY <1>8, <2>1, <2>2
<1>9. CASE PostLock \/ PutLease \/ PostLocks \/ PostTokens \/ PostBorrow \/ PutQuota
  BY <1>1, <1>9 DEF PostLock, PutLease, PostLocks, PostTokens, PostBorrow, PutQuota
<1>10. CASE DeleteLock \/ PostReturn
  BY <1>2, <1>10 DEF DeleteLock, PostReturn, ReleaseLock, ReturnQuota
<1>11. CASE PostRule \/ DeleteRule \/ PostReset
  BY <1>3, <1>4, <1>5, <1>11 DEF PostRule, DeleteRule, PostReset
<1>12. CASE GetBreaker \/ GetOpenBreakers \/ CheckCooldownExpiry
  BY <1>7, <1>12 DEF GetBreaker, GetOpenBreakers
<1>13. ASSUME NEW k \in Clients,
              \/ Refuse(k)
              \/ \E success \in BOOLEAN : RecordAuditLog(k, success)
              \/ CountFailure(k)
       PROVE  Agreed' /\ RestTyped' /\ TimeServed /\ NotExtended
  BY <1>13, RequestKeeps
<1>14. CASE \/ StopAndStart \/ Crash \/ \E k \in Clients : CrashInTrigger(k)
            \/ \E c \in Callers : CrashInRecovery(c)
  BY <1>14, StartStepKeeps
<1>15. CASE TimePasses
  BY <1>15, TimePassesKeeps
<1> QED
  BY <1>8, <1>9, <1>10, <1>11, <1>12, <1>13, <1>14, <1>15 DEF Next

(* Empty tables and no request.                                              *)
LEMMA BreakerInit == Init => Agreed /\ RestTyped
<1> SUFFICES ASSUME Init PROVE Agreed /\ RestTyped
  OBVIOUS
<1>1. /\ DOMAIN statuses = {} /\ DOMAIN statusRows = {} /\ DOMAIN rules = {}
      /\ openRows = [c \in Callers |-> 0] /\ crashes = 0 /\ torn = [c \in Callers |-> 0]
      /\ failures = [c \in Callers |-> [age \in 0..MaxWindow |-> 0]]
      /\ calls = [k \in Clients |-> Idle] /\ bound \in CrashBounds /\ beat = FALSE
  BY DEF Init, EmptyTables
<1>2. Agreed
  BY <1>1 DEF Agreed, StatusesTyped, HistoryAgrees, TableAgrees, IsOpen
<1>3. RestTyped
  <2>1. bound \in Nat /\ 0 \in 0..bound /\ 0 \in 0..MaxFailures
    BY <1>1, AuditAssumption
  <2>2. [age \in 0..MaxWindow |-> 0] \in [0..MaxWindow -> 0..MaxFailures]
    BY <2>1
  <2>3. failures \in [Callers -> [0..MaxWindow -> 0..MaxFailures]]
    BY <1>1, <2>2
  <2> QED BY <1>1, <2>1, <2>3, Idles DEF RestTyped
<1> QED BY <1>2, <1>3

(* The inductive invariant: what the run checks, and that a request under    *)
(* way is somebody's.                                                        *)
THEOREM BreakerInvariant == Spec => [](Agreed /\ RestTyped)
<1>1. Agreed /\ RestTyped /\ [Next]_vars => (Agreed /\ RestTyped)'
  BY BreakerStep
<1> QED BY <1>1, BreakerInit, PTL DEF Spec

(* Memory and table agree about every breaker, whatever requests, ticks,     *)
(* resets and starts raced to open and close it, and the history with them   *)
(* but for one row for each crash between the two writes of that breaker.    *)
THEOREM BreakersSound == Spec => []BreakersAreSound
BY BreakerInvariant, SoundParts, PTL

(* Neither a start, nor a request, nor a rule that is replaced or deleted    *)
(* makes an open breaker close before its time.                              *)
THEOREM CooldownServed == Spec => CooldownIsServed
<1>1. Agreed /\ RestTyped /\ [Next]_vars =>
        [\A c \in Callers : IsOpen(statusRows, c) /\ ~IsOpen(statuses', c) =>
           Expired(statusRows[c]) \/ ClosedByHand(c)]_vars
  BY BreakerStep DEF TimeServed
<1> QED BY <1>1, BreakerInvariant, PTL DEF Spec, CooldownIsServed

(* Requests that were admitted before a breaker opened and fail after it,    *)
(* and requests it refuses, do not make it stay open longer.                 *)
THEOREM CooldownNotExtended == Spec => CooldownIsNotExtended
<1>1. Agreed /\ RestTyped /\ [Next]_vars =>
        [\A c \in Callers : IsOpen(statusRows, c) /\ IsOpen(statusRows', c) =>
           statusRows'[c].left <= statusRows[c].left]_vars
  BY BreakerStep DEF NotExtended
<1> QED BY <1>1, BreakerInvariant, PTL DEF Spec, CooldownIsNotExtended

-----------------------------------------------------------------------------
(****************************** shadow plans *******************************)

(* Removing one element of a sequence leaves the elements before it where    *)
(* they are.                                                                 *)
LEMMA RemoveAtKeeps ==
  ASSUME NEW S, NEW s \in Seq(S), NEW i \in DOMAIN s
  PROVE  /\ RemoveAt(s, i) \in Seq(S)
         /\ Len(RemoveAt(s, i)) = Len(s) - 1
         /\ \A j \in 1..(i - 1) : RemoveAt(s, i)[j] = s[j]
<1> DEFINE a == SubSeq(s, 1, i - 1)
           b == SubSeq(s, i + 1, Len(s))
<1>1. Len(s) \in Nat /\ i \in 1..Len(s) /\ \A j \in 1..Len(s) : s[j] \in S
  BY LenProperties, ElementOfSeq
<1>2. a \in Seq(S) /\ Len(a) = i - 1 /\ \A j \in 1..(i - 1) : a[j] = s[j]
  <2>1. \A j \in 1..(i - 1) : s[j] \in S
    BY <1>1
  <2>2. /\ a \in Seq(S)
        /\ Len(a) = IF 1 <= i - 1 THEN i - 1 - 1 + 1 ELSE 0
        /\ \A j \in 1 .. i - 1 - 1 + 1 : a[j] = s[1 + j - 1]
    BY <1>1, <2>1, SubSeqProperties
  <2> HIDE DEF a
  <2> QED BY <1>1, <2>2
<1>3. b \in Seq(S) /\ Len(b) = Len(s) - i
  <2>1. \A j \in (i + 1)..Len(s) : s[j] \in S
    BY <1>1
  <2>2. /\ b \in Seq(S)
        /\ Len(b) = IF i + 1 <= Len(s) THEN Len(s) - (i + 1) + 1 ELSE 0
    BY <1>1, <2>1, SubSeqProperties
  <2> HIDE DEF b
  <2> QED BY <1>1, <2>2
<1>4. RemoveAt(s, i) = a \o b
  BY DEF RemoveAt
<1> HIDE DEF a, b
<1>5. /\ a \o b \in Seq(S) /\ Len(a \o b) = Len(a) + Len(b)
      /\ \A j \in 1 .. Len(a) + Len(b) : (a \o b)[j] = IF j <= Len(a) THEN a[j] ELSE b[j - Len(a)]
  BY <1>2, <1>3, ConcatProperties
<1> QED BY <1>1, <1>2, <1>3, <1>4, <1>5

-----------------------------------------------------------------------------
(* A row of whatever kind, or none.                                          *)
AnyRow == {Deleted} \cup UNION {Rows(t) : t \in Targets}

PlansTyped ==
  /\ planBound \in PlanBounds /\ refusing \in BOOLEAN
  /\ plans \in [Plans -> [status : Statuses, left : Nat \cup {-1}]]
  /\ planMemory \in [Plans -> Statuses]
  /\ overrides \in [Plans -> Seq(planBound.menu)]
  /\ replays \in [Plans -> [working : Nat, done : Nat]]

ConfigTyped ==
  /\ applier \in PlanClients \cup {Nobody} /\ touched \subseteq Targets
  /\ DOMAIN config = Targets
  /\ \A t \in Targets : config[t] \in Rows(t) \cup {Deleted}
  /\ DOMAIN before = Targets

(* The requests that have applyMu. *)
Applying(call) == call.pc \in {"applying", "writing", "undoing", "applied"}

Calls == [pc : {"idle", "created", "adding", "starting", "started", "cancelling", "cancelled",
                "queued", "applying", "writing", "undoing", "applied"},
          plan : Plans \cup {Nobody}, list : Seq(planBound.menu), saved : Seq(AnyRow),
          row : AnyRow]

CallsTyped ==
  /\ planCalls \in [PlanClients -> Calls]
  /\ \A c \in PlanClients :
       /\ planCalls[c].pc # "idle" => planCalls[c].plan \in Plans
       /\ ~ Applying(planCalls[c]) => planCalls[c].saved = <<>>

ApplierAlone == \A c \in PlanClients : Applying(planCalls[c]) <=> c = applier

(* What a request that applies a plan has saved: each row as the overrides   *)
(* before had made it, so that undoing the last gives what the others made.  *)
(* The row it is about to write is the one that is there.  All of that holds *)
(* of the rows nobody else wrote.                                            *)
SavedRows(list, saved) ==
  \A i \in 1..Len(saved) :
    /\ list[i].target \in Targets /\ list[i].value \in Values
    /\ saved[i] \in Rows(list[i].target)
    /\ list[i].target \notin touched => Became(saved[i], list, i - 1, list[i].target)
    /\ list[i].target = "quota" /\ refusing => "quota" \in touched

Writing(list, n, row) ==
  /\ n < Len(list)
  /\ list[n + 1].target \in Targets /\ list[n + 1].value \in Values
  /\ row \in Rows(list[n + 1].target)
  /\ list[n + 1].target \notin touched => row = config[list[n + 1].target]

Stand(list, n) == \A t \in Targets \ touched : Became(config[t], list, n, t)

Work(call) ==
  /\ Len(call.saved) <= Len(call.list)
  /\ SavedRows(call.list, call.saved)
  /\ Stand(call.list, Len(call.saved))
  /\ call.pc = "writing" => Writing(call.list, Len(call.saved), call.row)

PlanInv ==
  /\ PlansTyped /\ ConfigTyped /\ CallsTyped /\ ApplierAlone
  /\ \A c \in PlanClients : c = applier => Work(planCalls[c])

(* The inductive invariant is more than the one that is checked.             *)
LEMMA PlanInvIsEnough == PlanInv => PlansAreSound
<1> SUFFICES ASSUME PlanInv PROVE PlansAreSound
  OBVIOUS
<1>1. PlanTypes
  BY DEF PlanInv, PlansTyped, ConfigTyped, PlanTypes
<1>2. AppliesAreWhole
  BY DEF PlanInv, Work, Stand, AppliesAreWhole
<1> QED BY <1>1, <1>2 DEF PlansAreSound

(* How the overrides that stand grow and shrink by one.                      *)
LEMMA OneMore ==
  ASSUME NEW list, NEW n \in Nat, NEW t \in Targets, NEW row, Became(row, list, n, t),
         list[n + 1].target # t
  PROVE  Became(row, list, n + 1, t)
<1>1. \A f : Setting(list, n + 1, t, f) = Setting(list, n, t, f)
  <2>1. 1..(n + 1) = 1..n \cup {n + 1}
    OBVIOUS
  <2> QED BY <2>1 DEF Setting
<1> QED BY <1>1 DEF Became

(* The next override stands when its field is written into the row.          *)
LEMMA OneWritten ==
  ASSUME NEW list, NEW n \in Nat, NEW t \in Targets, NEW row \in Rows(t),
         Became(row, list, n, t), list[n + 1].target = t
  PROVE  Became(Applied(row, list[n + 1]), list, n + 1, t)
<1> DEFINE o == list[n + 1]
           after == Applied(row, o)
<1>1. /\ DOMAIN after = DOMAIN row
      /\ \A f \in DOMAIN row : after[f] = IF f = o.field THEN o.value ELSE row[f]
  BY DEF Applied, Rows
<1>2. ASSUME NEW f \in DOMAIN row
      PROVE  LET is == Setting(list, n + 1, t, f)
             IN \/ is = {} /\ after[f] = before[t][f]
                \/ \E i \in is : (\A j \in is : j <= i) /\ after[f] = list[i].value
  <2>1. 1..(n + 1) = 1..n \cup {n + 1}
    OBVIOUS
  <2>2. CASE f = o.field
    <3>1. n + 1 \in Setting(list, n + 1, t, f) /\ after[f] = list[n + 1].value
      BY <1>1, <2>2 DEF Setting
    <3>2. \A j \in Setting(list, n + 1, t, f) : j <= n + 1
      BY DEF Setting
    <3> QED BY <3>1, <3>2
  <2>3. CASE f # o.field
    <3>1. Setting(list, n + 1, t, f) = Setting(list, n, t, f)
      BY <2>1, <2>3 DEF Setting
    <3>2. after[f] = row[f]
      BY <1>1, <2>3
    <3> QED BY <3>1, <3>2 DEF Became
  <2> QED BY <2>2, <2>3
<1> HIDE DEF after
<1>3. Became(after, list, n + 1, t)
  BY <1>1, <1>2 DEF Became
<1> QED BY <1>3 DEF after

(* The last override does not matter to other rows.                          *)
LEMMA OneLess ==
  ASSUME NEW list, NEW n \in Nat, NEW t \in Targets, NEW row, Became(row, list, n + 1, t),
         list[n + 1].target # t
  PROVE  Became(row, list, n, t)
<1>1. \A f : Setting(list, n + 1, t, f) = Setting(list, n, t, f)
  <2>1. 1..(n + 1) = 1..n \cup {n + 1}
    OBVIOUS
  <2> QED BY <2>1 DEF Setting
<1> QED BY <1>1 DEF Became

(* Only the first n of a list matter. *)
LEMMA SamePrefix ==
  ASSUME NEW list, NEW other, NEW n, NEW t, NEW row, Became(row, list, n, t),
         \A i \in 1..n : other[i] = list[i]
  PROVE  Became(row, other, n, t)
<1>1. \A f : Setting(other, n, t, f) = Setting(list, n, t, f)
  BY DEF Setting
<1>2. \A f : \A i \in Setting(list, n, t, f) : other[i] = list[i]
  BY DEF Setting
<1> QED BY <1>1, <1>2 DEF Became

-----------------------------------------------------------------------------
(* The row of a request is replaced by another of its kind.                  *)
LEMMA CallReplaced ==
  ASSUME CallsTyped, NEW c \in PlanClients, NEW x \in Calls,
         x.pc # "idle" => x.plan \in Plans, ~ Applying(x) => x.saved = <<>>,
         planCalls' = [planCalls EXCEPT ![c] = x], planBound' = planBound
  PROVE  CallsTyped' /\ planCalls'[c] = x /\ \A d \in PlanClients \ {c} : planCalls'[d] = planCalls[d]
<1>1. Calls' = Calls
  BY DEF Calls
<1>2. planCalls' \in [PlanClients -> Calls]
  BY DEF CallsTyped
<1>3. planCalls'[c] = x /\ \A d \in PlanClients \ {c} : planCalls'[d] = planCalls[d]
  BY DEF CallsTyped
<1>4. \A d \in PlanClients :
        /\ planCalls'[d].pc # "idle" => planCalls'[d].plan \in Plans
        /\ ~ Applying(planCalls'[d]) => planCalls'[d].saved = <<>>
  BY <1>3 DEF CallsTyped
<1> QED BY <1>1, <1>2, <1>3, <1>4 DEF CallsTyped

(* The configuration and who applies stay, and so does what was saved.       *)
LEMMA WorkStays ==
  ASSUME PlanInv, UNCHANGED <<config, refusing, before, touched>>,
         NEW c \in PlanClients, c = applier, planCalls'[c] = planCalls[c]
  PROVE  Work(planCalls[c])'
<1>0. Work(planCalls[c]) /\ planCalls[c]' = planCalls[c]
  BY DEF PlanInv
<1>1. SavedRows(planCalls[c].list, planCalls[c].saved)'
  <2> DEFINE list == planCalls[c].list
             saved == planCalls[c].saved
  <2>1. list' = list /\ saved' = saved
    BY <1>0
  <2>2. SavedRows(list, saved)
    BY <1>0 DEF Work
  <2>3. (\A i \in 1..Len(saved) :
           list[i].target \notin touched => Became(saved[i], list, i - 1, list[i].target))'
    <3> HIDE DEF list, saved
    <3> QED BY <2>1, <2>2 DEF SavedRows, Became
  <2>4. (\A i \in 1..Len(saved) :
           /\ list[i].target \in Targets /\ list[i].value \in Values
           /\ saved[i] \in Rows(list[i].target)
           /\ list[i].target = "quota" /\ refusing => "quota" \in touched)'
    <3> HIDE DEF list, saved
    <3> QED BY <2>1, <2>2 DEF SavedRows
  <2> QED BY <2>3, <2>4 DEF SavedRows
<1>2. Stand(planCalls[c].list, Len(planCalls[c].saved))'
  BY <1>0 DEF Work, Stand, Became
<1>3. (planCalls[c].pc = "writing" =>
         Writing(planCalls[c].list, Len(planCalls[c].saved), planCalls[c].row))'
  BY <1>0 DEF Work, Writing
<1> QED BY <1>0, <1>1, <1>2, <1>3 DEF Work

(* A request that applies nothing goes on, or comes, or leaves.              *)
LEMMA OutsideStep ==
  ASSUME PlanInv, PlansTyped', NEW c \in PlanClients, NEW x \in Calls,
         ~ Applying(planCalls[c]), ~ Applying(x), x.saved = <<>>,
         x.pc # "idle" => x.plan \in Plans,
         planCalls' = [planCalls EXCEPT ![c] = x], KeepConfig
  PROVE  PlanInv'
<1>1. /\ CallsTyped' /\ planCalls'[c] = x
      /\ \A d \in PlanClients \ {c} : planCalls'[d] = planCalls[d]
  BY CallReplaced DEF PlanInv, KeepConfig
<1>2. ConfigTyped'
  BY DEF PlanInv, ConfigTyped, KeepConfig
<1>3. ApplierAlone' /\ c # applier
  BY <1>1 DEF PlanInv, ApplierAlone, KeepConfig
<1>4. ASSUME NEW d \in PlanClients, d = applier' PROVE Work(planCalls[d])'
  <2>1. d # c /\ d = applier /\ UNCHANGED <<config, refusing, before, touched>>
    BY <1>3, <1>4 DEF KeepConfig
  <2> QED BY <1>1, <2>1, WorkStays
<1> QED BY <1>1, <1>2, <1>3, <1>4 DEF PlanInv

(* Requests, the table and the map move, or nothing does, and no request     *)
(* goes on.                                                                  *)
LEMMA TableStep ==
  ASSUME PlanInv, PlansTyped', planCalls' = planCalls, KeepConfig
  PROVE  PlanInv'
<1>1. CallsTyped'
  <2>1. Calls' = Calls
    BY DEF Calls, KeepConfig
  <2> QED BY <2>1 DEF PlanInv, CallsTyped, KeepConfig
<1>2. ConfigTyped' /\ ApplierAlone'
  BY DEF PlanInv, ConfigTyped, ApplierAlone, KeepConfig
<1>3. ASSUME NEW d \in PlanClients, d = applier' PROVE Work(planCalls[d])'
  <2>1. d = applier /\ UNCHANGED <<config, refusing, before, touched>>
    BY <1>3 DEF KeepConfig
  <2> QED BY <2>1, WorkStays
<1> QED BY <1>1, <1>2, <1>3 DEF PlanInv

(* No request is one of the requests.                                        *)
LEMMA NoCalls ==
  NoCall \in Calls /\ ~ Applying(NoCall) /\ NoCall.saved = <<>> /\ NoCall.pc = "idle"
<1>1. <<>> \in Seq(AnyRow) /\ <<>> \in Seq(planBound.menu)
  BY EmptySeq
<1>2. Deleted \in AnyRow
  BY DEF AnyRow
<1> QED BY <1>1, <1>2 DEF NoCall, Calls, Applying

(* A request for a plan is one of the requests.                              *)
LEMMA Requests ==
  ASSUME NEW pc \in {"created", "adding", "starting", "cancelling", "queued"}, NEW p \in Plans,
         NEW list \in Seq(planBound.menu)
  PROVE  /\ Request(pc, p, list) \in Calls /\ ~ Applying(Request(pc, p, list))
         /\ Request(pc, p, list).saved = <<>> /\ Request(pc, p, list).plan \in Plans
<1>1. /\ Request(pc, p, list).pc = pc /\ Request(pc, p, list).plan = p
      /\ Request(pc, p, list).list = list
      /\ Request(pc, p, list).saved = NoCall.saved
      /\ Request(pc, p, list) \in Calls
  BY NoCalls DEF Request, Calls
<1> QED BY <1>1, NoCalls DEF Applying

-----------------------------------------------------------------------------
(* The request that applies goes on, and may write a row.                    *)
LEMMA ApplierStep ==
  ASSUME PlanInv, PlansTyped', NEW c \in PlanClients, c = applier,
         NEW x \in Calls, Applying(x), x.plan \in Plans,
         planCalls' = [planCalls EXCEPT ![c] = x],
         UNCHANGED <<planBound, applier, refusing, before, touched>>,
         DOMAIN config' = Targets, \A t \in Targets : config'[t] \in Rows(t) \cup {Deleted},
         Len(x.saved) <= Len(x.list), SavedRows(x.list, x.saved),
         \A t \in Targets \ touched : Became(config'[t], x.list, Len(x.saved), t),
         x.pc = "writing" => Writing(x.list, Len(x.saved), x.row) /\ config' = config
  PROVE  PlanInv'
<1>1. /\ CallsTyped' /\ planCalls'[c] = x
      /\ \A d \in PlanClients \ {c} : planCalls'[d] = planCalls[d]
  BY CallReplaced DEF PlanInv
<1>2. ConfigTyped'
  BY DEF PlanInv, ConfigTyped
<1>3. ApplierAlone'
  BY <1>1 DEF PlanInv, ApplierAlone
<1>4. Work(planCalls[c])'
  <2> DEFINE list == planCalls[c].list
             saved == planCalls[c].saved
  <2>1. list' = x.list /\ saved' = x.saved
    BY <1>1
  <2>2. SavedRows(list, saved)'
    <3>1. (\A i \in 1..Len(saved) :
             list[i].target \notin touched => Became(saved[i], list, i - 1, list[i].target))'
      <4> HIDE DEF list, saved
      <4> QED BY <2>1 DEF SavedRows, Became
    <3>2. (\A i \in 1..Len(saved) :
             /\ list[i].target \in Targets /\ list[i].value \in Values
             /\ saved[i] \in Rows(list[i].target)
             /\ list[i].target = "quota" /\ refusing => "quota" \in touched)'
      <4> HIDE DEF list, saved
      <4> QED BY <2>1 DEF SavedRows
    <3> QED BY <3>1, <3>2 DEF SavedRows
  <2>3. Stand(list, Len(saved))'
    <3> HIDE DEF list, saved
    <3> QED BY <2>1 DEF Stand, Became
  <2>4. (planCalls[c].pc = "writing" => Writing(list, Len(saved), planCalls[c].row))'
    <3> HIDE DEF list, saved
    <3> QED BY <1>1, <2>1 DEF Writing
  <2> QED BY <1>1, <2>1, <2>2, <2>3, <2>4 DEF Work
<1>5. \A d \in PlanClients : d = applier' => Work(planCalls[d])'
  BY <1>4
<1> QED BY <1>1, <1>2, <1>3, <1>5 DEF PlanInv

(* What is known of the request that applies.                                *)
LEMMA ApplierCall ==
  ASSUME PlanInv, NEW c \in PlanClients, Applying(planCalls[c])
  PROVE  /\ c = applier /\ Work(planCalls[c])
         /\ planCalls[c] \in Calls /\ planCalls[c].plan \in Plans
         /\ planCalls[c].list \in Seq(planBound.menu) /\ planCalls[c].saved \in Seq(AnyRow)
         /\ Len(planCalls[c].list) \in Nat /\ Len(planCalls[c].saved) \in Nat
         /\ \A i \in 1..Len(planCalls[c].list) : planCalls[c].list[i] \in Override
<1>1. c = applier /\ Work(planCalls[c]) /\ planCalls[c].pc # "idle"
  BY DEF PlanInv, ApplierAlone, Applying
<1>2. planCalls[c] \in Calls /\ planCalls[c].plan \in Plans
  BY <1>1 DEF PlanInv, CallsTyped
<1>3. planCalls[c].list \in Seq(planBound.menu) /\ planCalls[c].saved \in Seq(AnyRow)
  BY <1>2 DEF Calls
<1>4. planBound.menu \subseteq Override
  BY PlanAssumption DEF PlanInv, PlansTyped
<1>5. \A i \in 1..Len(planCalls[c].list) : planCalls[c].list[i] \in planBound.menu
  BY <1>3, ElementOfSeq
<1> QED BY <1>1, <1>2, <1>3, <1>4, <1>5, LenProperties

(* applyOverrideWithUndo reads the row it will write.                        *)
LEMMA ReadRowKeeps ==
  ASSUME PlanInv, NEW c \in PlanClients, ReadRow(c)
  PROVE  PlanInv'
<1> DEFINE call == planCalls[c]
           n == Len(call.saved)
           o == NextOverride(call)
           x == IF Refused(o) THEN [call EXCEPT !.pc = "undoing"]
                ELSE [call EXCEPT !.pc = "writing", !.row = config[o.target]]
<1>1. /\ call.pc = "applying" /\ n < Len(call.list) /\ o = call.list[n + 1]
      /\ planCalls' = [planCalls EXCEPT ![c] = x]
      /\ UNCHANGED <<planBound, plans, planMemory, overrides, replays, applier, config,
                     refusing, before, touched>>
  BY DEF ReadRow, At, Goto, KeepPlans, NextOverride
<1>2. /\ c = applier /\ Work(call) /\ call \in Calls /\ call.plan \in Plans
      /\ n \in Nat /\ Len(call.list) \in Nat /\ o \in Override
  <2>1. Applying(call)
    BY <1>1 DEF Applying
  <2>2. /\ c = applier /\ Work(call) /\ call \in Calls /\ call.plan \in Plans
        /\ n \in Nat /\ Len(call.list) \in Nat
        /\ \A i \in 1..Len(call.list) : call.list[i] \in Override
    BY <2>1, ApplierCall
  <2>3. n + 1 \in 1..Len(call.list)
    BY <1>1, <2>2
  <2> QED BY <1>1, <2>2, <2>3
<1>3. PlansTyped'
  BY <1>1 DEF PlanInv, PlansTyped
<1>4. ~ Refused(o) => /\ o.target \in Targets /\ o.value \in Values
                      /\ config[o.target] \in Rows(o.target) /\ config[o.target] \in AnyRow
  BY <1>2 DEF Refused, Override, PlanInv, ConfigTyped, AnyRow
<1>5. /\ x \in Calls /\ Applying(x) /\ x.plan = call.plan /\ x.list = call.list
      /\ x.saved = call.saved
      /\ x.pc = "writing" => ~ Refused(o) /\ x.row = config[o.target]
  BY <1>2, <1>4 DEF Calls, Applying
<1>6. x.pc = "writing" => Writing(x.list, Len(x.saved), x.row)
  BY <1>1, <1>4, <1>5 DEF Writing
<1>7. DOMAIN config' = Targets /\ \A t \in Targets : config'[t] \in Rows(t) \cup {Deleted}
  BY <1>1 DEF PlanInv, ConfigTyped
<1>8. /\ Len(x.saved) <= Len(x.list) /\ SavedRows(x.list, x.saved)
      /\ \A t \in Targets \ touched : Became(config'[t], x.list, Len(x.saved), t)
  BY <1>1, <1>2, <1>5 DEF Work, Stand
<1> HIDE DEF call, n, o, x
<1> QED BY <1>1, <1>2, <1>3, <1>5, <1>6, <1>7, <1>8, ApplierStep

(* It writes the row with one field changed, and saves the row it read.      *)
LEMMA WriteRowKeeps ==
  ASSUME PlanInv, NEW c \in PlanClients, WriteRow(c)
  PROVE  PlanInv'
<1> DEFINE call == planCalls[c]
           n == Len(call.saved)
           o == NextOverride(call)
<1>1. call.pc = "writing" /\ Applying(call) /\ o = call.list[n + 1]
  BY DEF WriteRow, At, Applying, NextOverride
<1>2. /\ c = applier /\ Work(call) /\ call \in Calls /\ call.plan \in Plans
      /\ call.saved \in Seq(AnyRow) /\ n \in Nat /\ Len(call.list) \in Nat
  BY <1>1, ApplierCall
<1>3. PlansTyped'
  BY DEF PlanInv, PlansTyped, WriteRow, KeepPlans
<1>4. /\ n < Len(call.list) /\ o.target \in Targets /\ o.value \in Values
      /\ call.row \in Rows(o.target)
      /\ o.target \notin touched => call.row = config[o.target]
  BY <1>1, <1>2 DEF Work, Writing
<1>5. UNCHANGED <<planBound, applier, refusing, before, touched>>
  BY DEF WriteRow, KeepPlans
<1>6. CASE o.target = "quota" /\ refusing
  <2> DEFINE x == [call EXCEPT !.pc = "undoing", !.row = Deleted]
  <2>1. planCalls' = [planCalls EXCEPT ![c] = x] /\ config' = config
    BY <1>6 DEF WriteRow, Goto
  <2>2. /\ x \in Calls /\ Applying(x) /\ x.plan = call.plan /\ x.list = call.list
        /\ x.saved = call.saved /\ x.pc # "writing"
    BY <1>2, NoCalls DEF Calls, Applying, AnyRow
  <2>3. DOMAIN config' = Targets /\ \A t \in Targets : config'[t] \in Rows(t) \cup {Deleted}
    BY <2>1 DEF PlanInv, ConfigTyped
  <2>4. /\ Len(x.saved) <= Len(x.list) /\ SavedRows(x.list, x.saved)
        /\ \A t \in Targets \ touched : Became(config'[t], x.list, Len(x.saved), t)
    BY <1>2, <2>1, <2>2 DEF Work, Stand
  <2> HIDE DEF call, n, o, x
  <2> QED BY <1>2, <1>3, <1>5, <2>1, <2>2, <2>3, <2>4, ApplierStep
<1>7. CASE ~ (o.target = "quota" /\ refusing)
  <2> DEFINE after == Applied(call.row, o)
             x == [call EXCEPT !.pc = "applying", !.row = Deleted, !.saved = Append(@, call.row)]
  <2>1. /\ planCalls' = [planCalls EXCEPT ![c] = x]
        /\ config' = [config EXCEPT ![o.target] = after]
    BY <1>7 DEF WriteRow, Goto
  <2>2. /\ Append(call.saved, call.row) \in Seq(AnyRow)
        /\ Len(Append(call.saved, call.row)) = n + 1
        /\ Append(call.saved, call.row)[n + 1] = call.row
        /\ \A i \in 1..n : Append(call.saved, call.row)[i] = call.saved[i]
    <3>1. call.row \in AnyRow
      BY <1>4 DEF AnyRow
    <3> QED BY <1>2, <3>1, AppendProperties
  <2>3. /\ x \in Calls /\ Applying(x) /\ x.plan = call.plan /\ x.list = call.list
        /\ x.saved = Append(call.saved, call.row) /\ x.pc # "writing"
    <3>1. Deleted \in AnyRow
      BY DEF AnyRow
    <3> QED BY <1>2, <2>2, <3>1 DEF Calls, Applying
  <2>4. after \in Rows(o.target)
    BY <1>4 DEF Applied, Rows
  <2>5. /\ DOMAIN config' = Targets
        /\ \A t \in Targets : config'[t] = IF t = o.target THEN after ELSE config[t]
    BY <2>1 DEF PlanInv, ConfigTyped
  <2>6. \A t \in Targets : config'[t] \in Rows(t) \cup {Deleted}
    BY <2>4, <2>5 DEF PlanInv, ConfigTyped
  <2>7. SavedRows(x.list, x.saved)
    <3> SUFFICES ASSUME NEW i \in 1..(n + 1)
                 PROVE  /\ call.list[i].target \in Targets /\ call.list[i].value \in Values
                        /\ x.saved[i] \in Rows(call.list[i].target)
                        /\ call.list[i].target \notin touched =>
                             Became(x.saved[i], call.list, i - 1, call.list[i].target)
                        /\ call.list[i].target = "quota" /\ refusing => "quota" \in touched
      BY <2>2, <2>3 DEF SavedRows
    <3>1. CASE i \in 1..n
      BY <1>2, <2>2, <2>3, <3>1 DEF Work, SavedRows
    <3>2. CASE i = n + 1
      <4>1. o.target \notin touched => Became(config[o.target], call.list, n, o.target)
        BY <1>2, <1>4 DEF Work, Stand
      <4>2. i - 1 = n /\ call.list[i] = o /\ x.saved[i] = call.row
        BY <1>1, <1>2, <2>2, <2>3, <3>2
      <4> HIDE DEF call, n, o, x
      <4> QED BY <1>4, <1>7, <4>1, <4>2
    <3> QED BY <1>2, <3>1, <3>2
  <2>8. ASSUME NEW t \in Targets \ touched
        PROVE  Became(config'[t], call.list, n + 1, t)
    <3>1. Became(config[t], call.list, n, t)
      BY <1>2 DEF Work, Stand
    <3>2. CASE t = o.target
      <4>1. Became(Applied(call.row, call.list[n + 1]), call.list, n + 1, t)
        BY <1>1, <1>2, <1>4, <3>1, <3>2, OneWritten
      <4> QED BY <1>1, <2>5, <3>2, <4>1
    <3>3. CASE t # o.target
      BY <1>1, <1>2, <2>5, <3>1, <3>3, OneMore
    <3> QED BY <3>2, <3>3
  <2>9. /\ Len(x.saved) <= Len(x.list)
        /\ \A t \in Targets \ touched : Became(config'[t], x.list, Len(x.saved), t)
    BY <1>2, <1>4, <2>2, <2>3, <2>8
  <2> HIDE DEF call, n, o, x, after
  <2> QED BY <1>2, <1>3, <1>5, <2>1, <2>3, <2>5, <2>6, <2>7, <2>9, ApplierStep
<1> QED BY <1>6, <1>7

(* The status of a plan is one of the statuses.                              *)
LEMMA StatusWritten ==
  ASSUME PlansTyped, NEW p \in Plans, NEW st \in Statuses, WriteStatus(p, st)
  PROVE  plans' \in [Plans -> [status : Statuses, left : Nat \cup {-1}]]
BY DEF PlansTyped, WriteStatus

(* The plan is marked as applied, or that fails and all is undone.           *)
LEMMA MarkAppliedKeeps ==
  ASSUME PlanInv, NEW c \in PlanClients, NEW ok \in BOOLEAN, MarkApplied(c, ok)
  PROVE  PlanInv'
<1> DEFINE call == planCalls[c]
           x == [call EXCEPT !.pc = IF ok THEN "applied" ELSE "undoing"]
<1>1. /\ call.pc = "applying" /\ Applying(call)
      /\ planCalls' = [planCalls EXCEPT ![c] = x]
      /\ UNCHANGED <<planBound, applier, config, refusing, before, touched>>
  BY DEF MarkApplied, AllApplied, At, Applying, Goto, KeepConfig
<1>2. c = applier /\ Work(call) /\ call \in Calls /\ call.plan \in Plans
  BY <1>1, ApplierCall
<1>3. PlansTyped'
  <2>1. plans' \in [Plans -> [status : Statuses, left : Nat \cup {-1}]]
    <3>1. CASE ok
      BY <1>2, <3>1, StatusWritten DEF PlanInv, MarkApplied, Statuses
    <3>2. CASE ~ ok
      BY <3>2 DEF PlanInv, PlansTyped, MarkApplied
    <3> QED BY <3>1, <3>2
  <2> QED BY <2>1 DEF PlanInv, PlansTyped, MarkApplied, KeepConfig
<1>4. /\ x \in Calls /\ Applying(x) /\ x.plan = call.plan /\ x.list = call.list
      /\ x.saved = call.saved /\ x.pc # "writing"
  BY <1>2 DEF Calls, Applying
<1>5. DOMAIN config' = Targets /\ \A t \in Targets : config'[t] \in Rows(t) \cup {Deleted}
  BY <1>1 DEF PlanInv, ConfigTyped
<1>6. /\ Len(x.saved) <= Len(x.list) /\ SavedRows(x.list, x.saved)
      /\ \A t \in Targets \ touched : Became(config'[t], x.list, Len(x.saved), t)
  BY <1>1, <1>2, <1>4 DEF Work, Stand
<1> HIDE DEF call, x
<1> QED BY <1>1, <1>2, <1>3, <1>4, <1>5, <1>6, ApplierStep

(* The last row that was written becomes what was saved of it.               *)
LEMMA UndoLastKeeps ==
  ASSUME PlanInv, NEW c \in PlanClients, UndoLast(c)
  PROVE  PlanInv'
<1> DEFINE call == planCalls[c]
           n == Len(call.saved)
           o == call.list[n]
           old == call.saved[n]
           list == RemoveAt(call.list, n)
           saved == RemoveAt(call.saved, n)
           x == [call EXCEPT !.saved = saved, !.list = list]
<1>1. /\ call.pc = "undoing" /\ Applying(call) /\ call.saved # <<>>
      /\ planCalls' = [planCalls EXCEPT ![c] = x]
      /\ config' = IF o.target = "quota" /\ refusing THEN config
                   ELSE [config EXCEPT ![o.target] = old]
  BY DEF UndoLast, Undo, At, Applying, Goto
<1>2. /\ c = applier /\ Work(call) /\ call \in Calls /\ call.plan \in Plans
      /\ call.list \in Seq(planBound.menu) /\ call.saved \in Seq(AnyRow)
      /\ Len(call.list) \in Nat /\ n \in Nat /\ n <= Len(call.list)
  BY <1>1, ApplierCall DEF Work
<1>3. PlansTyped' /\ UNCHANGED <<planBound, applier, refusing, before, touched>>
  BY DEF PlanInv, PlansTyped, UndoLast, Undo, KeepPlans
<1>4. n > 0 /\ n \in 1..Len(call.list) /\ n \in 1..Len(call.saved)
  <2>1. n # 0
    BY <1>1, <1>2, EmptySeq
  <2> QED BY <1>2, <2>1
<1>5. /\ list \in Seq(planBound.menu) /\ Len(list) = Len(call.list) - 1
      /\ \A j \in 1..(n - 1) : list[j] = call.list[j]
      /\ saved \in Seq(AnyRow) /\ Len(saved) = n - 1
      /\ \A j \in 1..(n - 1) : saved[j] = call.saved[j]
  <2>1. n \in DOMAIN call.list /\ n \in DOMAIN call.saved
    BY <1>2, <1>4, LenProperties
  <2> QED BY <1>2, <2>1, RemoveAtKeeps
<1>6. /\ x \in Calls /\ Applying(x) /\ x.plan = call.plan /\ x.list = list /\ x.saved = saved
      /\ x.pc # "writing"
  <2> HIDE DEF list, saved
  <2> QED BY <1>1, <1>2, <1>5 DEF Calls, Applying
<1>7. /\ o.target \in Targets /\ old \in Rows(o.target)
      /\ o.target \notin touched => Became(old, call.list, n - 1, o.target)
      /\ o.target = "quota" /\ refusing => "quota" \in touched
  BY <1>2, <1>4 DEF Work, SavedRows
<1>8. /\ DOMAIN config' = Targets
      /\ \A t \in Targets : config'[t] \in Rows(t) \cup {Deleted}
      /\ \A t \in Targets \ touched : config'[t] = IF t = o.target THEN old ELSE config[t]
  <2>1. CASE o.target = "quota" /\ refusing
    BY <1>1, <1>7, <2>1 DEF PlanInv, ConfigTyped
  <2>2. CASE ~ (o.target = "quota" /\ refusing)
    BY <1>1, <1>7, <2>2 DEF PlanInv, ConfigTyped
  <2> QED BY <2>1, <2>2
<1>9. ASSUME NEW t \in Targets \ touched PROVE Became(config'[t], list, n - 1, t)
  <2>1. Became(config[t], call.list, n, t)
    BY <1>2 DEF Work, Stand
  <2>2. Became(config'[t], call.list, n - 1, t)
    <3>1. CASE t = o.target
      BY <1>7, <1>8, <3>1
    <3>2. CASE t # o.target
      <4> DEFINE m == n - 1
      <4>1. m \in Nat /\ n = m + 1
        BY <1>2, <1>4
      <4>2. Became(config[t], call.list, m + 1, t) /\ call.list[m + 1].target # t
        BY <2>1, <3>2, <4>1
      <4> HIDE DEF m
      <4>3. Became(config[t], call.list, m, t)
        BY <4>1, <4>2, OneLess
      <4> QED BY <1>8, <3>2, <4>3 DEF m
    <3> QED BY <3>1, <3>2
  <2> HIDE DEF list
  <2> QED BY <1>5, <2>2, SamePrefix
<1>10. SavedRows(list, saved)
  <2> SUFFICES ASSUME NEW i \in 1..(n - 1)
               PROVE  /\ list[i].target \in Targets /\ list[i].value \in Values
                      /\ saved[i] \in Rows(list[i].target)
                      /\ list[i].target \notin touched =>
                           Became(saved[i], list, i - 1, list[i].target)
                      /\ list[i].target = "quota" /\ refusing => "quota" \in touched
    BY <1>5 DEF SavedRows
  <2>1. i \in 1..n /\ list[i] = call.list[i] /\ saved[i] = call.saved[i]
    BY <1>2, <1>5
  <2>2. /\ call.list[i].target \in Targets /\ call.list[i].value \in Values
        /\ call.saved[i] \in Rows(call.list[i].target)
        /\ call.list[i].target \notin touched =>
             Became(call.saved[i], call.list, i - 1, call.list[i].target)
        /\ call.list[i].target = "quota" /\ refusing => "quota" \in touched
    BY <1>2, <2>1 DEF Work, SavedRows
  <2>3. \A j \in 1..(i - 1) : list[j] = call.list[j]
    BY <1>2, <1>5
  <2> HIDE DEF list, saved, call
  <2> QED BY <2>1, <2>2, <2>3, SamePrefix
<1>11. /\ Len(x.saved) <= Len(x.list) /\ SavedRows(x.list, x.saved)
       /\ \A t \in Targets \ touched : Became(config'[t], x.list, Len(x.saved), t)
  <2> HIDE DEF list, saved, x
  <2> QED BY <1>2, <1>5, <1>6, <1>9, <1>10
<1> HIDE DEF call, n, o, old, list, saved, x
<1> QED BY <1>1, <1>2, <1>3, <1>6, <1>8, <1>11, ApplierStep

(* The mutex is taken: what is there is what was there before.               *)
LEMMA TakeApplyMutexKeeps ==
  ASSUME PlanInv, NEW c \in PlanClients, TakeApplyMutex(c)
  PROVE  PlanInv'
<1> DEFINE call == planCalls[c]
           x == [call EXCEPT !.pc = "applying"]
<1>1. /\ call.pc = "queued" /\ applier = Nobody /\ applier' = c /\ before' = config
      /\ touched' = {} /\ config' = config /\ planBound' = planBound
      /\ planCalls' = [planCalls EXCEPT ![c] = x]
  BY DEF TakeApplyMutex, Begin, At, Goto
<1>2. PlansTyped'
  BY DEF PlanInv, PlansTyped, TakeApplyMutex, Begin
<1>3. call \in Calls /\ call.plan \in Plans /\ call.saved = <<>>
  BY <1>1 DEF PlanInv, CallsTyped, Applying
<1>4. /\ x \in Calls /\ Applying(x) /\ x.plan \in Plans /\ x.list = call.list
      /\ x.saved = <<>> /\ x.pc = "applying"
  BY <1>3 DEF Calls, Applying
<1>5. /\ CallsTyped' /\ planCalls'[c] = x
      /\ \A d \in PlanClients \ {c} : planCalls'[d] = planCalls[d]
  <2> HIDE DEF x
  <2> QED BY <1>1, <1>4, CallReplaced DEF PlanInv
<1>6. ConfigTyped'
  BY <1>1 DEF PlanInv, ConfigTyped
<1>7. ApplierAlone'
  <2>1. \A d \in PlanClients : ~ Applying(planCalls[d])
    BY <1>1, PlanAssumption DEF PlanInv, ApplierAlone
  <2> HIDE DEF x
  <2> QED BY <1>1, <1>4, <1>5, <2>1 DEF ApplierAlone
<1>8. Work(planCalls[c])'
  <2> DEFINE list == planCalls[c].list
             saved == planCalls[c].saved
  <2>1. list' = call.list /\ saved' = <<>> /\ Len(saved') = 0 /\ planCalls'[c].pc = "applying"
    BY <1>4, <1>5, EmptySeq
  <2>2. Len(call.list) \in Nat
    BY <1>3, LenProperties DEF Calls
  <2>3. \A t \in Targets : Became(config[t], list, 0, t)'
    BY <1>1 DEF Became, Setting
  <2> HIDE DEF list, saved, call, x
  <2>4. SavedRows(list, saved)'
    BY <2>1 DEF SavedRows
  <2>5. Stand(list, Len(saved))'
    BY <2>1, <2>3 DEF Stand
  <2>6. (Len(saved) <= Len(list) /\ planCalls[c].pc # "writing")'
    BY <2>1, <2>2
  <2> QED BY <2>4, <2>5, <2>6 DEF Work, list, saved
<1>9. \A d \in PlanClients : d = applier' => Work(planCalls[d])'
  BY <1>1, <1>8
<1> QED BY <1>2, <1>5, <1>6, <1>7, <1>9 DEF PlanInv

(* The mutex is let go of. *)
LEMMA LeaveKeeps ==
  ASSUME PlanInv, NEW c \in PlanClients, Applying(planCalls[c]), Leave(c),
         planMemory' \in [Plans -> Statuses]
  PROVE  PlanInv'
<1>1. /\ applier' = Nobody /\ before' = config /\ touched' = {} /\ config' = config
      /\ planBound' = planBound /\ planCalls' = [planCalls EXCEPT ![c] = NoCall]
  BY DEF Leave, Goto
<1>2. PlansTyped'
  BY DEF PlanInv, PlansTyped, Leave
<1>3. /\ CallsTyped' /\ planCalls'[c] = NoCall
      /\ \A d \in PlanClients \ {c} : planCalls'[d] = planCalls[d]
  BY <1>1, NoCalls, CallReplaced DEF PlanInv
<1>4. ConfigTyped'
  BY <1>1 DEF PlanInv, ConfigTyped
<1>5. ApplierAlone' /\ \A d \in PlanClients : d # applier'
  BY <1>1, <1>3, NoCalls, PlanAssumption DEF PlanInv, ApplierAlone
<1> QED BY <1>2, <1>3, <1>4, <1>5 DEF PlanInv

(* Others write a row: whoever applies knows it as touched. *)
LEMMA OthersKeep ==
  ASSUME PlanInv, NEW t \in Targets,
         UNCHANGED <<planBound, plans, planMemory, overrides, planCalls, applier, replays>>,
         touched' = IF applier = Nobody THEN {} ELSE touched \cup {t},
         DOMAIN config' = Targets, DOMAIN before' = Targets,
         \A u \in Targets : config'[u] \in Rows(u) \cup {Deleted},
         \A u \in Targets \ {t} : config'[u] = config[u],
         applier # Nobody => before' = before,
         refusing' \in BOOLEAN, refusing' # refusing => t = "quota"
  PROVE  PlanInv'
<1>1. PlansTyped'
  BY DEF PlanInv, PlansTyped
<1>2. ConfigTyped' /\ ApplierAlone'
  BY DEF PlanInv, ConfigTyped, ApplierAlone
<1>3. CallsTyped'
  <2>1. Calls' = Calls
    BY DEF Calls
  <2> QED BY <2>1 DEF PlanInv, CallsTyped
<1>4. ASSUME NEW c \in PlanClients, c = applier PROVE Work(planCalls[c])'
  <2>1. /\ touched' = touched \cup {t} /\ before' = before
        /\ Work(planCalls[c]) /\ planCalls[c]' = planCalls[c]
    BY <1>4, PlanAssumption DEF PlanInv
  <2> DEFINE list == planCalls[c].list
             saved == planCalls[c].saved
  <2>2. list' = list /\ saved' = saved
    BY <2>1
  <2>3. (\A i \in 1..Len(saved) :
           list[i].target \notin touched => Became(saved[i], list, i - 1, list[i].target))'
    <3>1. \A i \in 1..Len(saved) :
            list[i].target \notin touched' => Became(saved[i], list, i - 1, list[i].target)
      BY <2>1 DEF Work, SavedRows
    <3> HIDE DEF list, saved
    <3>2. ASSUME NEW i \in 1..Len(saved), list[i].target \notin touched'
          PROVE  Became(saved[i], list, i - 1, list[i].target)'
      <4>1. Became(saved[i], list, i - 1, list[i].target)
        BY <3>1, <3>2
      <4> QED BY <2>1, <2>2, <4>1 DEF Became
    <3> QED BY <2>2, <3>2
  <2>4. (\A i \in 1..Len(saved) :
           /\ list[i].target \in Targets /\ list[i].value \in Values
           /\ saved[i] \in Rows(list[i].target)
           /\ list[i].target = "quota" /\ refusing => "quota" \in touched)'
    <3>1. SavedRows(list, saved)
      BY <2>1 DEF Work
    <3> HIDE DEF list, saved
    <3> QED BY <2>1, <2>2, <3>1 DEF SavedRows
  <2>5. Stand(list, Len(saved))'
    <3>1. Stand(list, Len(saved))
      BY <2>1 DEF Work
    <3> HIDE DEF list, saved
    <3> QED BY <2>1, <2>2, <3>1 DEF Stand, Became
  <2>6. (planCalls[c].pc = "writing" => Writing(list, Len(saved), planCalls[c].row))'
    BY <2>1 DEF Work, Writing
  <2>7. (Len(saved) <= Len(list))'
    BY <2>1 DEF Work
  <2>8. SavedRows(list, saved)'
    BY <2>3, <2>4 DEF SavedRows
  <2> QED BY <2>5, <2>6, <2>7, <2>8 DEF Work
<1> QED BY <1>1, <1>2, <1>3, <1>4 DEF PlanInv

(* The handlers of the other managers, one by one.                           *)
LEMMA ManagersKeep ==
  ASSUME PlanInv, PutRule \/ RemoveRule \/ PutQuotaLimit \/ LockMoves \/ BreakerTurns
  PROVE  PlanInv'
<1>0. /\ "rule" \in Targets /\ "quota" \in Targets /\ "lock" \in Targets
      /\ DOMAIN config = Targets /\ DOMAIN before = Targets
      /\ \A u \in Targets : config[u] \in Rows(u) \cup {Deleted}
  BY DEF Targets, Fields, PlanInv, ConfigTyped
<1>1. ASSUME NEW t \in Targets, NEW row \in Rows(t) \cup {Deleted}, OthersWrite(t, row)
      PROVE  PlanInv'
  <2>1. /\ config' = [config EXCEPT ![t] = row]
        /\ before' = IF applier = Nobody THEN config' ELSE before
        /\ refusing' = refusing
        /\ touched' = IF applier = Nobody THEN {} ELSE touched \cup {t}
        /\ UNCHANGED <<planBound, plans, planMemory, overrides, planCalls, applier, replays>>
    BY <1>1 DEF OthersWrite, Touch
  <2>2. /\ DOMAIN config' = Targets /\ DOMAIN before' = Targets
        /\ \A u \in Targets : config'[u] \in Rows(u) \cup {Deleted}
        /\ \A u \in Targets \ {t} : config'[u] = config[u]
    BY <1>0, <2>1
  <2>3. refusing' \in BOOLEAN
    BY <2>1 DEF PlanInv, PlansTyped
  <2> QED BY <2>1, <2>2, <2>3, OthersKeep
<1>2. CASE PutRule \/ RemoveRule
  BY <1>0, <1>1, <1>2 DEF PutRule, RemoveRule
<1>3. CASE PutQuotaLimit \/ LockMoves
  BY <1>0, <1>1, <1>3 DEF PutQuotaLimit, LockMoves
<1>4. CASE BreakerTurns
  <2>1. /\ config' = config /\ before' = before /\ refusing' = ~ refusing
        /\ touched' = IF applier = Nobody THEN {} ELSE touched \cup {"quota"}
        /\ UNCHANGED <<planBound, plans, planMemory, overrides, planCalls, applier, replays>>
    BY <1>4 DEF BreakerTurns, Touch
  <2>2. refusing' \in BOOLEAN
    BY <2>1
  <2> QED BY <1>0, <2>1, <2>2, OthersKeep
<1> QED BY <1>2, <1>3, <1>4

(* A restart forgets who was applying what.                                  *)
LEMMA RestartPlansKeeps ==
  ASSUME PlanInv, RestartPlans
  PROVE  PlanInv'
<1>1. /\ planMemory' = [p \in Plans |-> plans[p].status]
      /\ replays' = [p \in Plans |-> ResumeReplays(p)]
      /\ planCalls' = [c \in PlanClients |-> NoCall]
      /\ applier' = Nobody /\ before' = config /\ touched' = {}
      /\ UNCHANGED <<planBound, plans, overrides, config, refusing>>
  BY DEF RestartPlans
<1>2. PlansTyped'
  <2>1. planMemory' \in [Plans -> Statuses]
    BY <1>1 DEF PlanInv, PlansTyped
  <2>2. replays' \in [Plans -> [working : Nat, done : Nat]]
    BY <1>1 DEF ResumeReplays
  <2> QED BY <1>1, <2>1, <2>2 DEF PlanInv, PlansTyped
<1>3. CallsTyped'
  <2>1. Calls' = Calls
    BY <1>1 DEF Calls
  <2> QED BY <1>1, <2>1, NoCalls DEF CallsTyped
<1>4. ConfigTyped'
  BY <1>1 DEF PlanInv, ConfigTyped
<1>5. ApplierAlone' /\ \A d \in PlanClients : d # applier'
  BY <1>1, NoCalls, PlanAssumption DEF ApplierAlone
<1> QED BY <1>2, <1>3, <1>4, <1>5 DEF PlanInv

(* A list of one.                                                            *)
LEMMA OneElement == \A S : \A e \in S : <<e>> \in Seq(S)
OBVIOUS

(* Requests that look at a plan: what they write, they write later.          *)
LEMMA ComingKeeps ==
  ASSUME PlanInv, NEW c \in PlanClients, NEW p \in Plans,
         CreatePlan(c, p) \/ AddOverride(c, p) \/ StartPlan(c, p) \/ CancelPlan(c, p)
           \/ ApplyPlan(c, p)
  PROVE  PlanInv'
<1>1. ASSUME NEW pc \in {"created", "adding", "starting", "cancelling", "queued"},
             NEW list \in Seq(planBound.menu), Free(c), Goto(c, Request(pc, p, list)), KeepConfig,
             PlansTyped'
      PROVE  PlanInv'
  <2>1. ~ Applying(planCalls[c])
    BY <1>1, NoCalls DEF Free
  <2>2. planCalls' = [planCalls EXCEPT ![c] = Request(pc, p, list)]
    BY <1>1 DEF Goto
  <2> QED BY <1>1, <2>1, <2>2, Requests, OutsideStep
<1>2. <<>> \in Seq(planBound.menu)
  BY EmptySeq
<1>3. CASE CreatePlan(c, p)
  <2>1. planBound.create[p].sec \in Nat
    BY <1>3, PlanAssumption DEF CreatePlan, PlanInv, PlansTyped
  <2>2. PlansTyped'
    BY <1>3, <2>1 DEF CreatePlan, KeepConfig, PlanInv, PlansTyped, Statuses
  <2> QED BY <1>1, <1>2, <1>3, <2>2 DEF CreatePlan
<1>4. CASE AddOverride(c, p)
  <2>1. PICK o \in planBound.menu : Goto(c, Request("adding", p, <<o>>))
    BY <1>4 DEF AddOverride
  <2>2. <<o>> \in Seq(planBound.menu)
    BY OneElement
  <2>3. PlansTyped'
    BY <1>4 DEF AddOverride, KeepConfig, PlanInv, PlansTyped
  <2> QED BY <1>1, <1>4, <2>1, <2>2, <2>3 DEF AddOverride
<1>5. CASE StartPlan(c, p) \/ CancelPlan(c, p)
  <2>1. PlansTyped'
    BY <1>5 DEF StartPlan, CancelPlan, KeepConfig, PlanInv, PlansTyped
  <2> QED BY <1>1, <1>2, <1>5, <2>1 DEF StartPlan, CancelPlan
<1>6. CASE ApplyPlan(c, p)
  <2>1. PlansTyped'
    BY <1>6 DEF ApplyPlan, KeepConfig, PlanInv, PlansTyped
  <2>2. overrides[p] \in Seq(planBound.menu)
    BY DEF PlanInv, PlansTyped
  <2> QED BY <1>1, <1>6, <2>1, <2>2 DEF ApplyPlan
<1> QED BY <1>3, <1>4, <1>5, <1>6

(* Requests on their way that apply nothing write the table, then the map.   *)
LEMMA GoingKeeps ==
  ASSUME PlanInv, NEW c \in PlanClients,
         NoteCreated(c) \/ InsertOverride(c) \/ WriteStarted(c) \/ NoteStarted(c)
           \/ WriteCancelled(c) \/ NoteCancelled(c)
  PROVE  PlanInv'
<1> DEFINE call == planCalls[c]
<1>0. /\ ~ Applying(call) /\ call \in Calls /\ call.plan \in Plans /\ call.saved = <<>>
      /\ KeepConfig
  <2>1. ~ Applying(call) /\ call.pc # "idle" /\ KeepConfig
    BY DEF NoteCreated, InsertOverride, WriteStarted, NoteStarted, WriteCancelled,
       NoteCancelled, At, Applying
  <2> QED BY <2>1 DEF PlanInv, CallsTyped
<1>1. ASSUME Goto(c, NoCall), PlansTyped' PROVE PlanInv'
  BY <1>0, <1>1, NoCalls, OutsideStep DEF Goto
<1>2. ASSUME NEW pc \in {"started", "cancelled"}, Goto(c, [call EXCEPT !.pc = pc]), PlansTyped'
      PROVE  PlanInv'
  <2> DEFINE x == [call EXCEPT !.pc = pc]
  <2>1. x \in Calls /\ ~ Applying(x) /\ x.saved = <<>> /\ x.plan \in Plans
    BY <1>0 DEF Calls, Applying
  <2>2. planCalls' = [planCalls EXCEPT ![c] = x]
    BY <1>2 DEF Goto
  <2> HIDE DEF x
  <2> QED BY <1>0, <1>2, <2>1, <2>2, OutsideStep
<1>3. CASE NoteCreated(c)
  <2>1. PlansTyped'
    BY <1>0, <1>3 DEF NoteCreated, KeepConfig, PlanInv, PlansTyped, Statuses
  <2> QED BY <1>1, <1>3, <2>1 DEF NoteCreated
<1>4. CASE InsertOverride(c)
  <2>1. overrides[call.plan] \o call.list \in Seq(planBound.menu)
    BY <1>0, ConcatProperties DEF PlanInv, PlansTyped, Calls
  <2>2. PlansTyped'
    BY <1>0, <1>4, <2>1 DEF InsertOverride, KeepConfig, PlanInv, PlansTyped
  <2> QED BY <1>1, <1>4, <2>2 DEF InsertOverride
<1>5. CASE WriteStarted(c)
  <2>1. plans' \in [Plans -> [status : Statuses, left : Nat \cup {-1}]]
    BY <1>0, <1>5, StatusWritten DEF WriteStarted, Statuses, PlanInv
  <2>2. PlansTyped'
    BY <1>5, <2>1 DEF WriteStarted, KeepConfig, PlanInv, PlansTyped
  <2> QED BY <1>2, <1>5, <2>2 DEF WriteStarted
<1>6. CASE NoteStarted(c)
  <2> DEFINE p == call.plan
             more == IF Mode(p) = "replay" THEN 1 ELSE 0
  <2>1. /\ planMemory' = [planMemory EXCEPT ![p] = "running"]
        /\ replays' = [replays EXCEPT ![p].working = @ + more]
    BY <1>6 DEF NoteStarted
  <2>2. more \in Nat
    OBVIOUS
  <2> HIDE DEF more
  <2>3. replays' \in [Plans -> [working : Nat, done : Nat]]
    BY <1>0, <2>1, <2>2 DEF PlanInv, PlansTyped
  <2>4. planMemory' \in [Plans -> Statuses]
    BY <1>0, <2>1 DEF PlanInv, PlansTyped, Statuses
  <2>5. PlansTyped'
    BY <1>6, <2>3, <2>4 DEF NoteStarted, KeepConfig, PlanInv, PlansTyped
  <2> QED BY <1>1, <1>6, <2>5 DEF NoteStarted
<1>7. CASE WriteCancelled(c)
  <2>1. plans' \in [Plans -> [status : Statuses, left : Nat \cup {-1}]]
    BY <1>0, <1>7, StatusWritten DEF WriteCancelled, Statuses, PlanInv
  <2>2. PlansTyped'
    BY <1>7, <2>1 DEF WriteCancelled, KeepConfig, PlanInv, PlansTyped
  <2> QED BY <1>2, <1>7, <2>2 DEF WriteCancelled
<1>8. CASE NoteCancelled(c)
  <2>1. PlansTyped'
    BY <1>0, <1>8 DEF NoteCancelled, Note, KeepConfig, PlanInv, PlansTyped, Statuses
  <2> QED BY <1>1, <1>8, <2>1 DEF NoteCancelled
<1> QED BY <1>3, <1>4, <1>5, <1>6, <1>7, <1>8

(* What goes on beside the requests.                                         *)
LEMMA BesideKeeps ==
  ASSUME PlanInv,
         \/ \E p \in Plans, i \in 1..planBound.size : RemoveOverride(p, i)
         \/ \E p \in Plans : CompleteReplay(p) \/ NoteReplay(p)
         \/ CheckMirrorExpiry \/ PlanTimePasses
  PROVE  PlanInv'
<1>0. KeepConfig /\ planCalls' = planCalls
  BY DEF RemoveOverride, CompleteReplay, NoteReplay, CheckMirrorExpiry, PlanTimePasses, KeepConfig
<1>1. ASSUME NEW p \in Plans, NEW i \in Nat, RemoveOverride(p, i) PROVE PlansTyped'
  <2>1. RemoveAt(overrides[p], i) \in Seq(planBound.menu)
    BY <1>1, RemoveAtKeeps DEF RemoveOverride, PlanInv, PlansTyped
  <2> QED BY <1>1, <2>1 DEF RemoveOverride, KeepConfig, PlanInv, PlansTyped
<1>2. ASSUME NEW p \in Plans, CompleteReplay(p) PROVE PlansTyped'
  <2>1. plans' \in [Plans -> [status : Statuses, left : Nat \cup {-1}]]
    BY <1>2, StatusWritten DEF CompleteReplay, Statuses, PlanInv
  <2>2. /\ replays[p] \in [working : Nat, done : Nat] /\ replays[p].working > 0
        /\ replays' = [replays EXCEPT ![p].working = @ - 1, ![p].done = @ + 1]
    BY <1>2 DEF CompleteReplay, PlanInv, PlansTyped
  <2>3. replays' \in [Plans -> [working : Nat, done : Nat]]
    BY <2>2 DEF PlanInv, PlansTyped
  <2> QED BY <1>2, <2>1, <2>3 DEF CompleteReplay, KeepConfig, PlanInv, PlansTyped
<1>3. ASSUME NEW p \in Plans, NoteReplay(p) PROVE PlansTyped'
  <2>1. /\ replays[p] \in [working : Nat, done : Nat] /\ replays[p].done > 0
        /\ replays' = [replays EXCEPT ![p].done = @ - 1]
    BY <1>3 DEF NoteReplay, PlanInv, PlansTyped
  <2>2. replays' \in [Plans -> [working : Nat, done : Nat]]
    BY <2>1 DEF PlanInv, PlansTyped
  <2>3. planMemory' \in [Plans -> Statuses]
    BY <1>3 DEF NoteReplay, Note, PlanInv, PlansTyped, Statuses
  <2> QED BY <1>3, <2>2, <2>3 DEF NoteReplay, KeepConfig, PlanInv, PlansTyped
<1>4. ASSUME CheckMirrorExpiry PROVE PlansTyped'
  <2> DEFINE due == {p \in Plans : planMemory[p] = "running" /\ HasEnd(p) /\ plans[p].left < 0}
  <2>1. /\ plans' = [p \in Plans |-> IF p \in due THEN [plans[p] EXCEPT !.status = "completed"]
                                     ELSE plans[p]]
        /\ planMemory' = [p \in Plans |-> IF p \in due THEN "completed" ELSE planMemory[p]]
    BY <1>4 DEF CheckMirrorExpiry
  <2> HIDE DEF due
  <2> QED BY <1>4, <2>1 DEF CheckMirrorExpiry, PlanInv, PlansTyped, Statuses
<1>5. ASSUME PlanTimePasses PROVE PlansTyped'
  <2>1. \A p \in Plans :
          /\ plans'[p].status = plans[p].status
          /\ plans'[p] \in [status : Statuses, left : Nat \cup {-1}]
    <3> SUFFICES ASSUME NEW p \in Plans
                 PROVE  plans'[p].status = plans[p].status
                        /\ plans'[p] \in [status : Statuses, left : Nat \cup {-1}]
      OBVIOUS
    <3>1. plans[p] \in [status : Statuses, left : Nat \cup {-1}]
      BY DEF PlanInv, PlansTyped
    <3>2. \/ plans'[p] = plans[p]
          \/ plans[p].left >= 0 /\ plans'[p] = [plans[p] EXCEPT !.left = @ - 1]
      BY <1>5 DEF PlanTimePasses
    <3> QED BY <3>1, <3>2
  <2>2. plans' \in [Plans -> [status : Statuses, left : Nat \cup {-1}]]
    BY <1>5, <2>1 DEF PlanTimePasses
  <2> QED BY <1>5, <2>2 DEF PlanTimePasses, KeepConfig, PlanInv, PlansTyped
<1>6. planBound.size \in Nat
  BY PlanAssumption DEF PlanInv, PlansTyped
<1>7. PlansTyped'
  BY <1>1, <1>2, <1>3, <1>4, <1>5, <1>6
<1> QED BY <1>0, <1>7, TableStep

(* No plan, no request, the rows as they are.                                *)
LEMMA PlanInitHolds == PlanInit => PlanInv
<1> SUFFICES ASSUME PlanInit PROVE PlanInv
  OBVIOUS
<1>1. PlansTyped
  <2>1. overrides \in [Plans -> Seq(planBound.menu)]
    BY EmptySeq DEF PlanInit
  <2> QED BY <2>1 DEF PlanInit, PlansTyped, Statuses
<1>2. ConfigTyped
  <2>1. \A t \in Targets : [f \in Fields[t] |-> 1] \in Rows(t)
    BY DEF Rows, Values
  <2> QED BY <2>1 DEF PlanInit, ConfigTyped
<1>3. CallsTyped
  BY NoCalls DEF PlanInit, CallsTyped
<1>4. ApplierAlone /\ \A c \in PlanClients : c # applier
  BY NoCalls, PlanAssumption DEF PlanInit, ApplierAlone
<1> QED BY <1>1, <1>2, <1>3, <1>4 DEF PlanInv

(* Every step keeps the invariant.                                           *)
LEMMA PlanStepKeeps == PlanInv /\ [PlanNext]_planVars => PlanInv'
<1> SUFFICES ASSUME PlanInv, [PlanNext]_planVars PROVE PlanInv'
  OBVIOUS
<1>1. CASE \E c \in PlanClients, p \in Plans :
             CreatePlan(c, p) \/ AddOverride(c, p) \/ StartPlan(c, p) \/ CancelPlan(c, p)
               \/ ApplyPlan(c, p)
  BY <1>1, ComingKeeps
<1>2. ASSUME NEW c \in PlanClients, PlanStep(c) PROVE PlanInv'
  <2>1. CASE NoteCreated(c) \/ InsertOverride(c) \/ WriteStarted(c) \/ NoteStarted(c)
               \/ WriteCancelled(c) \/ NoteCancelled(c)
    BY <2>1, GoingKeeps
  <2>2. CASE TakeApplyMutex(c)
    BY <2>2, TakeApplyMutexKeeps
  <2>3. CASE ReadRow(c) \/ WriteRow(c)
    BY <2>3, ReadRowKeeps, WriteRowKeeps
  <2>4. CASE \E ok \in BOOLEAN : MarkApplied(c, ok)
    BY <2>4, MarkAppliedKeeps
  <2>5. CASE UndoLast(c)
    BY <2>5, UndoLastKeeps
  <2>6. CASE NoteApplied(c)
    <3>1. planMemory' \in [Plans -> Statuses]
      BY <2>6 DEF NoteApplied, Note, PlanInv, PlansTyped, Statuses
    <3> QED BY <2>6, <3>1, LeaveKeeps DEF NoteApplied, At, Applying
  <2>7. CASE EndRollback(c)
    <3>1. planMemory' \in [Plans -> Statuses]
      BY <2>7 DEF EndRollback, PlanInv, PlansTyped
    <3> QED BY <2>7, <3>1, LeaveKeeps DEF EndRollback, At, Applying
  <2> QED BY <1>2, <2>1, <2>2, <2>3, <2>4, <2>5, <2>6, <2>7 DEF PlanStep
<1>3. CASE \/ \E p \in Plans, i \in 1..planBound.size : RemoveOverride(p, i)
           \/ \E p \in Plans : CompleteReplay(p) \/ NoteReplay(p)
           \/ CheckMirrorExpiry \/ PlanTimePasses
  BY <1>3, BesideKeeps
<1>4. CASE PutRule \/ RemoveRule \/ PutQuotaLimit \/ LockMoves \/ BreakerTurns
  BY <1>4, ManagersKeep
<1>5. CASE RestartPlans
  BY <1>5, RestartPlansKeeps
<1>6. CASE UNCHANGED planVars
  <2>1. PlansTyped' /\ KeepConfig /\ planCalls' = planCalls
    BY <1>6 DEF planVars, PlanInv, PlansTyped, KeepConfig
  <2> QED BY <2>1, TableStep
<1> QED BY <1>1, <1>2, <1>3, <1>4, <1>5, <1>6 DEF PlanNext

(* The inductive invariant: at most one request applies a plan, what it has  *)
(* saved undoes it, and the row it is about to write is the one it read.     *)
THEOREM PlanInvariant == PlanSpec => []PlanInv
BY PlanInitHolds, PlanStepKeeps, PTL DEF PlanSpec

(* A plan is applied as a whole or not at all, for any number of plans,      *)
(* overrides and requests, whoever else applies or cancels one or writes     *)
(* what it overrides, and wherever the process ends.                         *)
THEOREM PlansSound == PlanSpec => []PlansAreSound
BY PlanInvariant, PlanInvIsEnough, PTL

(******************************** handovers ********************************)

(* What Keep keeps is what was chosen. *)
LEMMA KeepRange ==
  ASSUME NEW S, NEW s \in Seq(S), NEW K \in SUBSET (DOMAIN s)
  PROVE  /\ Keep(s, K) \in Seq(S)
         /\ Range(Keep(s, K)) = {s[i] : i \in K}
<1>1. /\ Keep(s, K) \in Seq(S)
      /\ DOMAIN Keep(s, K) = 1..Cardinality(K)
      /\ \A n \in DOMAIN Keep(s, K) : Nth(K, n) \in K /\ Keep(s, K)[n] = s[Nth(K, n)]
      /\ \A m, n \in DOMAIN Keep(s, K) : Nth(K, m) = Nth(K, n) => m = n
  BY KeepPositions
<1>2. IsFiniteSet(K) /\ Cardinality(K) \in Nat
  <2>1. IsFiniteSet(DOMAIN s)
    BY LenProperties, FS_Interval
  <2> QED BY <2>1, FS_Subset, FS_CardinalityType
<1>3. ASSUME NEW i \in K PROVE \E n \in 1..Cardinality(K) : Nth(K, n) = i
  <2> DEFINE D == 1..Cardinality(K)
             f == [n \in D |-> Nth(K, n)]
  <2>1. f \in [D -> K]
    BY <1>1
  <2>2. IsFiniteSet(D) /\ Cardinality(D) = Cardinality(K)
    BY <1>2, FS_Interval
  <2>3. SUFFICES ASSUME \A n \in D : Nth(K, n) # i PROVE FALSE
    OBVIOUS
  <2>4. f \in [D -> K \ {i}]
    BY <1>1, <2>3
  <2>5. IsFiniteSet(K \ {i}) /\ Cardinality(K \ {i}) = Cardinality(K) - 1
    BY <1>2, FS_RemoveElement
  <2> HIDE DEF D
  <2>6. \A m, n \in D : f[m] = f[n] => m = n
    BY <1>1 DEF D
  <2> HIDE DEF f
  <2>7. f \in Injection(D, K \ {i})
    BY <2>4, <2>6 DEF Injection, IsInjective
  <2>8. Cardinality(D) <= Cardinality(K \ {i})
    BY <2>2, <2>5, <2>7, FS_Injection
  <2> QED BY <1>2, <2>2, <2>5, <2>8
<1>4. Range(Keep(s, K)) = {Keep(s, K)[n] : n \in 1..Cardinality(K)}
  BY <1>1 DEF Range
<1> QED BY <1>1, <1>3, <1>4

LEMMA RangeOfBoth ==
  ASSUME NEW S, NEW s \in Seq(S), NEW t \in Seq(S)
  PROVE  s \o t \in Seq(S) /\ Range(s \o t) = Range(s) \cup Range(t)
<1>1. /\ s \o t \in Seq(S) /\ Len(s \o t) = Len(s) + Len(t)
      /\ \A i \in 1 .. Len(s) + Len(t) : (s \o t)[i] = IF i <= Len(s) THEN s[i] ELSE t[i - Len(s)]
  BY ConcatProperties
<1>2. /\ Len(s) \in Nat /\ DOMAIN s = 1..Len(s)
      /\ Len(t) \in Nat /\ DOMAIN t = 1..Len(t)
      /\ DOMAIN (s \o t) = 1 .. Len(s) + Len(t)
  BY <1>1, LenProperties
<1>3. ASSUME NEW x \in Range(s) PROVE x \in Range(s \o t)
  <2>1. PICK i \in 1..Len(s) : s[i] = x
    BY <1>2 DEF Range
  <2>2. i \in DOMAIN (s \o t) /\ (s \o t)[i] = x
    BY <1>1, <1>2, <2>1
  <2> QED BY <2>2 DEF Range
<1>4. ASSUME NEW x \in Range(t) PROVE x \in Range(s \o t)
  <2>1. PICK i \in 1..Len(t) : t[i] = x
    BY <1>2 DEF Range
  <2> DEFINE j == Len(s) + i
  <2>2. j \in DOMAIN (s \o t) /\ (s \o t)[j] = x
    <3>1. j \in 1 .. Len(s) + Len(t) /\ ~ (j <= Len(s)) /\ j - Len(s) = i
      BY <1>2, <2>1
    <3> QED BY <1>1, <1>2, <2>1, <3>1
  <2> QED BY <2>2 DEF Range
<1>5. ASSUME NEW x \in Range(s \o t) PROVE x \in Range(s) \cup Range(t)
  <2>1. PICK i \in 1 .. Len(s) + Len(t) : (s \o t)[i] = x
    BY <1>2 DEF Range
  <2>2. CASE i <= Len(s)
    BY <1>1, <1>2, <2>1, <2>2 DEF Range
  <2>3. CASE ~ (i <= Len(s))
    <3>1. i - Len(s) \in DOMAIN t /\ t[i - Len(s)] = x
      BY <1>1, <1>2, <2>1, <2>3
    <3> QED BY <3>1 DEF Range
  <2> QED BY <2>2, <2>3
<1> QED BY <1>1, <1>3, <1>4, <1>5

LEMMA ReverseRange ==
  ASSUME NEW S, NEW s \in Seq(S)
  PROVE  Reverse(s) \in Seq(S) /\ Range(Reverse(s)) = Range(s)
<1>1. Len(s) \in Nat /\ DOMAIN s = 1..Len(s) /\ \A i \in 1..Len(s) : s[i] \in S
  BY LenProperties, ElementOfSeq
<1>2. \A i \in 1..Len(s) : (Len(s) - i) + 1 \in 1..Len(s) /\ (Len(s) - ((Len(s) - i) + 1)) + 1 = i
  BY <1>1
<1>3. Reverse(s) \in [1..Len(s) -> S]
  BY <1>1, <1>2 DEF Reverse
<1>4. Reverse(s) \in Seq(S)
  BY <1>1, <1>3, SeqDef
<1>5. ASSUME NEW x \in Range(s) PROVE x \in Range(Reverse(s))
  <2>1. PICK i \in 1..Len(s) : s[i] = x
    BY <1>1 DEF Range
  <2>2. /\ (Len(s) - i) + 1 \in DOMAIN Reverse(s)
        /\ Reverse(s)[(Len(s) - i) + 1] = s[(Len(s) - ((Len(s) - i) + 1)) + 1]
    BY <1>2 DEF Reverse
  <2> QED BY <1>2, <2>1, <2>2 DEF Range
<1>6. ASSUME NEW x \in Range(Reverse(s)) PROVE x \in Range(s)
  <2>1. PICK i \in 1..Len(s) : Reverse(s)[i] = x
    BY DEF Range, Reverse
  <2>2. s[(Len(s) - i) + 1] = x
    BY <2>1 DEF Reverse
  <2> QED BY <1>1, <1>2, <2>2 DEF Range
<1> QED BY <1>4, <1>5, <1>6

LEMMA RangeOfAppend ==
  ASSUME NEW S, NEW s \in Seq(S), NEW e \in S
  PROVE  Append(s, e) \in Seq(S) /\ Range(Append(s, e)) = Range(s) \cup {e}
<1>1. /\ Append(s, e) \in Seq(S) /\ Len(s) \in Nat /\ DOMAIN s = 1..Len(s)
      /\ DOMAIN Append(s, e) = 1..(Len(s) + 1)
      /\ \A i \in 1..Len(s) : Append(s, e)[i] = s[i]
      /\ Append(s, e)[Len(s) + 1] = e
  BY LenProperties, AppendProperties
<1>2. 1..(Len(s) + 1) = (1..Len(s)) \cup {Len(s) + 1}
  BY <1>1
<1> QED BY <1>1, <1>2 DEF Range

LEMMA FlattenIsSeq ==
  ASSUME NEW S, NEW ss \in Seq(Seq(S))
  PROVE  FlattenSeq(ss) \in Seq(S)
<1> DEFINE n == Len(ss)
           Solves(f, m) == f = [i \in 1..m |-> IF i = 1 THEN ss[i] ELSE f[i-1] \o ss[i]]
           flatten == CHOOSE f : Solves(f, n)
<1>1. n \in Nat /\ DOMAIN ss = 1..n /\ \A i \in 1..n : ss[i] \in Seq(S)
  BY LenProperties, ElementOfSeq
<1>2. CASE n = 0
  BY <1>1, <1>2 DEF FlattenSeq
<1>3. CASE n # 0
  <2> DEFINE T == {m \in Nat : \E f : Solves(f, m)}
  <2>1. 0 \in T
    <3>1. Solves([i \in 1..0 |-> i], 0)
      OBVIOUS
    <3> QED BY <3>1
  <2>2. ASSUME NEW m \in T PROVE m + 1 \in T
    <3>0. m \in Nat
      OBVIOUS
    <3>1. PICK f : Solves(f, m)
      OBVIOUS
    <3> DEFINE g == [i \in 1..(m+1) |->
                       IF i <= m THEN f[i] ELSE IF i = 1 THEN ss[i] ELSE f[i-1] \o ss[i]]
    <3>2. ASSUME NEW i \in 1..(m+1)
          PROVE  g[i] = IF i = 1 THEN ss[i] ELSE g[i-1] \o ss[i]
      <4>1. CASE i <= m
        <5>1. i \in 1..m /\ g[i] = f[i]
          BY <3>0, <4>1
        <5>2. f[i] = IF i = 1 THEN ss[i] ELSE f[i-1] \o ss[i]
          BY <3>1, <5>1
        <5>3. i # 1 => i - 1 \in 1..(m+1) /\ i - 1 <= m /\ g[i-1] = f[i-1]
          BY <3>0, <4>1
        <5> HIDE DEF g
        <5> QED BY <5>1, <5>2, <5>3
      <4>2. CASE ~ (i <= m)
        <5>1. g[i] = IF i = 1 THEN ss[i] ELSE f[i-1] \o ss[i]
          BY <4>2
        <5>2. i # 1 => i - 1 \in 1..(m+1) /\ i - 1 <= m /\ g[i-1] = f[i-1]
          BY <3>0, <4>2
        <5> HIDE DEF g
        <5> QED BY <5>1, <5>2
      <4> QED BY <4>1, <4>2
    <3>3. g = [i \in 1..(m+1) |-> g[i]]
      OBVIOUS
    <3> HIDE DEF g
    <3>4. Solves(g, m + 1)
      BY <3>2, <3>3
    <3> HIDE DEF Solves
    <3> QED BY <3>0, <3>4
  <2>3. \E f : Solves(f, n)
    <3> HIDE DEF Solves
    <3>1. T \in SUBSET Nat
      OBVIOUS
    <3> HIDE DEF T
    <3>2. T = Nat
      BY <2>1, <2>2, <3>1, NatSetInduction
    <3> QED BY <1>1, <3>2 DEF T
  <2>4. Solves(flatten, n)
    <3> HIDE DEF Solves
    <3> QED BY <2>3
  <2>5. \A i \in 1..n : flatten[i] = IF i = 1 THEN ss[i] ELSE flatten[i-1] \o ss[i]
    <3> HIDE DEF flatten
    <3> QED BY <2>4
  <2>6. FlattenSeq(ss) = flatten[n]
    BY <1>3 DEF FlattenSeq
  <2> HIDE DEF flatten
  <2> DEFINE G == {m \in Nat : m + 1 \in 1..n => flatten[m + 1] \in Seq(S)}
  <2>7. 0 \in G
    BY <1>1, <2>5
  <2>8. ASSUME NEW m \in G PROVE m + 1 \in G
    <3>0. m \in Nat
      OBVIOUS
    <3>1. SUFFICES ASSUME (m + 1) + 1 \in 1..n PROVE flatten[(m + 1) + 1] \in Seq(S)
      BY <3>0
    <3>2. m + 1 \in 1..n /\ (m + 1) + 1 # 1 /\ ((m + 1) + 1) - 1 = m + 1
      BY <1>1, <3>0, <3>1
    <3>3. flatten[m + 1] \in Seq(S) /\ ss[(m + 1) + 1] \in Seq(S)
      BY <1>1, <3>1, <3>2
    <3>4. flatten[(m + 1) + 1] = flatten[m + 1] \o ss[(m + 1) + 1]
      BY <2>5, <3>1, <3>2
    <3> QED BY <3>3, <3>4, ConcatProperties
  <2>9. G = Nat
    <3>1. G \in SUBSET Nat
      OBVIOUS
    <3> HIDE DEF G
    <3> QED BY <2>7, <2>8, <3>1, NatSetInduction
  <2>10. n - 1 \in G /\ (n - 1) + 1 = n
    <3>1. n - 1 \in Nat /\ (n - 1) + 1 = n
      BY <1>1, <1>3
    <3> HIDE DEF G
    <3> QED BY <2>9, <3>1
  <2> QED BY <1>1, <1>3, <2>6, <2>10
<1> QED BY <1>2, <1>3

(* Nothing but the three kinds of resource that go back goes back. *)
LEMMA BackInOrder ==
  ASSUME NEW s \in Seq(Item)
  PROVE  LET todo == RollbackOrder(s)
             back == {x \in Range(s) : x.type \in {"reservation", "orch_tx", "lock"}}
         IN  /\ todo = << >> <=> back = {}
             /\ todo # << >> => Head(todo) \in back
<1> DEFINE Of(type) == Reverse(OfType(s, type))
<1>1. ASSUME NEW type
      PROVE  Of(type) \in Seq(Item) /\ Range(Of(type)) = {x \in Range(s) : x.type = type}
  <2> DEFINE K == {i \in DOMAIN s : s[i].type = type}
  <2>1. Keep(s, K) \in Seq(Item) /\ Range(Keep(s, K)) = {s[i] : i \in K}
    BY KeepRange
  <2>2. {s[i] : i \in K} = {x \in Range(s) : x.type = type}
    BY DEF Range
  <2>3. OfType(s, type) \in Seq(Item) /\ Range(OfType(s, type)) = {x \in Range(s) : x.type = type}
    BY <2>1, <2>2 DEF OfType
  <2> QED BY <2>3, ReverseRange
<1> DEFINE r == Of("reservation")
           t == Of("orch_tx")
           l == Of("lock")
           todo == RollbackOrder(s)
           back == {x \in Range(s) : x.type \in {"reservation", "orch_tx", "lock"}}
<1>2. todo = r \o t \o l
  BY DEF RollbackOrder
<1>3. todo \in Seq(Item) /\ Range(todo) = Range(r) \cup Range(t) \cup Range(l)
  <2> HIDE DEF Of, todo
  <2>1. r \in Seq(Item) /\ t \in Seq(Item) /\ l \in Seq(Item)
    BY <1>1
  <2> HIDE DEF r, t, l
  <2>2. r \o t \in Seq(Item) /\ Range(r \o t) = Range(r) \cup Range(t)
    BY <2>1, RangeOfBoth
  <2> DEFINE rt == r \o t
  <2>3. rt \in Seq(Item) /\ Range(rt) = Range(r) \cup Range(t) /\ todo = rt \o l
    BY <1>2, <2>2
  <2> HIDE DEF rt
  <2>4. rt \o l \in Seq(Item) /\ Range(rt \o l) = Range(rt) \cup Range(l)
    BY <2>1, <2>3, RangeOfBoth
  <2> QED BY <2>3, <2>4
<1>4. Range(todo) = back
  <2> HIDE DEF Of, todo
  <2> QED BY <1>1, <1>3
<1>5. todo = << >> <=> Range(todo) = {}
  <2> HIDE DEF todo
  <2>1. todo # << >> => Head(todo) \in Range(todo)
    BY <1>3, LenProperties, EmptySeq DEF Range
  <2>2. todo = << >> => Range(todo) = {}
    BY DEF Range
  <2> QED BY <2>1, <2>2
<1>6. todo # << >> => Head(todo) \in Range(todo)
  <2> HIDE DEF todo
  <2> QED BY <1>3, LenProperties, EmptySeq DEF Range
<1> HIDE DEF todo
<1> QED BY <1>4, <1>5, <1>6 DEF todo

-----------------------------------------------------------------------------
(* The invariant.                                                          *)

(* The keys of a resource of a type. *)
KeysOf(type) ==
  CASE type = "lock" -> Locks
    [] type = "quota" -> Parties
    [] type = "orch_tx" -> Txs
    [] type = "topology_subtree" -> Roots
    [] OTHER -> Reservations

(* The resources that exist. *)
FitItem == {x \in Item : x.key \in KeysOf(x.type)}

HandoverRow == [from : Parties, to : Parties, status : HandoverStatuses, confirm : BOOLEAN,
                left : Nat, items : Seq(FitItem)]

IsQuotas(bs) ==
  DOMAIN bs \subseteq Parties /\ IsFiniteSet(DOMAIN bs) /\ bs \in [DOMAIN bs -> BindingRow]

IsPlaces(p) ==
  /\ p.locks \in [Locks -> HolderRows]
  /\ p.txs \in [Txs -> TxRow] /\ p.reservations \in [Reservations -> ReservationRow]
  /\ IsQuotas(p.bindings)

(* The rows of executions that began at a place. *)
RunsFrom(b) ==
  [mode : {"none", "check", "execute", "rollback"}, id : Nat, pos : Nat \ {0}, part : 1..3,
   applied : Seq(FitItem), before : {b}, disturbed : BOOLEAN]

TablesTyped ==
  /\ locks \in [Locks -> HolderRows]
  /\ IsQuotas(bindings)
  /\ txs \in [Txs -> TxRow] /\ reservations \in [Reservations -> ReservationRow]

HandoversTyped ==
  /\ handovers \in Seq(HandoverRow) /\ Len(handovers) <= limits.handovers
  /\ \A id \in DOMAIN handovers : handovers[id].from # handovers[id].to

HandoverRest ==
  /\ limits \in HandoverBounds /\ swept \in BOOLEAN
  /\ refused \subseteq Parties \X Types
  /\ stops \in 0..limits.crashes /\ events \in 0..limits.events

Todo == RollbackOrder(run.applied)
AppliedItems(type) == {x \in Range(run.applied) : x.type = type}

(* A resource half moved, and one half moved back. *)
Moving(type, k) ==
  /\ run.mode = "execute" /\ run.part = IF type = "lock" THEN 3 ELSE 2
  /\ It.type = type /\ It.key = k
Returning(type, k) ==
  /\ run.mode = "rollback" /\ run.part = 2
  /\ Head(Todo).type = type /\ Head(Todo).key = k

(* A lock that is the giver's, as the execution has just read. *)
Reading(l) == run.mode = "execute" /\ run.part = 2 /\ It.type = "lock" /\ It.key = l

(* Moved, or on the way. *)
Given(type, k) == Moving(type, k) \/ \E x \in AppliedItems(type) : x.key = k

(* The machine of one execution. *)
RunIsSound ==
  /\ run \in RunsFrom(run.before)
  /\ run.mode = "none" => run = NoRun
  /\ run.mode # "none" => run.id \in DOMAIN handovers /\ run.pos <= Len(H.items) + 1
  /\ run.mode = "check" => H.status \in {"created", "prechecked"} /\ run.part = 1
  /\ run.mode \in {"execute", "rollback"} =>
       H.status \in {"prechecked", "pending_receive"} /\ IsPlaces(run.before)
  /\ run.mode = "execute" /\ run.part # 1 =>
       /\ run.pos <= Len(H.items)
       /\ It.type \in {"lock", "quota", "orch_tx"} /\ (run.part = 3 => It.type = "lock")
       /\ It.type = "quota" => H.from \in DOMAIN bindings
  /\ run.mode = "rollback" /\ run.part # 1 =>
       run.part = 2 /\ Todo # << >> /\ Head(Todo).type \in {"lock", "orch_tx"}

(* What an execution has taken is with the receiver, and was taken once. *)
TxsTaken ==
  /\ \A t \in Txs : Given("orch_tx", t) =>
       txs[t].holder = IF Returning("orch_tx", t) THEN H.from ELSE H.to
  /\ \A x, y \in AppliedItems("orch_tx") : x.key = y.key => x = y
  /\ \A x \in AppliedItems("orch_tx") : ~ Moving("orch_tx", x.key)

ReservationsTaken ==
  /\ \A x \in AppliedItems("reservation") : reservations[x.key].caller = H.to
  /\ \A x, y \in AppliedItems("reservation") : x.key = y.key => x = y

Taken == run.mode \in {"execute", "rollback"} => TxsTaken /\ ReservationsTaken

(* The three kinds of row, left alone since the execution began. *)
LocksTraced ==
  /\ \A l \in Locks :
       LET old == run.before.locks[l]
           now == locks[l]
       IN  /\ now.lease = NoParty <=> old.lease = NoParty
           /\ IF Given("lock", l)
              THEN old.holder = H.from /\ now.holder = H.to
              ELSE now.holder = old.holder /\ now.lease \in {old.lease, old.holder}
           /\ Returning("lock", l) => now.lease \in {NoParty, H.from}
           /\ Reading(l) => now.holder = H.from
  /\ \A x, y \in AppliedItems("lock") : x.key = y.key => x = y
  /\ \A x \in AppliedItems("lock") : ~ Moving("lock", x.key)

TxsTraced ==
  \A t \in Txs :
    LET old == run.before.txs[t]
        now == txs[t]
    IN  /\ now.committed = old.committed
        /\ IF Given("orch_tx", t)
           THEN old.holder = H.from
           ELSE now.holder = old.holder /\ now.locks \in {old.locks, old.holder}

ReservationsTraced ==
  \A r \in Reservations :
    LET old == run.before.reservations[r]
        now == reservations[r]
    IN  /\ now.live = old.live
        /\ IF Given("reservation", r) THEN old.caller = H.from ELSE now.caller = old.caller

IsMoved(item) ==
  /\ item.type = "lock" => locks[item.key].holder = H.to /\ locks[item.key].lease \in {H.to, NoParty}
  /\ item.type = "orch_tx" => txs[item.key].holder = H.to /\ txs[item.key].locks = H.to
  /\ item.type = "reservation" => reservations[item.key].caller = H.to

AllMoved == run.mode = "execute" => \A i \in 1..(run.pos - 1) : IsMoved(H.items[i])

(* The giver's use while it is counted twice. *)
Twice(part) ==
  IF run.mode = "execute" /\ run.part = 2 /\ It.type = "quota" THEN bindings[H.from][part] ELSE 0

UsageTraced ==
  \A part \in {"used", "borrowed"} :
    Total(bindings, part) >= Total(run.before.bindings, part) + Twice(part)

Traced == LocksTraced /\ TxsTraced /\ ReservationsTraced /\ AllMoved /\ UsageTraced

LeftAlone == run.mode \in {"execute", "rollback"} /\ ~ run.disturbed

HandoverInvariant ==
  /\ TablesTyped /\ HandoversTyped /\ HandoverRest
  /\ RunIsSound /\ Taken
  /\ LeftAlone => Traced
-----------------------------------------------------------------------------
(* What the tables and requests are made of.                               *)

LEMMA Kinds ==
  /\ KeysOf("lock") = Locks /\ KeysOf("quota") = Parties /\ KeysOf("orch_tx") = Txs
  /\ KeysOf("topology_subtree") = Roots /\ KeysOf("reservation") = Reservations
  /\ \A type \in Types : KeysOf(type) \subseteq Keys
<1>1. /\ KeysOf("lock") = Locks /\ KeysOf("quota") = Parties /\ KeysOf("orch_tx") = Txs
      /\ KeysOf("topology_subtree") = Roots /\ KeysOf("reservation") = Reservations
  BY DEF KeysOf
<1> QED BY <1>1 DEF Types, Keys

LEMMA ItemsFit ==
  ASSUME NEW type \in Types, NEW keys \in Seq(KeysOf(type))
  PROVE  ItemsOf(type, keys) \in Seq(FitItem)
<1>1. Len(keys) \in Nat /\ DOMAIN keys = 1..Len(keys) /\ \A i \in 1..Len(keys) : keys[i] \in KeysOf(type)
  BY LenProperties, ElementOfSeq
<1>2. \A k \in KeysOf(type) : ItemOf(type, k) \in FitItem
  BY Kinds DEF ItemOf, FitItem, Item, Checks
<1>3. ItemsOf(type, keys) \in [1..Len(keys) -> FitItem]
  BY <1>1, <1>2 DEF ItemsOf
<1> QED BY <1>1, <1>3, SeqDef

LEMMA AllItemsFit ==
  ASSUME NEW r \in HandoverRequest
  PROVE  AllItems(r) \in Seq(FitItem)
<1>1. /\ r.locks \in Seq(Locks) /\ r.quotas \in Seq(Parties) /\ r.txs \in Seq(Txs)
      /\ r.roots \in Seq(Roots) /\ r.reservations \in Seq(Reservations)
  BY DEF HandoverRequest
<1>2. ExpandTopologySubtrees(r.roots, r.from) \in Seq(Locks)
  <2> DEFINE ss == [i \in DOMAIN r.roots |-> Subtree[r.roots[i]]]
             below == FlattenSeq(ss)
             K == {i \in DOMAIN below : locks[below[i]].holder = r.from}
  <2>1. Len(r.roots) \in Nat /\ DOMAIN r.roots = 1..Len(r.roots)
        /\ \A i \in 1..Len(r.roots) : r.roots[i] \in Roots
    BY <1>1, LenProperties, ElementOfSeq
  <2>2. ss \in [1..Len(r.roots) -> Seq(Locks)]
    BY <2>1, HandoverAssumption
  <2>3. ss \in Seq(Seq(Locks))
    BY <2>1, <2>2, SeqDef
  <2> HIDE DEF ss
  <2>4. below \in Seq(Locks)
    BY <2>3, FlattenIsSeq
  <2>5. ExpandTopologySubtrees(r.roots, r.from) = Keep(below, K)
    BY DEF ExpandTopologySubtrees, ss
  <2> HIDE DEF below
  <2> QED BY <2>4, <2>5, KeepRange
<1> DEFINE all == r.locks \o ExpandTopologySubtrees(r.roots, r.from)
<1>3. Unique(all) \in Seq(Locks)
  <2>1. all \in Seq(Locks)
    BY <1>1, <1>2, ConcatProperties
  <2> HIDE DEF all
  <2> QED BY <2>1, KeepRange DEF Unique
<1> DEFINE a == ItemsOf("lock", Unique(all))
           b == ItemsOf("quota", r.quotas)
           c == ItemsOf("orch_tx", r.txs)
           d == ItemsOf("topology_subtree", r.roots)
           e == ItemsOf("reservation", r.reservations)
<1>4. /\ a \in Seq(FitItem) /\ b \in Seq(FitItem) /\ c \in Seq(FitItem)
      /\ d \in Seq(FitItem) /\ e \in Seq(FitItem)
  <2> HIDE DEF all
  <2> QED BY <1>1, <1>3, Kinds, ItemsFit DEF Types
<1>5. AllItems(r) = a \o b \o c \o d \o e
  BY DEF AllItems
<1> HIDE DEF a, b, c, d, e
<1>6. a \o b \in Seq(FitItem)
  BY <1>4, ConcatProperties
<1>7. a \o b \o c \in Seq(FitItem)
  BY <1>4, <1>6, ConcatProperties
<1>8. a \o b \o c \o d \in Seq(FitItem)
  BY <1>4, <1>7, ConcatProperties
<1> QED BY <1>4, <1>5, <1>8, ConcatProperties

(* What the bounds of a behaviour say. *)
LEMMA TheLimits ==
  ASSUME limits \in HandoverBounds
  PROVE  /\ limits.handovers \in Nat /\ limits.crashes \in Nat /\ limits.events \in Nat
         /\ \A r \in limits.requests : r \in HandoverRequest /\ r.from # r.to
BY HandoverAssumption DEF HandoverLimits

(* A handover that is inserted, and one that is written. *)
LEMMA OneMoreHandover ==
  ASSUME HandoverInvariant, UNCHANGED limits, NEW r \in limits.requests, NEW items \in Seq(FitItem),
         Len(handovers) < limits.handovers, handovers' = Append(handovers, Created(r, items))
  PROVE  HandoversTyped'
<1>1. r \in HandoverRequest /\ r.from # r.to /\ limits.handovers \in Nat
  BY TheLimits DEF HandoverInvariant, HandoverRest
<1> DEFINE h == Created(r, items)
<1>2. h \in HandoverRow /\ h.from # h.to
  BY <1>1 DEF Created, HandoverRow, HandoverRequest, HandoverStatuses
<1> HIDE DEF h
<1>3. handovers \in Seq(HandoverRow) /\ \A id \in DOMAIN handovers : handovers[id].from # handovers[id].to
  BY DEF HandoverInvariant, HandoversTyped
<1>4. handovers' = Append(handovers, h)
  BY DEF h
<1>5. /\ handovers' \in Seq(HandoverRow) /\ Len(handovers') = Len(handovers) + 1
      /\ DOMAIN handovers' = 1..(Len(handovers) + 1) /\ Len(handovers) \in Nat
      /\ DOMAIN handovers = 1..Len(handovers)
      /\ \A id \in 1..Len(handovers) : handovers'[id] = handovers[id]
      /\ handovers'[Len(handovers) + 1] = h
  BY <1>2, <1>3, <1>4, AppendProperties, LenProperties
<1>6. \A id \in DOMAIN handovers' : handovers'[id].from # handovers'[id].to
  BY <1>2, <1>3, <1>5
<1> QED BY <1>1, <1>5, <1>6 DEF HandoversTyped

LEMMA HandoverWritten ==
  ASSUME HandoversTyped, UNCHANGED limits, NEW id \in DOMAIN handovers, NEW h \in HandoverRow,
         h.from = handovers[id].from, h.to = handovers[id].to,
         handovers' = [handovers EXCEPT ![id] = h]
  PROVE  /\ HandoversTyped'
         /\ DOMAIN handovers' = DOMAIN handovers /\ handovers'[id] = h
<1>1. handovers \in Seq(HandoverRow) /\ DOMAIN handovers = 1..Len(handovers) /\ Len(handovers) \in Nat
  BY LenProperties DEF HandoversTyped
<1>2. /\ handovers' \in Seq(HandoverRow) /\ Len(handovers') = Len(handovers)
      /\ \A j \in 1..Len(handovers) : handovers'[j] = IF j = id THEN h ELSE handovers[j]
  BY <1>1, ExceptSeq
<1>3. DOMAIN handovers' = DOMAIN handovers
  BY <1>1, <1>2, LenProperties
<1> QED BY <1>1, <1>2, <1>3 DEF HandoversTyped

LEMMA StatusOnly ==
  ASSUME HandoversTyped, UNCHANGED limits, NEW id \in DOMAIN handovers, NEW s \in HandoverStatuses,
         handovers' = UpdateHandoverStatus(handovers, id, s)
  PROVE  HandoversTyped'
<1> DEFINE h == [handovers[id] EXCEPT !.status = s]
<1>1. handovers[id] \in HandoverRow
  BY LenProperties, ElementOfSeq DEF HandoversTyped
<1>2. h \in HandoverRow /\ h.from = handovers[id].from /\ h.to = handovers[id].to
  BY <1>1 DEF HandoverRow
<1>3. handovers' = [handovers EXCEPT ![id] = h]
  BY DEF UpdateHandoverStatus
<1> HIDE DEF h
<1> QED BY <1>2, <1>3, HandoverWritten

-----------------------------------------------------------------------------
(* What the invariant is for.                                              *)

LEMMA TheRun ==
  ASSUME HandoversTyped, RunIsSound, run.mode # "none"
  PROVE  /\ run.id \in DOMAIN handovers /\ H \in HandoverRow /\ H.from # H.to
         /\ H.from \in Parties /\ H.to \in Parties
         /\ H.items \in Seq(FitItem) /\ Len(H.items) \in Nat /\ DOMAIN H.items = 1..Len(H.items)
         /\ \A i \in 1..Len(H.items) : H.items[i] \in FitItem
         /\ run.pos \in 1..(Len(H.items) + 1) /\ run.part \in 1..3
         /\ run.applied \in Seq(FitItem)
<1>1. run.id \in DOMAIN handovers /\ run.pos <= Len(H.items) + 1 /\ run \in RunsFrom(run.before)
  BY DEF RunIsSound
<1>2. H \in HandoverRow /\ H.from # H.to
  BY <1>1, LenProperties, ElementOfSeq DEF HandoversTyped, H
<1>3. /\ H.items \in Seq(FitItem) /\ Len(H.items) \in Nat /\ DOMAIN H.items = 1..Len(H.items)
      /\ \A i \in 1..Len(H.items) : H.items[i] \in FitItem
  BY <1>2, LenProperties, ElementOfSeq DEF HandoverRow
<1> QED BY <1>1, <1>2, <1>3 DEF HandoverRow, RunsFrom

(* A resource that has been moved exists. *)
LEMMA AppliedExist ==
  ASSUME RunIsSound, NEW type, NEW x \in AppliedItems(type)
  PROVE  x \in FitItem /\ x \in Item /\ x.type = type /\ x.key \in KeysOf(type)
<1>1. run.applied \in Seq(FitItem)
  BY DEF RunIsSound, RunsFrom
<1>2. \A i \in DOMAIN run.applied : run.applied[i] \in FitItem
  BY <1>1, LenProperties, ElementOfSeq
<1>3. x \in FitItem /\ x.type = type
  BY <1>2 DEF AppliedItems, Range
<1> QED BY <1>3 DEF FitItem

LEMMA MoreResources ==
  /\ FitItem \subseteq Item
  /\ \A s \in Seq(FitItem) : s \in Seq(Item)
<1>1. FitItem \subseteq Item
  BY DEF FitItem
<1> QED BY <1>1, SeqMonotonic

LEMMA InvariantIsEnough == HandoverInvariant => HandoverIsSound
<1> SUFFICES ASSUME HandoverInvariant PROVE HandoverIsSound
  OBVIOUS
<1>1. /\ TablesTyped /\ HandoversTyped /\ HandoverRest /\ RunIsSound /\ (LeftAlone => Traced)
  BY DEF HandoverInvariant
<1>2. HandoverRow \subseteq HandoverSet
  <2>1. Seq(FitItem) \subseteq Seq(Item)
    BY MoreResources
  <2> QED BY <2>1 DEF HandoverRow, HandoverSet
<1>3. handovers \in Seq(HandoverSet) /\ Len(handovers) <= limits.handovers
  BY <1>1, <1>2, SeqMonotonic DEF HandoversTyped
<1>4. /\ run.mode \in {"none", "check", "execute", "rollback"} /\ run.part \in 1..3
      /\ run.applied \in Seq(Item) /\ run.disturbed \in BOOLEAN
  BY <1>1, MoreResources DEF RunIsSound, RunsFrom
<1>5. run.id \in 0..Len(handovers)
  <2>1. Len(handovers) \in Nat /\ DOMAIN handovers = 1..Len(handovers)
    BY <1>3, LenProperties
  <2>2. run.mode = "none" => run.id = 0
    BY <1>1 DEF RunIsSound, NoRun
  <2> QED BY <1>1, <2>1, <2>2 DEF RunIsSound
<1>6. \A c \in DOMAIN bindings : bindings[c] \in BindingRow
  BY <1>1 DEF TablesTyped, IsQuotas
<1>7. HandoverTypes
  BY <1>1, <1>3, <1>4, <1>5, <1>6 DEF HandoverTypes, HandoverRest, TablesTyped
<1>8. UsageIsNotLost
  <2> SUFFICES ASSUME LeftAlone, NEW part \in {"used", "borrowed"}
               PROVE  Total(bindings, part) >= Total(run.before.bindings, part)
    BY DEF UsageIsNotLost, LeftAlone
  <2>1. ASSUME NEW bs, IsQuotas(bs) PROVE Total(bs, part) \in Nat
    <3> DEFINE f == [c \in DOMAIN bs |-> bs[c][part]]
    <3>1. \A c \in DOMAIN bs : f[c] \in Nat
      BY <2>1 DEF IsQuotas, BindingRow
    <3> QED BY <2>1, <3>1, SumIsNumber DEF Total, IsQuotas
  <2>2. Total(bindings, part) \in Nat /\ Total(run.before.bindings, part) \in Nat
    BY <1>1, <2>1 DEF TablesTyped, RunIsSound, IsPlaces, LeftAlone
  <2>3. Total(bindings, part) >= Total(run.before.bindings, part) + Twice(part)
    BY <1>1 DEF Traced, UsageTraced
  <2>4. Twice(part) \in Nat
    <3>1. CASE run.mode = "execute" /\ run.part = 2 /\ It.type = "quota"
      <4>1. H.from \in DOMAIN bindings
        BY <1>1, <3>1 DEF RunIsSound
      <4> QED BY <1>6, <3>1, <4>1 DEF Twice, BindingRow
    <3>2. CASE ~ (run.mode = "execute" /\ run.part = 2 /\ It.type = "quota")
      BY <3>2 DEF Twice
    <3> QED BY <3>1, <3>2
  <2> QED BY <2>2, <2>3, <2>4
<1> QED BY <1>7, <1>8 DEF HandoverIsSound

(* No execution is under way after the step. *)
LEMMA NothingUnderWay ==
  ASSUME TablesTyped', HandoversTyped', HandoverRest', run' = NoRun
  PROVE  HandoverInvariant'
<1>1. << >> \in Seq(FitItem)
  OBVIOUS
<1>2. NoRun \in RunsFrom(NoRun.before) /\ NoRun.mode = "none"
  BY <1>1 DEF NoRun, RunsFrom
<1>3. RunIsSound'
  BY <1>2 DEF RunIsSound
<1>4. Taken' /\ (LeftAlone => Traced)'
  BY <1>2 DEF Taken, LeftAlone
<1> QED BY <1>3, <1>4 DEF HandoverInvariant

(* An execution or a check that begins. *)
LEMMA BeginRunKeeps ==
  ASSUME HandoverInvariant, UNCHANGED <<limits, swept, handovers, tables, refused, stops, events>>,
         NEW id \in DOMAIN handovers, NEW mode \in {"check", "execute"}, BeginRun(mode, id),
         mode = "check" => handovers[id].status \in {"created", "prechecked"},
         mode = "execute" => handovers[id].status \in {"prechecked", "pending_receive"}
  PROVE  HandoverInvariant'
<1>1. /\ TablesTyped /\ HandoversTyped /\ HandoverRest
      /\ TablesTyped' /\ HandoversTyped' /\ HandoverRest'
  BY DEF HandoverInvariant, TablesTyped, HandoversTyped, HandoverRest, tables, IsQuotas
<1>2. /\ run'.mode = mode /\ run'.id = id /\ run'.pos = 1 /\ run'.part = 1 /\ run'.applied = << >>
      /\ run'.disturbed = FALSE /\ run'.before = IF mode = "execute" THEN Here ELSE << >>
      /\ run' = [mode |-> mode, id |-> id, pos |-> 1, part |-> 1, applied |-> << >>,
                 before |-> run'.before, disturbed |-> FALSE]
  BY DEF BeginRun, NoRun
<1>3. Range(run'.applied) = {}
  BY <1>2 DEF Range
<1>4. IsPlaces(Here)
  BY <1>1 DEF IsPlaces, Here, TablesTyped
<1>5. id \in Nat /\ Len(H'.items) \in Nat
  <2>1. id \in 1..Len(handovers) /\ Len(handovers) \in Nat /\ handovers[id] \in HandoverRow
    BY <1>1, LenProperties, ElementOfSeq DEF HandoversTyped
  <2>2. H' = handovers[id]
    BY <1>2 DEF H
  <2> QED BY <2>1, <2>2, LenProperties DEF HandoverRow
<1>6. RunIsSound'
  <2>1. run' \in RunsFrom(run'.before)
    <3> DEFINE b == run'.before
    <3>1. /\ run' = [mode |-> mode, id |-> id, pos |-> 1, part |-> 1, applied |-> << >>,
                     before |-> b, disturbed |-> FALSE]
          /\ b = run'.before
      BY <1>2
    <3>2. << >> \in Seq(FitItem)
      OBVIOUS
    <3> HIDE DEF b
    <3>3. run' \in RunsFrom(b)
      BY <1>5, <3>1, <3>2 DEF RunsFrom
    <3> QED BY <3>1, <3>3
  <2>2. run'.pos <= Len(H'.items) + 1
    BY <1>2, <1>5
  <2> QED BY <1>2, <1>4, <2>1, <2>2 DEF RunIsSound, H
<1>7. /\ \A type : AppliedItems(type)' = {}
      /\ \A type, k : ~ Moving(type, k)' /\ ~ Returning(type, k)' /\ ~ Given(type, k)'
      /\ \A k : ~ Reading(k)'
  BY <1>2, <1>3 DEF AppliedItems, Moving, Returning, Given, Reading
<1>8. Taken'
  BY <1>7 DEF Taken, TxsTaken, ReservationsTaken
<1>9. ASSUME LeftAlone' PROVE Traced'
  <2>1. mode = "execute" /\ run'.before = Here
    BY <1>2, <1>9 DEF LeftAlone
  <2>2. /\ run'.before.locks = locks' /\ run'.before.txs = txs'
        /\ run'.before.reservations = reservations' /\ run'.before.bindings = bindings'
    BY <2>1 DEF Here, tables
  <2>3. LocksTraced'
    BY <1>7, <2>2 DEF LocksTraced
  <2>4. TxsTraced' /\ ReservationsTraced'
    BY <1>7, <2>2 DEF TxsTraced, ReservationsTraced
  <2>5. AllMoved'
    BY <1>2 DEF AllMoved
  <2>6. UsageTraced'
    <3> SUFFICES ASSUME NEW part \in {"used", "borrowed"}
                 PROVE  Total(bindings', part) >= Total(run'.before.bindings, part) + Twice(part)'
      BY DEF UsageTraced
    <3>1. Twice(part)' = 0
      BY <1>2 DEF Twice
    <3>2. Total(bindings', part) \in Nat
      <4> DEFINE f == [c \in DOMAIN bindings' |-> bindings'[c][part]]
      <4>1. IsFiniteSet(DOMAIN bindings') /\ \A c \in DOMAIN bindings' : f[c] \in Nat
        BY <1>1 DEF TablesTyped, IsQuotas, BindingRow
      <4> QED BY <4>1, SumIsNumber DEF Total
    <3> QED BY <2>2, <3>1, <3>2
  <2> QED BY <2>3, <2>4, <2>5, <2>6 DEF Traced
<1> QED BY <1>1, <1>6, <1>8, <1>9 DEF HandoverInvariant

-----------------------------------------------------------------------------
(* A step of an execution is about resources of one type.                  *)

(* The same execution, before and after. *)
GoesOn ==
  /\ run.mode \in {"execute", "rollback"} /\ run'.mode \in {"execute", "rollback"}
  /\ H'.from = H.from /\ H'.to = H.to
  /\ run'.before = run.before /\ run'.disturbed = run.disturbed

(* Nothing of a type is taken or brought back. *)
Same(type) ==
  /\ AppliedItems(type)' = AppliedItems(type)
  /\ \A k : Moving(type, k)' <=> Moving(type, k)
  /\ \A k : Returning(type, k)' <=> Returning(type, k)
  /\ \A k : Given(type, k)' <=> Given(type, k)
  /\ type = "lock" => \A k : Reading(k)' <=> Reading(k)

LEMMA SameLocks ==
  ASSUME GoesOn, Same("lock"), locks' = locks, LocksTraced
  PROVE  LocksTraced'
BY DEF GoesOn, Same, LocksTraced

LEMMA SameTxs ==
  ASSUME GoesOn, Same("orch_tx"), txs' = txs
  PROVE  (TxsTaken => TxsTaken') /\ (TxsTraced => TxsTraced')
BY DEF GoesOn, Same, TxsTaken, TxsTraced

LEMMA SameReservations ==
  ASSUME GoesOn, Same("reservation"), reservations' = reservations
  PROVE  /\ ReservationsTaken => ReservationsTaken'
         /\ ReservationsTraced => ReservationsTraced'
BY DEF GoesOn, Same, ReservationsTaken, ReservationsTraced

LEMMA SameUsage ==
  ASSUME GoesOn, bindings' = bindings, UsageTraced,
         \A part \in {"used", "borrowed"} : Twice(part)' = Twice(part)
  PROVE  UsageTraced'
BY DEF GoesOn, UsageTraced, Total

(* A statement that another one follows. *)
LEMMA GoFacts ==
  ASSUME HandoversTyped, RunIsSound, UNCHANGED limits, run.mode = "execute", run.pos <= Len(H.items),
         Go, It.type \in {"lock", "quota", "orch_tx"}, run.part \in 1..2,
         run.part = 2 => It.type = "lock",
         It.type = "quota" => H.from \in DOMAIN bindings'
  PROVE  /\ GoesOn /\ HandoversTyped' /\ RunIsSound'
         /\ run'.mode = "execute" /\ run'.part = run.part + 1 /\ run'.pos = run.pos
         /\ H' = H /\ It' = It
         /\ \A type : AppliedItems(type)' = AppliedItems(type)
         /\ \A type, k : ~ Returning(type, k) /\ ~ Returning(type, k)'
         /\ \A type : type # It.type => Same(type)
<1>1. /\ run \in RunsFrom(run.before) /\ handovers' = handovers
      /\ run' = [run EXCEPT !.part = run.part + 1]
  BY DEF RunIsSound, Go
<1>2. /\ run'.mode = run.mode /\ run'.id = run.id /\ run'.pos = run.pos /\ run'.part = run.part + 1
      /\ run'.applied = run.applied /\ run'.before = run.before /\ run'.disturbed = run.disturbed
  BY <1>1 DEF RunsFrom
<1>3. H' = H /\ It' = It
  BY <1>1, <1>2 DEF H, It
<1>4. GoesOn
  BY <1>2, <1>3 DEF GoesOn
<1>5. HandoversTyped'
  BY <1>1 DEF HandoversTyped
<1>6. run' \in RunsFrom(run'.before)
  <2>1. run.part + 1 \in 1..3
    OBVIOUS
  <2> QED BY <1>1, <1>2, <2>1 DEF RunsFrom
<1>7. RunIsSound'
  BY <1>1, <1>2, <1>3, <1>6 DEF RunIsSound
<1>8. \A type : AppliedItems(type)' = AppliedItems(type)
  BY <1>2 DEF AppliedItems
<1>9. \A type, k : ~ Returning(type, k) /\ ~ Returning(type, k)'
  BY <1>2 DEF Returning
<1>10. ASSUME NEW type, type # It.type PROVE Same(type)
  <2>1. \A k : ~ Moving(type, k) /\ ~ Moving(type, k)'
    BY <1>3, <1>10 DEF Moving
  <2>2. type = "lock" => \A k : ~ Reading(k) /\ ~ Reading(k)'
    BY <1>3, <1>10 DEF Reading
  <2> QED BY <1>8, <1>9, <2>1, <2>2 DEF Same, Given
<1> QED BY <1>2, <1>3, <1>4, <1>5, <1>7, <1>8, <1>9, <1>10

(* The last statement for a resource. *)
LEMMA AppliedFacts ==
  ASSUME HandoversTyped, RunIsSound, UNCHANGED limits, run.mode = "execute", run.pos <= Len(H.items),
         ItemApplied
  PROVE  /\ GoesOn /\ HandoversTyped' /\ RunIsSound' /\ It \in FitItem
         /\ run'.mode = "execute" /\ run'.part = 1 /\ run'.pos = run.pos + 1
         /\ Len(H'.items) = Len(H.items)
         /\ \A i \in 1..Len(H.items) : H'.items[i].type = H.items[i].type /\ H'.items[i].key = H.items[i].key
         /\ \A type : type = It.type => AppliedItems(type)' = AppliedItems(type) \cup {It}
         /\ \A type, k : ~ Returning(type, k) /\ ~ Returning(type, k)' /\ ~ Moving(type, k)'
         /\ \A k : ~ Reading(k)'
         /\ \A type : type # It.type => Same(type)
<1>1. /\ run.id \in DOMAIN handovers /\ H \in HandoverRow /\ H.items \in Seq(FitItem)
      /\ Len(H.items) \in Nat /\ \A i \in 1..Len(H.items) : H.items[i] \in FitItem
      /\ run.pos \in 1..Len(H.items) /\ run.applied \in Seq(FitItem)
      /\ run \in RunsFrom(run.before)
  BY TheRun DEF RunIsSound
<1>2. It = H.items[run.pos] /\ It \in FitItem
  BY <1>1 DEF It
<1> DEFINE x == [It EXCEPT !.executed = TRUE]
           h == [H EXCEPT !.items = [H.items EXCEPT ![run.pos] = x]]
<1>3. x \in FitItem /\ x.type = It.type /\ x.key = It.key
  BY <1>2 DEF FitItem, Item
<1>4. /\ h.items = [H.items EXCEPT ![run.pos] = x]
      /\ h.from = H.from /\ h.to = H.to /\ h.status = H.status
  BY <1>1 DEF HandoverRow
<1>5. /\ [H.items EXCEPT ![run.pos] = x] \in Seq(FitItem)
      /\ Len([H.items EXCEPT ![run.pos] = x]) = Len(H.items)
      /\ \A i \in 1..Len(H.items) :
           [H.items EXCEPT ![run.pos] = x][i] = IF i = run.pos THEN x ELSE H.items[i]
  <2> HIDE DEF x
  <2> QED BY <1>1, <1>3, ExceptSeq
<1>6. h \in HandoverRow
  <2> HIDE DEF x
  <2> QED BY <1>1, <1>5 DEF HandoverRow
<1>7. handovers' = [handovers EXCEPT ![run.id] = h]
  BY <1>1 DEF ItemApplied, H, It
<1>8. HandoversTyped' /\ DOMAIN handovers' = DOMAIN handovers /\ handovers'[run.id] = h
  <2> HIDE DEF h
  <2> QED BY <1>1, <1>4, <1>6, <1>7, HandoverWritten DEF H
<1>9. run' = [run EXCEPT !.pos = run.pos + 1, !.part = 1, !.applied = Append(run.applied, It)]
  BY DEF ItemApplied
<1>10. /\ run'.mode = run.mode /\ run'.id = run.id /\ run'.pos = run.pos + 1 /\ run'.part = 1
       /\ run'.applied = Append(run.applied, It) /\ run'.before = run.before
       /\ run'.disturbed = run.disturbed
  BY <1>1, <1>9 DEF RunsFrom
<1>11. /\ H'.from = H.from /\ H'.to = H.to /\ H'.status = H.status /\ Len(H'.items) = Len(H.items)
       /\ \A i \in 1..Len(H.items) : H'.items[i].type = H.items[i].type /\ H'.items[i].key = H.items[i].key
  <2>1. H' = h
    BY <1>8, <1>10 DEF H
  <2> HIDE DEF h, x
  <2> QED BY <1>2, <1>3, <1>4, <1>5, <2>1
<1> HIDE DEF h, x
<1>12. GoesOn
  BY <1>10, <1>11 DEF GoesOn
<1>13. Append(run.applied, It) \in Seq(FitItem) /\ Range(run'.applied) = Range(run.applied) \cup {It}
  BY <1>1, <1>2, <1>10, RangeOfAppend
<1>14. run' \in RunsFrom(run'.before)
  <2> DEFINE b == run.before
             a == Append(run.applied, It)
             p == run.pos + 1
  <2>1. /\ run \in RunsFrom(b) /\ run' = [run EXCEPT !.pos = p, !.part = 1, !.applied = a]
        /\ a \in Seq(FitItem) /\ p \in Nat \ {0} /\ run'.before = b
    BY <1>1, <1>9, <1>10, <1>13
  <2> HIDE DEF a, b, p
  <2>2. run' = [mode |-> run.mode, id |-> run.id, pos |-> p, part |-> 1, applied |-> a,
                before |-> run.before, disturbed |-> run.disturbed]
    BY <2>1 DEF RunsFrom
  <2>3. /\ run.mode \in {"none", "check", "execute", "rollback"} /\ run.id \in Nat
        /\ run.before = b /\ run.disturbed \in BOOLEAN /\ 1 \in 1..3
    BY <2>1 DEF RunsFrom
  <2>4. run' \in RunsFrom(b)
    BY <2>1, <2>2, <2>3 DEF RunsFrom
  <2> QED BY <2>1, <2>4
<1>15. RunIsSound'
  <2>1. run'.pos <= Len(H'.items) + 1
    BY <1>1, <1>10, <1>11
  <2>2. run'.id \in DOMAIN handovers'
    BY <1>1, <1>8, <1>10
  <2>3. H'.status \in {"prechecked", "pending_receive"} /\ IsPlaces(run'.before)
    BY <1>10, <1>11 DEF RunIsSound
  <2> QED BY <1>10, <1>14, <2>1, <2>2, <2>3 DEF RunIsSound
<1>16. \A type : AppliedItems(type)' = {y \in Range(run.applied) \cup {It} : y.type = type}
  BY <1>13 DEF AppliedItems
<1>17. ASSUME NEW type, type = It.type PROVE AppliedItems(type)' = AppliedItems(type) \cup {It}
  BY <1>16, <1>17 DEF AppliedItems
<1>18. /\ \A type, k : ~ Returning(type, k) /\ ~ Returning(type, k)' /\ ~ Moving(type, k)'
       /\ \A k : ~ Reading(k)'
  BY <1>10 DEF Returning, Moving, Reading
<1>19. ASSUME NEW type, type # It.type PROVE Same(type)
  <2>1. \A k : ~ Moving(type, k)
    BY <1>19 DEF Moving
  <2>2. type = "lock" => \A k : ~ Reading(k)
    BY <1>19 DEF Reading
  <2>3. AppliedItems(type)' = AppliedItems(type)
    BY <1>16, <1>19 DEF AppliedItems
  <2> QED BY <1>18, <2>1, <2>2, <2>3 DEF Same, Given
<1> QED BY <1>2, <1>8, <1>10, <1>11, <1>12, <1>15, <1>17, <1>18, <1>19

(* A transfer that stops takes nothing more. *)
LEMMA FailKeeps ==
  ASSUME HandoverInvariant, UNCHANGED <<limits, swept, tables, refused, stops, events>>,
         run.mode = "execute", run.pos <= Len(H.items), run.part = 1, Fail
  PROVE  HandoverInvariant'
<1>1. /\ TablesTyped /\ HandoversTyped /\ HandoverRest /\ RunIsSound /\ Taken
      /\ TablesTyped' /\ HandoversTyped' /\ HandoverRest'
  BY DEF HandoverInvariant, TablesTyped, HandoversTyped, HandoverRest, tables, IsQuotas, Fail
<1>2. run \in RunsFrom(run.before) /\ run' = [run EXCEPT !.mode = "rollback"] /\ handovers' = handovers
  BY <1>1 DEF RunIsSound, Fail
<1>3. /\ run'.mode = "rollback" /\ run'.id = run.id /\ run'.pos = run.pos /\ run'.part = 1
      /\ run'.applied = run.applied /\ run'.before = run.before /\ run'.disturbed = run.disturbed
  BY <1>2 DEF RunsFrom
<1>4. H' = H /\ GoesOn
  BY <1>2, <1>3 DEF H, GoesOn
<1>5. /\ \A type : AppliedItems(type)' = AppliedItems(type)
      /\ \A type, k : /\ ~ Moving(type, k) /\ ~ Moving(type, k)'
                      /\ ~ Returning(type, k) /\ ~ Returning(type, k)'
      /\ \A k : ~ Reading(k) /\ ~ Reading(k)'
  BY <1>3 DEF AppliedItems, Moving, Returning, Reading
<1>6. \A type : Same(type)
  BY <1>5 DEF Same, Given
<1>7. run' \in RunsFrom(run'.before)
  BY <1>2, <1>3 DEF RunsFrom
<1>8. RunIsSound'
  BY <1>1, <1>2, <1>3, <1>4, <1>7 DEF RunIsSound
<1>9. locks' = locks /\ txs' = txs /\ reservations' = reservations /\ bindings' = bindings
  BY DEF tables
<1>10. Taken'
  BY <1>1, <1>4, <1>6, <1>9, SameTxs, SameReservations DEF Taken
<1>11. ASSUME LeftAlone' PROVE Traced'
  <2>1. Traced
    BY <1>3, <1>11 DEF HandoverInvariant, LeftAlone
  <2>2. \A part : Twice(part)' = 0 /\ Twice(part) = 0
    BY <1>3 DEF Twice
  <2>3. AllMoved'
    BY <1>3 DEF AllMoved
  <2> QED BY <1>4, <1>6, <1>9, <2>1, <2>2, <2>3, SameLocks, SameTxs, SameReservations, SameUsage DEF Traced
<1> QED BY <1>1, <1>8, <1>10, <1>11 DEF HandoverInvariant

(* What has been moved stays moved when another statement is executed. *)
LEMMA MovesOn ==
  ASSUME HandoversTyped, RunIsSound, run.mode = "execute", AllMoved, H'.to = H.to,
         \A x \in FitItem : IsMoved(x) => IsMoved(x)',
         \/ run'.pos = run.pos /\ H' = H
         \/ /\ run'.pos = run.pos + 1 /\ run.pos <= Len(H.items)
            /\ \A i \in 1..Len(H.items) :
                 H'.items[i].type = H.items[i].type /\ H'.items[i].key = H.items[i].key
            /\ \A x : x = It => IsMoved(x)'
  PROVE  AllMoved'
<1> SUFFICES ASSUME NEW i \in 1..(run'.pos - 1) PROVE IsMoved(H.items[i])'
  BY DEF AllMoved
<1>1. /\ Len(H.items) \in Nat /\ run.pos \in 1..(Len(H.items) + 1)
      /\ \A j \in 1..Len(H.items) : H.items[j] \in FitItem
  BY TheRun
<1>2. ASSUME i \in 1..(run.pos - 1) PROVE IsMoved(H.items[i])'
  <2>1. i \in 1..Len(H.items) /\ H.items[i] \in FitItem /\ IsMoved(H.items[i])
    BY <1>1, <1>2 DEF AllMoved
  <2>2. H'.items[i].type = H.items[i].type /\ H'.items[i].key = H.items[i].key
    BY <2>1
  <2>3. \A x : x = H.items[i] => IsMoved(x)'
    BY <2>1
  <2> QED BY <2>2, <2>3 DEF IsMoved
<1>3. ASSUME ~ (i \in 1..(run.pos - 1)) PROVE IsMoved(H.items[i])'
  <2>1. run'.pos = run.pos + 1 /\ i = run.pos /\ run.pos \in 1..Len(H.items)
    BY <1>1, <1>3
  <2>2. H'.items[i].type = It.type /\ H'.items[i].key = It.key
    BY <2>1 DEF It
  <2>3. \A x : x = It => IsMoved(x)'
    BY <2>1
  <2> QED BY <2>2, <2>3 DEF IsMoved
<1> QED BY <1>2, <1>3

(* A lock changes hands: read, written, and its lease. *)
LEMMA LockTransferKeeps ==
  ASSUME HandoverInvariant, UNCHANGED <<limits, swept, refused, stops, events>>,
         run.mode = "execute", run.pos <= Len(H.items), It.type = "lock", ExecuteLockTransfer(It.key)
  PROVE  HandoverInvariant'
<1> DEFINE l == It.key
<1>1. /\ TablesTyped /\ HandoversTyped /\ HandoverRest /\ RunIsSound /\ Taken
      /\ TxsTaken /\ ReservationsTaken /\ HandoverRest'
  BY DEF HandoverInvariant, HandoverRest, Taken
<1>2. /\ H.from # H.to /\ H.from \in Parties /\ H.to \in Parties /\ H.from # NoParty /\ H.to # NoParty
      /\ l \in Locks /\ locks[l] \in HolderRows
  <2>1. It \in FitItem
    BY <1>1, TheRun DEF It
  <2>2. l \in Locks
    BY <2>1, Kinds DEF FitItem
  <2> QED BY <1>1, <2>2, TheRun, HandoverAssumption DEF TablesTyped
<1>3. locks \in [Locks -> HolderRows] /\ \A k \in Locks : locks[k] \in HolderRows
  BY <1>1 DEF TablesTyped
<1>4. \A x \in AppliedItems("lock") : x.key \in Locks
  BY <1>1, AppliedExist, Kinds
<1>5. CASE run.part = 1
  <2>1. CASE locks[l].holder # H.from
    BY <1>5, <2>1, FailKeeps DEF ExecuteLockTransfer
  <2>2. CASE locks[l].holder = H.from
    <3>1. Go /\ UNCHANGED tables
      BY <1>5, <2>2 DEF ExecuteLockTransfer
    <3>2. /\ GoesOn /\ HandoversTyped' /\ RunIsSound'
          /\ run'.mode = "execute" /\ run'.part = 2 /\ run'.pos = run.pos /\ H' = H /\ It' = It
          /\ \A type : AppliedItems(type)' = AppliedItems(type)
          /\ \A type, k : ~ Returning(type, k) /\ ~ Returning(type, k)'
          /\ \A type : type # "lock" => Same(type)
      BY <1>1, <1>5, <3>1, GoFacts
    <3>3. /\ locks' = locks /\ txs' = txs /\ reservations' = reservations /\ bindings' = bindings
          /\ TablesTyped'
      BY <1>1, <3>1 DEF tables, TablesTyped, IsQuotas
    <3>4. Taken'
      BY <1>1, <3>2, <3>3, SameTxs, SameReservations DEF Taken
    <3>5. ASSUME LeftAlone' PROVE Traced'
      <4>1. Traced
        BY <3>2, <3>5 DEF HandoverInvariant, LeftAlone, GoesOn
      <4>2. /\ \A k : ~ Moving("lock", k) /\ ~ Moving("lock", k)'
            /\ \A k : Reading(k)' => k = l
        BY <1>5, <3>2 DEF Moving, Reading
      <4>3. LocksTraced'
        BY <2>2, <3>2, <3>3, <4>1, <4>2 DEF Traced, LocksTraced, GoesOn, Given
      <4>4. TxsTraced' /\ ReservationsTraced'
        BY <3>2, <3>3, <4>1, SameTxs, SameReservations DEF Traced
      <4>5. \A x \in FitItem : IsMoved(x) => IsMoved(x)'
        BY <3>2, <3>3 DEF IsMoved
      <4>6. AllMoved'
        BY <1>1, <3>2, <4>1, <4>5, MovesOn DEF Traced
      <4>7. \A part : Twice(part)' = Twice(part)
        BY <3>2 DEF Twice
      <4> QED BY <3>2, <3>3, <4>1, <4>3, <4>4, <4>6, <4>7, SameUsage DEF Traced
    <3> QED BY <1>1, <3>2, <3>3, <3>4, <3>5 DEF HandoverInvariant
  <2> QED BY <2>1, <2>2
<1>6. CASE run.part = 2
  <2>1. /\ Go /\ locks' = [locks EXCEPT ![l].holder = H.to]
        /\ txs' = txs /\ reservations' = reservations /\ bindings' = bindings
    BY <1>6 DEF ExecuteLockTransfer
  <2>2. /\ GoesOn /\ HandoversTyped' /\ RunIsSound'
        /\ run'.mode = "execute" /\ run'.part = 3 /\ run'.pos = run.pos /\ H' = H /\ It' = It
        /\ \A type : AppliedItems(type)' = AppliedItems(type)
        /\ \A type, k : ~ Returning(type, k) /\ ~ Returning(type, k)'
        /\ \A type : type # "lock" => Same(type)
    BY <1>1, <1>6, <2>1, GoFacts
  <2>3. /\ locks'[l].holder = H.to /\ locks'[l].lease = locks[l].lease
        /\ \A k \in Locks : k # l => locks'[k] = locks[k]
        /\ locks' \in [Locks -> HolderRows]
    BY <1>2, <1>3, <2>1 DEF HolderRows
  <2>4. TablesTyped'
    BY <1>1, <2>1, <2>3 DEF TablesTyped, IsQuotas
  <2>5. Taken'
    BY <1>1, <2>1, <2>2, SameTxs, SameReservations DEF Taken
  <2>6. ASSUME LeftAlone' PROVE Traced'
    <3>1. Traced
      BY <2>2, <2>6 DEF HandoverInvariant, LeftAlone, GoesOn
    <3>2. /\ \A k : ~ Moving("lock", k) /\ (Moving("lock", k)' <=> k = l)
          /\ \A k : ~ Reading(k)' /\ (Reading(k) <=> k = l)
      BY <1>6, <2>2 DEF Moving, Reading
    <3>3. LocksTraced
      BY <3>1 DEF Traced
    <3>4. locks[l].holder = H.from /\ ~ Given("lock", l) /\ run.before.locks[l].holder = H.from
      BY <1>2, <3>2, <3>3 DEF LocksTraced
    <3>5. \A k \in Locks : Given("lock", k)' <=> (k = l \/ Given("lock", k))
      BY <2>2, <3>2 DEF Given
    <3>6. ASSUME NEW k \in Locks
          PROVE  /\ locks'[k].lease = NoParty <=> run'.before.locks[k].lease = NoParty
                 /\ IF Given("lock", k)'
                    THEN run'.before.locks[k].holder = H'.from /\ locks'[k].holder = H'.to
                    ELSE /\ locks'[k].holder = run'.before.locks[k].holder
                         /\ locks'[k].lease \in {run'.before.locks[k].lease, run'.before.locks[k].holder}
      <4>1. CASE k = l
        BY <2>2, <2>3, <3>3, <3>4, <3>5, <4>1 DEF LocksTraced, GoesOn
      <4>2. CASE k # l
        BY <2>2, <2>3, <3>3, <3>5, <4>2 DEF LocksTraced, GoesOn
      <4> QED BY <4>1, <4>2
    <3>7. \A x \in AppliedItems("lock") : ~ Moving("lock", x.key)'
      BY <3>2, <3>4 DEF Given
    <3>8. LocksTraced'
      BY <2>2, <3>2, <3>3, <3>6, <3>7 DEF LocksTraced
    <3>9. TxsTraced' /\ ReservationsTraced'
      BY <2>1, <2>2, <3>1, SameTxs, SameReservations DEF Traced
    <3>10. \A x \in FitItem : IsMoved(x) => IsMoved(x)'
      <4> SUFFICES ASSUME NEW x \in FitItem, IsMoved(x) PROVE IsMoved(x)'
        OBVIOUS
      <4>1. x.type = "lock" => x.key \in Locks
        BY Kinds DEF FitItem
      <4> QED BY <2>1, <2>2, <2>3, <4>1 DEF IsMoved
    <3>11. AllMoved'
      BY <1>1, <2>2, <3>1, <3>10, MovesOn DEF Traced
    <3>12. \A part : Twice(part)' = Twice(part)
      BY <2>2 DEF Twice
    <3> QED BY <2>1, <2>2, <3>1, <3>8, <3>9, <3>11, <3>12, SameUsage DEF Traced
  <2> QED BY <1>1, <2>2, <2>4, <2>5, <2>6 DEF HandoverInvariant
<1>7. CASE run.part = 3
  <2>1. /\ ItemApplied /\ locks' = [locks EXCEPT ![l].lease = IF @ = NoParty THEN @ ELSE H.to]
        /\ txs' = txs /\ reservations' = reservations /\ bindings' = bindings
    BY <1>7 DEF ExecuteLockTransfer
  <2>2. /\ GoesOn /\ HandoversTyped' /\ RunIsSound'
        /\ run'.mode = "execute" /\ run'.part = 1 /\ run'.pos = run.pos + 1
        /\ \A i \in 1..Len(H.items) : H'.items[i].type = H.items[i].type /\ H'.items[i].key = H.items[i].key
        /\ AppliedItems("lock")' = AppliedItems("lock") \cup {It}
        /\ \A type, k : ~ Returning(type, k) /\ ~ Returning(type, k)' /\ ~ Moving(type, k)'
        /\ \A k : ~ Reading(k)'
        /\ \A type : type # "lock" => Same(type)
    BY <1>1, <2>1, AppliedFacts
  <2>3. /\ locks'[l].holder = locks[l].holder
        /\ locks'[l].lease = IF locks[l].lease = NoParty THEN NoParty ELSE H.to
        /\ \A k \in Locks : k # l => locks'[k] = locks[k]
        /\ locks' \in [Locks -> HolderRows]
    BY <1>2, <1>3, <2>1 DEF HolderRows
  <2>4. TablesTyped'
    BY <1>1, <2>1, <2>3 DEF TablesTyped, IsQuotas
  <2>5. Taken'
    BY <1>1, <2>1, <2>2, SameTxs, SameReservations DEF Taken
  <2>6. ASSUME LeftAlone' PROVE Traced'
    <3>1. Traced /\ LocksTraced
      BY <2>2, <2>6 DEF HandoverInvariant, LeftAlone, GoesOn, Traced
    <3>2. \A k : Moving("lock", k) <=> k = l
      BY <1>7 DEF Moving
    <3>3. \A k \in Locks : Given("lock", k)' <=> Given("lock", k)
      BY <2>2, <3>2 DEF Given
    <3>4. Given("lock", l) /\ locks[l].holder = H.to /\ run.before.locks[l].holder = H.from
      BY <1>2, <3>1, <3>2 DEF Given, LocksTraced
    <3>5. ASSUME NEW k \in Locks
          PROVE  /\ locks'[k].lease = NoParty <=> run'.before.locks[k].lease = NoParty
                 /\ IF Given("lock", k)'
                    THEN run'.before.locks[k].holder = H'.from /\ locks'[k].holder = H'.to
                    ELSE /\ locks'[k].holder = run'.before.locks[k].holder
                         /\ locks'[k].lease \in {run'.before.locks[k].lease, run'.before.locks[k].holder}
      <4>1. CASE k = l
        BY <1>2, <2>2, <2>3, <3>1, <3>3, <3>4, <4>1 DEF LocksTraced, GoesOn
      <4>2. CASE k # l
        BY <2>2, <2>3, <3>1, <3>3, <4>2 DEF LocksTraced, GoesOn
      <4> QED BY <4>1, <4>2
    <3>6. \A x \in AppliedItems("lock") : x.key # l
      BY <3>1, <3>2 DEF LocksTraced
    <3>7. \A x, y \in AppliedItems("lock") \cup {It} : x.key = y.key => x = y
      BY <3>1, <3>6 DEF LocksTraced
    <3>8. LocksTraced'
      BY <2>2, <3>5, <3>7 DEF LocksTraced
    <3>9. TxsTraced' /\ ReservationsTraced'
      BY <2>1, <2>2, <3>1, SameTxs, SameReservations DEF Traced
    <3>10. \A x \in FitItem : IsMoved(x) => IsMoved(x)'
      <4> SUFFICES ASSUME NEW x \in FitItem, IsMoved(x) PROVE IsMoved(x)'
        OBVIOUS
      <4>1. x.type = "lock" => x.key \in Locks
        BY Kinds DEF FitItem
      <4> QED BY <2>1, <2>2, <2>3, <4>1 DEF IsMoved, GoesOn
    <3>11. \A x : x = It => IsMoved(x)'
      BY <2>2, <2>3, <3>4 DEF IsMoved, GoesOn
    <3>12. AllMoved'
      BY <1>1, <2>2, <3>1, <3>10, <3>11, MovesOn DEF Traced, GoesOn
    <3>13. \A part : Twice(part)' = 0 /\ Twice(part) = 0
      BY <2>2 DEF Twice
    <3> QED BY <2>1, <2>2, <3>1, <3>8, <3>9, <3>12, <3>13, SameUsage DEF Traced
  <2> QED BY <1>1, <2>2, <2>4, <2>5, <2>6 DEF HandoverInvariant
<1> QED BY <1>1, <1>5, <1>6, <1>7, TheRun

(* One row of the quota table written. *)
LEMMA QuotaRowTyped ==
  ASSUME NEW bs, IsQuotas(bs), NEW c \in Parties, NEW b \in BindingRow, NEW new,
         new = [x \in DOMAIN bs \cup {c} |-> IF x = c THEN b ELSE bs[x]]
  PROVE  IsQuotas(new)
<1>1. IsFiniteSet(DOMAIN bs \cup {c}) /\ DOMAIN bs \cup {c} \subseteq Parties
  BY FS_AddElement DEF IsQuotas
<1>2. \A x \in DOMAIN bs : bs[x] \in BindingRow
  BY DEF IsQuotas
<1>3. new \in [DOMAIN bs \cup {c} -> BindingRow] /\ DOMAIN new = DOMAIN bs \cup {c}
  BY <1>2
<1> QED BY <1>1, <1>3 DEF IsQuotas

LEMMA QuotaRowWritten ==
  ASSUME NEW bs, IsQuotas(bs), NEW c \in Parties, NEW b \in BindingRow, NEW new,
         new = [x \in DOMAIN bs \cup {c} |-> IF x = c THEN b ELSE bs[x]]
  PROVE  /\ IsQuotas(new)
         /\ \A part \in {"used", "borrowed"} :
              /\ Total(bs, part) \in Nat /\ Total(new, part) \in Nat
              /\ b[part] \in Nat /\ (c \in DOMAIN bs => bs[c][part] \in Nat)
              /\ Total(new, part) =
                   Total(bs, part) + (b[part] - IF c \in DOMAIN bs THEN bs[c][part] ELSE 0)
<1> DEFINE D == DOMAIN bs
           E == D \cup {c}
<1>1. IsFiniteSet(D) /\ IsFiniteSet(E) /\ D \subseteq Parties /\ DOMAIN new = E
  BY FS_AddElement DEF IsQuotas
<1>2. \A x \in D : bs[x] \in BindingRow
  BY DEF IsQuotas
<1>3. /\ \A x \in E : new[x] \in BindingRow /\ new[x] = IF x = c THEN b ELSE bs[x]
      /\ new \in [E -> BindingRow]
  BY <1>2
<1>4. IsQuotas(new)
  BY <1>1, <1>3 DEF IsQuotas
<1>5. ASSUME NEW part \in {"used", "borrowed"}
      PROVE  /\ Total(bs, part) \in Nat /\ Total(new, part) \in Nat
             /\ b[part] \in Nat /\ (c \in DOMAIN bs => bs[c][part] \in Nat)
             /\ Total(new, part) =
                  Total(bs, part) + (b[part] - IF c \in DOMAIN bs THEN bs[c][part] ELSE 0)
  <2> DEFINE f == [x \in D |-> bs[x][part]]
             g == [x \in E |-> new[x][part]]
  <2>1. Total(bs, part) = SumFunctionOnSet(f, D) /\ Total(new, part) = SumFunctionOnSet(g, E)
    BY <1>1 DEF Total
  <2>2. b[part] \in Nat /\ (\A x \in D : bs[x][part] \in Nat) /\ \A x \in E : new[x][part] \in Nat
    BY <1>2, <1>3 DEF BindingRow
  <2>3. /\ \A x \in D : f[x] \in Nat /\ f[x] = bs[x][part]
        /\ \A x \in E : g[x] \in Nat /\ g[x] = new[x][part]
        /\ g[c] = b[part] /\ \A x \in D \ {c} : g[x] = f[x]
    BY <1>3, <2>2
  <2> HIDE DEF f, g
  <2>4. SumFunctionOnSet(f, D) \in Nat /\ SumFunctionOnSet(g, E) \in Nat
    BY <1>1, <2>3, SumIsNumber
  <2>5. CASE c \in D
    <3>1. E = D
      BY <2>5
    <3>2. /\ \A x \in D : f[x] \in Int /\ g[x] \in Int
          /\ \A x \in D \ {c} : f[x] = g[x]
      <4> HIDE DEF D, E
      <4>1. \A x \in D : f[x] \in Nat /\ g[x] \in Nat
        BY <2>3, <3>1
      <4>2. \A x \in D \ {c} : f[x] = g[x]
        BY <2>3
      <4> QED BY <4>1, <4>2
    <3>3. SumFunctionOnSet(g, D) = SumFunctionOnSet(f, D) + (g[c] - f[c])
      BY <1>1, <2>5, <3>2, SumChanges
    <3> QED BY <2>1, <2>2, <2>3, <2>4, <2>5, <3>1, <3>3
  <2>6. CASE c \notin D
    <3>1. E \ {c} = D /\ c \in E
      BY <2>6
    <3>2. SumFunctionOnSet(g, E) = g[c] + SumFunctionOnSet(g, E \ {c})
      BY <1>1, <2>3, <3>1, SumWithout
    <3>3. SumFunctionOnSet(g, D) = SumFunctionOnSet(f, D)
      BY <1>1, <2>3, <2>6, SumOfTheSame
    <3> QED BY <2>1, <2>2, <2>3, <2>4, <2>6, <3>1, <3>2, <3>3
  <2> QED BY <2>5, <2>6
<1> QED BY <1>4, <1>5

(* Quota is given: it is with both for a moment, never with neither. *)
LEMMA QuotaTransferKeeps ==
  ASSUME HandoverInvariant, UNCHANGED <<limits, swept, refused, stops, events>>,
         run.mode = "execute", run.pos <= Len(H.items), It.type = "quota", ExecuteQuotaTransfer
  PROVE  HandoverInvariant'
<1>1. /\ TablesTyped /\ HandoversTyped /\ HandoverRest /\ RunIsSound /\ Taken
      /\ TxsTaken /\ ReservationsTaken /\ HandoverRest' /\ IsQuotas(bindings)
  BY DEF HandoverInvariant, HandoverRest, Taken, TablesTyped
<1>2. H.from # H.to /\ H.from \in Parties /\ H.to \in Parties
  BY <1>1, TheRun
<1>3. \A c \in DOMAIN bindings : bindings[c] \in BindingRow
  BY <1>1 DEF IsQuotas
<1>4. CASE run.part = 1
  <2>1. CASE H.from \notin DOMAIN bindings
    BY <1>4, <2>1, FailKeeps DEF ExecuteQuotaTransfer, tables
  <2>2. CASE H.from \in DOMAIN bindings
    <3> DEFINE b == Received(H.from, H.to)
    <3>1. /\ Go /\ PutBinding(H.to, b) /\ locks' = locks /\ txs' = txs /\ reservations' = reservations
      BY <1>4, <2>2 DEF ExecuteQuotaTransfer
    <3>2. bindings' = [x \in DOMAIN bindings \cup {H.to} |-> IF x = H.to THEN b ELSE bindings[x]]
      BY <3>1 DEF PutBinding
    <3>3. /\ b \in BindingRow
          /\ \A part \in {"used", "borrowed"} :
               b[part] = bindings[H.from][part]
                           + IF H.to \in DOMAIN bindings THEN bindings[H.to][part] ELSE 0
      <4>1. CASE H.to \in DOMAIN bindings
        <5>1. bindings[H.from] \in BindingRow /\ bindings[H.to] \in BindingRow
          BY <1>3, <2>2, <4>1
        <5>2. b = [bindings[H.to] EXCEPT !.used = bindings[H.to].used + bindings[H.from].used,
                                         !.borrowed = bindings[H.to].borrowed + bindings[H.from].borrowed]
          BY <4>1 DEF Received
        <5> HIDE DEF b
        <5> DEFINE u == bindings[H.to].used + bindings[H.from].used
                   v == bindings[H.to].borrowed + bindings[H.from].borrowed
        <5>3. u \in Nat /\ v \in Nat
          <6>1. /\ bindings[H.to].used \in Nat /\ bindings[H.from].used \in Nat
                /\ bindings[H.to].borrowed \in Nat /\ bindings[H.from].borrowed \in Nat
            BY <5>1 DEF BindingRow
          <6> QED BY <6>1
        <5>4. /\ b \in BindingRow /\ b.used = u /\ b.borrowed = v
          <6> DEFINE row == bindings[H.to]
          <6>1. b = [row EXCEPT !.used = u, !.borrowed = v] /\ row \in BindingRow
            BY <5>1, <5>2
          <6> HIDE DEF row, u, v
          <6> QED BY <5>3, <6>1 DEF BindingRow
        <5> QED BY <4>1, <5>1, <5>3, <5>4 DEF BindingRow
      <4>2. CASE H.to \notin DOMAIN bindings
        <5>1. bindings[H.from] \in BindingRow /\ b = bindings[H.from]
          BY <1>3, <2>2, <4>2 DEF Received
        <5> HIDE DEF b
        <5> QED BY <4>2, <5>1 DEF BindingRow
      <4> QED BY <4>1, <4>2
    <3> HIDE DEF b
    <3>4. /\ IsQuotas(bindings')
          /\ \A part \in {"used", "borrowed"} :
               /\ Total(bindings, part) \in Nat /\ Total(bindings', part) \in Nat
               /\ b[part] \in Nat /\ (H.to \in DOMAIN bindings => bindings[H.to][part] \in Nat)
               /\ Total(bindings', part) = Total(bindings, part)
                    + (b[part] - IF H.to \in DOMAIN bindings THEN bindings[H.to][part] ELSE 0)
      <4> DEFINE c == H.to
                 new == bindings'
      <4>1. /\ IsQuotas(bindings) /\ c \in Parties /\ b \in BindingRow
            /\ new = [x \in DOMAIN bindings \cup {c} |-> IF x = c THEN b ELSE bindings[x]]
        BY <1>1, <1>2, <3>2, <3>3
      <4> HIDE DEF c, new
      <4>2. IsQuotas(new)
        BY <4>1, QuotaRowTyped
      <4>3. ASSUME NEW part \in {"used", "borrowed"}
            PROVE  /\ Total(bindings, part) \in Nat /\ Total(new, part) \in Nat
                   /\ b[part] \in Nat /\ (c \in DOMAIN bindings => bindings[c][part] \in Nat)
                   /\ Total(new, part) = Total(bindings, part)
                        + (b[part] - IF c \in DOMAIN bindings THEN bindings[c][part] ELSE 0)
        BY <4>1, QuotaRowWritten
      <4> QED BY <4>2, <4>3 DEF c, new
    <3>5. H.from \in DOMAIN bindings' /\ bindings'[H.from] = bindings[H.from]
      BY <1>2, <2>2, <3>2
    <3>6. /\ GoesOn /\ HandoversTyped' /\ RunIsSound'
          /\ run'.mode = "execute" /\ run'.part = 2 /\ run'.pos = run.pos /\ H' = H /\ It' = It
          /\ \A type : type # "quota" => Same(type)
      BY <1>1, <1>4, <3>1, <3>5, GoFacts
    <3>7. TablesTyped'
      BY <1>1, <3>1, <3>4 DEF TablesTyped
    <3>8. Taken'
      BY <1>1, <3>1, <3>6, SameTxs, SameReservations DEF Taken
    <3>9. ASSUME LeftAlone' PROVE Traced'
      <4>1. Traced
        BY <3>6, <3>9 DEF HandoverInvariant, LeftAlone, GoesOn
      <4>2. LocksTraced' /\ TxsTraced' /\ ReservationsTraced'
        BY <3>1, <3>6, <4>1, SameLocks, SameTxs, SameReservations DEF Traced
      <4>3. \A x \in FitItem : IsMoved(x) => IsMoved(x)'
        BY <3>1, <3>6 DEF IsMoved
      <4>4. AllMoved'
        BY <1>1, <3>6, <4>1, <4>3, MovesOn DEF Traced
      <4>5. UsageTraced'
        <5> SUFFICES ASSUME NEW part \in {"used", "borrowed"}
                     PROVE  Total(bindings', part) >= Total(run'.before.bindings, part) + Twice(part)'
          BY DEF UsageTraced
        <5>1. Twice(part) = 0 /\ Twice(part)' = bindings[H.from][part]
          BY <1>4, <3>5, <3>6 DEF Twice
        <5>2. Total(bindings, part) >= Total(run.before.bindings, part) + Twice(part)
          BY <4>1 DEF Traced, UsageTraced
        <5>3. Total(run.before.bindings, part) \in Nat
          <6>1. IsQuotas(run.before.bindings)
            BY <1>1 DEF RunIsSound, IsPlaces
          <6> QED BY <1>2, <6>1, <3>3, QuotaRowWritten
        <5>4. bindings[H.from][part] \in Nat
          BY <1>3, <2>2 DEF BindingRow
        <5>5. Total(bindings', part) = Total(bindings, part) + bindings[H.from][part]
          <6>1. CASE H.to \in DOMAIN bindings
            <7> DEFINE u == bindings[H.to][part]
            <7>1. u \in Nat /\ b[part] = bindings[H.from][part] + u /\ Total(bindings, part) \in Nat
                  /\ Total(bindings', part) = Total(bindings, part) + (b[part] - u)
              BY <3>3, <3>4, <6>1
            <7> QED BY <5>4, <7>1
          <6>2. CASE H.to \notin DOMAIN bindings
            <7>1. b[part] = bindings[H.from][part] + 0 /\ Total(bindings, part) \in Nat
                  /\ Total(bindings', part) = Total(bindings, part) + (b[part] - 0)
              BY <3>3, <3>4, <6>2
            <7> QED BY <5>4, <7>1
          <6> QED BY <6>1, <6>2
        <5>6. run'.before = run.before
          BY <3>6 DEF GoesOn
        <5> QED BY <3>4, <5>1, <5>2, <5>3, <5>4, <5>5, <5>6
      <4> QED BY <4>2, <4>4, <4>5 DEF Traced
    <3> QED BY <1>1, <3>6, <3>7, <3>8, <3>9 DEF HandoverInvariant
  <2> QED BY <2>1, <2>2
<1>5. CASE run.part = 2
  <2> DEFINE b == Cleared(bindings[H.from])
  <2>1. /\ ItemApplied /\ PutBinding(H.from, b)
        /\ locks' = locks /\ txs' = txs /\ reservations' = reservations
    BY <1>5 DEF ExecuteQuotaTransfer
  <2>2. bindings' = [x \in DOMAIN bindings \cup {H.from} |-> IF x = H.from THEN b ELSE bindings[x]]
    BY <2>1 DEF PutBinding
  <2>3. H.from \in DOMAIN bindings
    BY <1>1, <1>5 DEF RunIsSound
  <2>4. b \in BindingRow /\ b.used = 0 /\ b.borrowed = 0
    BY <1>3, <2>3 DEF Cleared, BindingRow
  <2> HIDE DEF b
  <2>5. /\ IsQuotas(bindings')
        /\ \A part \in {"used", "borrowed"} :
             /\ Total(bindings, part) \in Nat /\ Total(bindings', part) \in Nat
             /\ bindings[H.from][part] \in Nat
             /\ Total(bindings', part) = Total(bindings, part) + (b[part] - bindings[H.from][part])
    BY <1>1, <1>2, <2>2, <2>3, <2>4, QuotaRowWritten
  <2>6. /\ GoesOn /\ HandoversTyped' /\ RunIsSound'
        /\ run'.mode = "execute" /\ run'.part = 1 /\ run'.pos = run.pos + 1
        /\ \A i \in 1..Len(H.items) : H'.items[i].type = H.items[i].type /\ H'.items[i].key = H.items[i].key
        /\ \A type : type # "quota" => Same(type)
    BY <1>1, <2>1, AppliedFacts
  <2>7. TablesTyped'
    BY <1>1, <2>1, <2>5 DEF TablesTyped
  <2>8. Taken'
    BY <1>1, <2>1, <2>6, SameTxs, SameReservations DEF Taken
  <2>9. ASSUME LeftAlone' PROVE Traced'
    <3>1. Traced
      BY <2>6, <2>9 DEF HandoverInvariant, LeftAlone, GoesOn
    <3>2. LocksTraced' /\ TxsTraced' /\ ReservationsTraced'
      BY <2>1, <2>6, <3>1, SameLocks, SameTxs, SameReservations DEF Traced
    <3>3. \A x \in FitItem : IsMoved(x) => IsMoved(x)'
      BY <2>1, <2>6 DEF IsMoved, GoesOn
    <3>4. \A x : x = It => IsMoved(x)'
      BY DEF IsMoved
    <3>5. AllMoved'
      BY <1>1, <2>6, <3>1, <3>3, <3>4, MovesOn DEF Traced, GoesOn
    <3>6. UsageTraced'
      <4> SUFFICES ASSUME NEW part \in {"used", "borrowed"}
                   PROVE  Total(bindings', part) >= Total(run'.before.bindings, part) + Twice(part)'
        BY DEF UsageTraced
      <4>1. Twice(part) = bindings[H.from][part] /\ Twice(part)' = 0
        BY <1>5, <2>6 DEF Twice
      <4>2. Total(bindings, part) >= Total(run.before.bindings, part) + Twice(part)
        BY <3>1 DEF Traced, UsageTraced
      <4>3. Total(run.before.bindings, part) \in Nat
        <5>1. IsQuotas(run.before.bindings)
          BY <1>1 DEF RunIsSound, IsPlaces
        <5> QED BY <1>2, <5>1, <2>4, QuotaRowWritten
      <4>4. b[part] = 0
        BY <2>4
      <4>5. run'.before = run.before
        BY <2>6 DEF GoesOn
      <4> QED BY <2>5, <4>1, <4>2, <4>3, <4>4, <4>5
    <3> QED BY <3>2, <3>5, <3>6 DEF Traced
  <2> QED BY <1>1, <2>6, <2>7, <2>8, <2>9 DEF HandoverInvariant
<1>6. run.part # 3
  BY <1>1 DEF RunIsSound
<1> QED BY <1>1, <1>4, <1>5, <1>6, TheRun

(* A transaction changes hands: its row, then its locks. *)
LEMMA TxTransferKeeps ==
  ASSUME HandoverInvariant, UNCHANGED <<limits, swept, refused, stops, events>>,
         run.mode = "execute", run.pos <= Len(H.items), It.type = "orch_tx",
         ExecuteOrchTxTransfer(It.key)
  PROVE  HandoverInvariant'
<1> DEFINE t == It.key
<1>1. /\ TablesTyped /\ HandoversTyped /\ HandoverRest /\ RunIsSound /\ Taken
      /\ TxsTaken /\ ReservationsTaken /\ HandoverRest'
  BY DEF HandoverInvariant, HandoverRest, Taken
<1>2. /\ H.from # H.to /\ H.from \in Parties /\ H.to \in Parties
      /\ t \in Txs /\ txs \in [Txs -> TxRow]
  <2>1. It \in FitItem
    BY <1>1, TheRun DEF It
  <2>2. t \in Txs
    BY <2>1, Kinds DEF FitItem
  <2> QED BY <1>1, <2>2, TheRun DEF TablesTyped
<1>3. \A x \in AppliedItems("orch_tx") : x.key \in Txs
  BY <1>1, AppliedExist, Kinds
<1>4. CASE run.part = 1
  <2>1. CASE txs[t].holder # H.from
    BY <1>4, <2>1, FailKeeps DEF ExecuteOrchTxTransfer, tables
  <2>2. CASE txs[t].holder = H.from
    <3>1. /\ Go /\ txs' = [txs EXCEPT ![t].holder = H.to]
          /\ locks' = locks /\ reservations' = reservations /\ bindings' = bindings
      BY <1>4, <2>2 DEF ExecuteOrchTxTransfer
    <3>2. /\ GoesOn /\ HandoversTyped' /\ RunIsSound'
          /\ run'.mode = "execute" /\ run'.part = 2 /\ run'.pos = run.pos /\ H' = H /\ It' = It
          /\ \A type : AppliedItems(type)' = AppliedItems(type)
          /\ \A type, k : ~ Returning(type, k) /\ ~ Returning(type, k)'
          /\ \A type : type # "orch_tx" => Same(type)
      BY <1>1, <1>4, <3>1, GoFacts
    <3>3. /\ txs'[t].holder = H.to /\ txs'[t].locks = txs[t].locks /\ txs'[t].committed = txs[t].committed
          /\ \A k \in Txs : k # t => txs'[k] = txs[k]
          /\ txs' \in [Txs -> TxRow]
      BY <1>2, <3>1 DEF TxRow
    <3>4. TablesTyped'
      BY <1>1, <3>1, <3>3 DEF TablesTyped, IsQuotas
    <3>5. /\ \A k : ~ Moving("orch_tx", k) /\ (Moving("orch_tx", k)' <=> k = t)
          /\ \A k : Given("orch_tx", k)' <=> (k = t \/ Given("orch_tx", k))
      BY <1>4, <3>2 DEF Moving, Given
    <3>6. ~ Given("orch_tx", t)
      BY <1>1, <1>2, <2>2, <3>2 DEF TxsTaken
    <3>7. TxsTaken'
      <4>1. ASSUME NEW k \in Txs, Given("orch_tx", k)' PROVE txs'[k].holder = H'.to
        BY <1>1, <3>2, <3>3, <3>5, <4>1 DEF TxsTaken, GoesOn
      <4>2. \A x \in AppliedItems("orch_tx") : ~ Moving("orch_tx", x.key)'
        BY <3>5, <3>6 DEF Given
      <4> QED BY <1>1, <3>2, <4>1, <4>2 DEF TxsTaken
    <3>8. Taken'
      BY <1>1, <3>1, <3>2, <3>7, SameReservations DEF Taken
    <3>9. ASSUME LeftAlone' PROVE Traced'
      <4>1. Traced /\ TxsTraced
        BY <3>2, <3>9 DEF HandoverInvariant, LeftAlone, GoesOn, Traced
      <4>2. ASSUME NEW k \in Txs
            PROVE  /\ txs'[k].committed = run'.before.txs[k].committed
                   /\ IF Given("orch_tx", k)'
                      THEN run'.before.txs[k].holder = H'.from
                      ELSE /\ txs'[k].holder = run'.before.txs[k].holder
                           /\ txs'[k].locks \in {run'.before.txs[k].locks, run'.before.txs[k].holder}
        <5>1. CASE k = t
          BY <1>2, <2>2, <3>2, <3>3, <3>5, <3>6, <4>1, <5>1 DEF TxsTraced, GoesOn
        <5>2. CASE k # t
          BY <3>2, <3>3, <3>5, <4>1, <5>2 DEF TxsTraced, GoesOn
        <5> QED BY <5>1, <5>2
      <4>3. TxsTraced'
        BY <4>2 DEF TxsTraced
      <4>4. LocksTraced' /\ ReservationsTraced'
        BY <3>1, <3>2, <4>1, SameLocks, SameReservations DEF Traced
      <4>5. \A x \in FitItem : IsMoved(x) => IsMoved(x)'
        <5> SUFFICES ASSUME NEW x \in FitItem, IsMoved(x) PROVE IsMoved(x)'
          OBVIOUS
        <5>1. x.type = "orch_tx" => x.key \in Txs
          BY Kinds DEF FitItem
        <5> QED BY <3>1, <3>2, <3>3, <5>1 DEF IsMoved
      <4>6. AllMoved'
        BY <1>1, <3>2, <4>1, <4>5, MovesOn DEF Traced
      <4>7. \A part : Twice(part)' = Twice(part)
        BY <3>2 DEF Twice
      <4> QED BY <3>1, <3>2, <4>1, <4>3, <4>4, <4>6, <4>7, SameUsage DEF Traced
    <3> QED BY <1>1, <3>2, <3>4, <3>8, <3>9 DEF HandoverInvariant
  <2> QED BY <2>1, <2>2
<1>5. CASE run.part = 2
  <2>1. /\ ItemApplied /\ txs' = [txs EXCEPT ![t].locks = H.to]
        /\ locks' = locks /\ reservations' = reservations /\ bindings' = bindings
    BY <1>5 DEF ExecuteOrchTxTransfer
  <2>2. /\ GoesOn /\ HandoversTyped' /\ RunIsSound' /\ It \in FitItem
        /\ run'.mode = "execute" /\ run'.part = 1 /\ run'.pos = run.pos + 1
        /\ \A i \in 1..Len(H.items) : H'.items[i].type = H.items[i].type /\ H'.items[i].key = H.items[i].key
        /\ AppliedItems("orch_tx")' = AppliedItems("orch_tx") \cup {It}
        /\ \A type, k : ~ Returning(type, k) /\ ~ Returning(type, k)' /\ ~ Moving(type, k)'
        /\ \A type : type # "orch_tx" => Same(type)
    BY <1>1, <2>1, AppliedFacts
  <2>3. /\ txs'[t].holder = txs[t].holder /\ txs'[t].locks = H.to /\ txs'[t].committed = txs[t].committed
        /\ \A k \in Txs : k # t => txs'[k] = txs[k]
        /\ txs' \in [Txs -> TxRow]
    BY <1>2, <2>1 DEF TxRow
  <2>4. TablesTyped'
    BY <1>1, <2>1, <2>3 DEF TablesTyped, IsQuotas
  <2>5. \A k : Moving("orch_tx", k) <=> k = t
    BY <1>5 DEF Moving
  <2>6. \A k : Given("orch_tx", k)' <=> Given("orch_tx", k)
    BY <2>2, <2>5 DEF Given
  <2>7. Given("orch_tx", t) /\ txs[t].holder = H.to
    BY <1>1, <1>2, <2>2, <2>5 DEF Given, TxsTaken
  <2>8. TxsTaken'
    <3>1. ASSUME NEW k \in Txs, Given("orch_tx", k)' PROVE txs'[k].holder = H'.to
      BY <1>1, <2>2, <2>3, <2>6, <2>7, <3>1 DEF TxsTaken, GoesOn
    <3>2. \A x \in AppliedItems("orch_tx") : x.key # t
      BY <1>1, <2>5 DEF TxsTaken
    <3>3. \A x, y \in AppliedItems("orch_tx") \cup {It} : x.key = y.key => x = y
      BY <1>1, <3>2 DEF TxsTaken
    <3> QED BY <2>2, <3>1, <3>3 DEF TxsTaken
  <2>9. Taken'
    BY <1>1, <2>1, <2>2, <2>8, SameReservations DEF Taken
  <2>10. ASSUME LeftAlone' PROVE Traced'
    <3>1. Traced /\ TxsTraced
      BY <2>2, <2>10 DEF HandoverInvariant, LeftAlone, GoesOn, Traced
    <3>2. ASSUME NEW k \in Txs
          PROVE  /\ txs'[k].committed = run'.before.txs[k].committed
                 /\ IF Given("orch_tx", k)'
                    THEN run'.before.txs[k].holder = H'.from
                    ELSE /\ txs'[k].holder = run'.before.txs[k].holder
                         /\ txs'[k].locks \in {run'.before.txs[k].locks, run'.before.txs[k].holder}
      <4>1. CASE k = t
        BY <1>2, <2>2, <2>3, <2>6, <2>7, <3>1, <4>1 DEF TxsTraced, GoesOn
      <4>2. CASE k # t
        BY <2>2, <2>3, <2>6, <3>1, <4>2 DEF TxsTraced, GoesOn
      <4> QED BY <4>1, <4>2
    <3>3. TxsTraced'
      BY <3>2 DEF TxsTraced
    <3>4. LocksTraced' /\ ReservationsTraced'
      BY <2>1, <2>2, <3>1, SameLocks, SameReservations DEF Traced
    <3>5. \A x \in FitItem : IsMoved(x) => IsMoved(x)'
      <4> SUFFICES ASSUME NEW x \in FitItem, IsMoved(x) PROVE IsMoved(x)'
        OBVIOUS
      <4>1. x.type = "orch_tx" => x.key \in Txs
        BY Kinds DEF FitItem
      <4> QED BY <2>1, <2>2, <2>3, <4>1 DEF IsMoved, GoesOn
    <3>6. \A x : x = It => IsMoved(x)'
      BY <2>2, <2>3, <2>7 DEF IsMoved, GoesOn
    <3>7. AllMoved'
      BY <1>1, <2>2, <3>1, <3>5, <3>6, MovesOn DEF Traced, GoesOn
    <3>8. \A part : Twice(part)' = 0 /\ Twice(part) = 0
      BY <2>2 DEF Twice
    <3> QED BY <2>1, <2>2, <3>1, <3>3, <3>4, <3>7, <3>8, SameUsage DEF Traced
  <2> QED BY <1>1, <2>2, <2>4, <2>9, <2>10 DEF HandoverInvariant
<1>6. run.part # 3
  BY <1>1 DEF RunIsSound
<1> QED BY <1>1, <1>4, <1>5, <1>6, TheRun

(* A subtree needs nothing: its locks are resources of their own. *)
LEMMA SubtreeKeeps ==
  ASSUME HandoverInvariant, UNCHANGED <<limits, swept, refused, stops, events, tables>>,
         run.mode = "execute", run.pos <= Len(H.items), It.type = "topology_subtree", ItemApplied
  PROVE  HandoverInvariant'
<1>1. /\ TablesTyped /\ HandoversTyped /\ HandoverRest /\ RunIsSound /\ Taken
      /\ HandoverRest' /\ TablesTyped'
  BY DEF HandoverInvariant, HandoverRest, TablesTyped, tables, IsQuotas
<1>2. /\ GoesOn /\ HandoversTyped' /\ RunIsSound'
      /\ run'.mode = "execute" /\ run'.part = 1 /\ run'.pos = run.pos + 1
      /\ \A i \in 1..Len(H.items) : H'.items[i].type = H.items[i].type /\ H'.items[i].key = H.items[i].key
      /\ \A type : type # "topology_subtree" => Same(type)
  BY <1>1, AppliedFacts
<1>3. locks' = locks /\ txs' = txs /\ reservations' = reservations /\ bindings' = bindings
  BY DEF tables
<1>4. Taken'
  BY <1>1, <1>2, <1>3, SameTxs, SameReservations DEF Taken
<1>5. ASSUME LeftAlone' PROVE Traced'
  <2>1. Traced
    BY <1>2, <1>5 DEF HandoverInvariant, LeftAlone, GoesOn
  <2>2. LocksTraced' /\ TxsTraced' /\ ReservationsTraced'
    BY <1>2, <1>3, <2>1, SameLocks, SameTxs, SameReservations DEF Traced
  <2>3. \A x \in FitItem : IsMoved(x) => IsMoved(x)'
    BY <1>2, <1>3 DEF IsMoved, GoesOn
  <2>4. \A x : x = It => IsMoved(x)'
    BY DEF IsMoved
  <2>5. AllMoved'
    BY <1>1, <1>2, <2>1, <2>3, <2>4, MovesOn DEF Traced, GoesOn
  <2>6. \A part : Twice(part)' = 0 /\ Twice(part) = 0
    BY <1>2 DEF Twice
  <2> QED BY <1>2, <1>3, <2>1, <2>2, <2>5, <2>6, SameUsage DEF Traced
<1> QED BY <1>1, <1>2, <1>4, <1>5 DEF HandoverInvariant

(* A reservation changes hands with one statement. *)
LEMMA ReservationTransferKeeps ==
  ASSUME HandoverInvariant, UNCHANGED <<limits, swept, refused, stops, events>>,
         run.mode = "execute", run.pos <= Len(H.items), It.type = "reservation",
         ExecuteReservationTransfer(It.key)
  PROVE  HandoverInvariant'
<1> DEFINE r == It.key
<1>1. /\ TablesTyped /\ HandoversTyped /\ HandoverRest /\ RunIsSound /\ Taken
      /\ TxsTaken /\ ReservationsTaken /\ HandoverRest'
  BY DEF HandoverInvariant, HandoverRest, Taken
<1>2. /\ H.from # H.to /\ H.from \in Parties /\ H.to \in Parties
      /\ r \in Reservations /\ reservations \in [Reservations -> ReservationRow]
  <2>1. It \in FitItem
    BY <1>1, TheRun DEF It
  <2>2. r \in Reservations
    BY <2>1, Kinds DEF FitItem
  <2> QED BY <1>1, <2>2, TheRun DEF TablesTyped
<1>3. \A x \in AppliedItems("reservation") : x.key \in Reservations
  BY <1>1, AppliedExist, Kinds
<1>4. run.part = 1
  BY <1>1 DEF RunIsSound
<1>5. CASE reservations[r].caller # H.from
  BY <1>4, <1>5, FailKeeps DEF ExecuteReservationTransfer, tables
<1>6. CASE reservations[r].caller = H.from
  <2>1. /\ ItemApplied /\ reservations' = [reservations EXCEPT ![r].caller = H.to]
        /\ locks' = locks /\ txs' = txs /\ bindings' = bindings
    BY <1>6 DEF ExecuteReservationTransfer
  <2>2. /\ GoesOn /\ HandoversTyped' /\ RunIsSound' /\ It \in FitItem
        /\ run'.mode = "execute" /\ run'.part = 1 /\ run'.pos = run.pos + 1
        /\ \A i \in 1..Len(H.items) : H'.items[i].type = H.items[i].type /\ H'.items[i].key = H.items[i].key
        /\ AppliedItems("reservation")' = AppliedItems("reservation") \cup {It}
        /\ \A type, k : ~ Moving(type, k)'
        /\ \A type : type # "reservation" => Same(type)
    BY <1>1, <2>1, AppliedFacts
  <2>3. /\ reservations'[r].caller = H.to /\ reservations'[r].live = reservations[r].live
        /\ \A k \in Reservations : k # r => reservations'[k] = reservations[k]
        /\ reservations' \in [Reservations -> ReservationRow]
    BY <1>2, <2>1 DEF ReservationRow
  <2>4. TablesTyped'
    BY <1>1, <2>1, <2>3 DEF TablesTyped, IsQuotas
  <2>5. \A k : ~ Moving("reservation", k)
    BY <1>4 DEF Moving
  <2>6. \A x \in AppliedItems("reservation") : x.key # r
    BY <1>1, <1>2, <1>6 DEF ReservationsTaken
  <2>7. \A k : Given("reservation", k)' <=> (k = r \/ Given("reservation", k))
    BY <2>2, <2>5 DEF Given
  <2>8. ~ Given("reservation", r)
    BY <2>5, <2>6 DEF Given
  <2>9. ReservationsTaken'
    <3>1. ASSUME NEW x \in AppliedItems("reservation") \cup {It}
          PROVE  reservations'[x.key].caller = H'.to
      <4>1. CASE x = It
        BY <2>2, <2>3, <4>1 DEF GoesOn
      <4>2. CASE x \in AppliedItems("reservation")
        BY <1>1, <1>3, <2>2, <2>3, <2>6, <4>2 DEF GoesOn, ReservationsTaken
      <4> QED BY <4>1, <4>2
    <3>2. \A x, y \in AppliedItems("reservation") \cup {It} : x.key = y.key => x = y
      BY <1>1, <2>6 DEF ReservationsTaken
    <3> QED BY <2>2, <3>1, <3>2 DEF ReservationsTaken
  <2>10. Taken'
    BY <1>1, <2>1, <2>2, <2>9, SameTxs DEF Taken
  <2>11. ASSUME LeftAlone' PROVE Traced'
    <3>1. Traced /\ ReservationsTraced
      BY <2>2, <2>11 DEF HandoverInvariant, LeftAlone, GoesOn, Traced
    <3>2. ASSUME NEW k \in Reservations
          PROVE  /\ reservations'[k].live = run'.before.reservations[k].live
                 /\ IF Given("reservation", k)'
                    THEN run'.before.reservations[k].caller = H'.from
                    ELSE reservations'[k].caller = run'.before.reservations[k].caller
      <4>1. CASE k = r
        BY <1>2, <1>6, <2>2, <2>3, <2>7, <2>8, <3>1, <4>1 DEF ReservationsTraced, GoesOn
      <4>2. CASE k # r
        BY <2>2, <2>3, <2>7, <3>1, <4>2 DEF ReservationsTraced, GoesOn
      <4> QED BY <4>1, <4>2
    <3>3. ReservationsTraced'
      BY <3>2 DEF ReservationsTraced
    <3>4. LocksTraced' /\ TxsTraced'
      BY <2>1, <2>2, <3>1, SameLocks, SameTxs DEF Traced
    <3>5. \A x \in FitItem : IsMoved(x) => IsMoved(x)'
      <4> SUFFICES ASSUME NEW x \in FitItem, IsMoved(x) PROVE IsMoved(x)'
        OBVIOUS
      <4>1. x.type = "reservation" => x.key \in Reservations
        BY Kinds DEF FitItem
      <4> QED BY <2>1, <2>2, <2>3, <4>1 DEF IsMoved, GoesOn
    <3>6. \A x : x = It => IsMoved(x)'
      BY <2>2, <2>3 DEF IsMoved, GoesOn
    <3>7. AllMoved'
      BY <1>1, <2>2, <3>1, <3>5, <3>6, MovesOn DEF Traced, GoesOn
    <3>8. \A part : Twice(part)' = 0 /\ Twice(part) = 0
      BY <2>2 DEF Twice
    <3> QED BY <2>1, <2>2, <3>1, <3>3, <3>4, <3>7, <3>8, SameUsage DEF Traced
  <2> QED BY <1>1, <2>2, <2>4, <2>10, <2>11 DEF HandoverInvariant
<1> QED BY <1>5, <1>6

LEMMA ExecuteResourceKeeps == HandoverInvariant /\ ExecuteResource => HandoverInvariant'
<1> SUFFICES ASSUME HandoverInvariant, ExecuteResource PROVE HandoverInvariant'
  OBVIOUS
<1>1. /\ run.mode = "execute" /\ run.pos <= Len(H.items)
      /\ UNCHANGED <<limits, swept, refused, stops, events>>
  BY DEF ExecuteResource, others
<1>2. CASE It.type = "lock" /\ ExecuteLockTransfer(It.key)
  BY <1>1, <1>2, LockTransferKeeps
<1>3. CASE It.type = "quota" /\ ExecuteQuotaTransfer
  BY <1>1, <1>3, QuotaTransferKeeps
<1>4. CASE It.type = "orch_tx" /\ ExecuteOrchTxTransfer(It.key)
  BY <1>1, <1>4, TxTransferKeeps
<1>5. CASE It.type = "topology_subtree" /\ ItemApplied /\ UNCHANGED tables
  BY <1>1, <1>5, SubtreeKeeps
<1>6. CASE It.type = "reservation" /\ ExecuteReservationTransfer(It.key)
  BY <1>1, <1>6, ReservationTransferKeeps
<1> QED BY <1>2, <1>3, <1>4, <1>5, <1>6 DEF ExecuteResource

-----------------------------------------------------------------------------
(* The rollback.                                                           *)

LEMMA TheTodo ==
  ASSUME HandoversTyped, RunIsSound, run.mode = "rollback", Todo # << >>
  PROVE  /\ Head(Todo) \in Range(run.applied) /\ Head(Todo) \in AppliedItems(Head(Todo).type)
         /\ Head(Todo) \in FitItem /\ Head(Todo).type \in {"reservation", "orch_tx", "lock"}
<1>1. run.applied \in Seq(FitItem)
  BY TheRun
<1>2. run.applied \in Seq(Item) /\ \A i \in DOMAIN run.applied : run.applied[i] \in FitItem
  BY <1>1, MoreResources, LenProperties, ElementOfSeq
<1>3. Head(Todo) \in {x \in Range(run.applied) : x.type \in {"reservation", "orch_tx", "lock"}}
  BY <1>2, BackInOrder DEF Todo
<1> QED BY <1>2, <1>3 DEF AppliedItems, Range

(* The first of two statements for a resource. *)
LEMMA HalfBackFacts ==
  ASSUME HandoversTyped, RunIsSound, UNCHANGED <<limits, handovers>>, run.mode = "rollback",
         Todo # << >>, Head(Todo).type \in {"lock", "orch_tx"}, run.part = 1,
         run' = [run EXCEPT !.part = 2]
  PROVE  /\ GoesOn /\ HandoversTyped' /\ RunIsSound' /\ H' = H /\ run'.mode = "rollback"
         /\ \A type : AppliedItems(type)' = AppliedItems(type)
         /\ \A type, k : /\ ~ Moving(type, k) /\ ~ Moving(type, k)' /\ ~ Returning(type, k)
                         /\ Returning(type, k)' <=> type = Head(Todo).type /\ k = Head(Todo).key
         /\ \A k : ~ Reading(k) /\ ~ Reading(k)'
         /\ \A type : type # Head(Todo).type => Same(type)
<1>1. run \in RunsFrom(run.before)
  BY DEF RunIsSound
<1>2. /\ run'.mode = run.mode /\ run'.id = run.id /\ run'.pos = run.pos /\ run'.part = 2
      /\ run'.applied = run.applied /\ run'.before = run.before /\ run'.disturbed = run.disturbed
  BY <1>1 DEF RunsFrom
<1>3. H' = H /\ Todo' = Todo
  BY <1>2 DEF H, Todo
<1>4. GoesOn
  BY <1>2, <1>3 DEF GoesOn
<1>5. HandoversTyped'
  BY DEF HandoversTyped
<1>6. run' \in RunsFrom(run'.before)
  BY <1>1, <1>2 DEF RunsFrom
<1>7. RunIsSound'
  BY <1>2, <1>3, <1>6 DEF RunIsSound
<1>8. \A type : AppliedItems(type)' = AppliedItems(type)
  BY <1>2 DEF AppliedItems
<1>9. /\ \A type, k : /\ ~ Moving(type, k) /\ ~ Moving(type, k)' /\ ~ Returning(type, k)
                      /\ Returning(type, k)' <=> type = Head(Todo).type /\ k = Head(Todo).key
      /\ \A k : ~ Reading(k) /\ ~ Reading(k)'
  BY <1>2, <1>3 DEF Moving, Returning, Reading
<1>10. \A type : type # Head(Todo).type => Same(type)
  BY <1>8, <1>9 DEF Same, Given
<1> QED BY <1>2, <1>3, <1>4, <1>5, <1>7, <1>8, <1>9, <1>10

(* The last statement for a resource. *)
LEMMA BackFacts ==
  ASSUME HandoversTyped, RunIsSound, UNCHANGED <<limits, handovers>>, run.mode = "rollback",
         Todo # << >>, IsBack(Head(Todo))
  PROVE  /\ GoesOn /\ HandoversTyped' /\ RunIsSound' /\ H' = H /\ run'.mode = "rollback"
         /\ \A type : AppliedItems(type)' = AppliedItems(type) \ {Head(Todo)}
         /\ \A type, k : /\ ~ Moving(type, k) /\ ~ Moving(type, k)' /\ ~ Returning(type, k)'
                         /\ Returning(type, k) =>
                              run.part = 2 /\ type = Head(Todo).type /\ k = Head(Todo).key
         /\ \A k : ~ Reading(k) /\ ~ Reading(k)'
         /\ \A type : type # Head(Todo).type => Same(type)
<1> DEFINE item == Head(Todo)
           K == {i \in DOMAIN run.applied : run.applied[i] # item}
           a == Keep(run.applied, K)
<1>1. run \in RunsFrom(run.before) /\ run.applied \in Seq(FitItem)
  BY DEF RunIsSound, RunsFrom
<1>2. run' = [run EXCEPT !.part = 1, !.applied = a]
  BY DEF IsBack
<1>3. a \in Seq(FitItem) /\ Range(a) = {run.applied[i] : i \in K}
  BY <1>1, KeepRange
<1>4. Range(a) = Range(run.applied) \ {item}
  BY <1>3 DEF Range
<1> HIDE DEF a
<1>5. /\ run'.mode = run.mode /\ run'.id = run.id /\ run'.pos = run.pos /\ run'.part = 1
      /\ run'.applied = a /\ run'.before = run.before /\ run'.disturbed = run.disturbed
  BY <1>1, <1>2 DEF RunsFrom
<1>6. H' = H
  BY <1>5 DEF H
<1>7. GoesOn
  BY <1>5, <1>6 DEF GoesOn
<1>8. HandoversTyped'
  BY DEF HandoversTyped
<1>9. run' \in RunsFrom(run'.before)
  <2> DEFINE b == run.before
  <2>1. run \in RunsFrom(b) /\ run' = [run EXCEPT !.part = 1, !.applied = a]
        /\ a \in Seq(FitItem) /\ run'.before = b
    BY <1>1, <1>2, <1>3, <1>5
  <2> HIDE DEF b
  <2>2. run' = [mode |-> run.mode, id |-> run.id, pos |-> run.pos, part |-> 1, applied |-> a,
                before |-> run.before, disturbed |-> run.disturbed]
    BY <2>1 DEF RunsFrom
  <2>3. /\ run.mode \in {"none", "check", "execute", "rollback"} /\ run.id \in Nat
        /\ run.pos \in Nat \ {0} /\ run.before = b /\ run.disturbed \in BOOLEAN
    BY <2>1 DEF RunsFrom
  <2>4. run' \in RunsFrom(b)
    BY <2>1, <2>2, <2>3 DEF RunsFrom
  <2> QED BY <2>1, <2>4
<1>10. RunIsSound'
  BY <1>5, <1>6, <1>9 DEF RunIsSound
<1>11. \A type : AppliedItems(type)' = AppliedItems(type) \ {item}
  BY <1>4, <1>5 DEF AppliedItems
<1>12. /\ \A type, k : /\ ~ Moving(type, k) /\ ~ Moving(type, k)' /\ ~ Returning(type, k)'
                       /\ Returning(type, k) => run.part = 2 /\ type = item.type /\ k = item.key
       /\ \A k : ~ Reading(k) /\ ~ Reading(k)'
  BY <1>5 DEF Moving, Returning, Reading
<1>13. ASSUME NEW type, type # item.type PROVE Same(type)
  <2>1. item \notin AppliedItems(type)
    BY <1>13 DEF AppliedItems
  <2>2. AppliedItems(type)' = AppliedItems(type)
    BY <1>11, <2>1
  <2> QED BY <1>12, <1>13, <2>2 DEF Same, Given
<1> QED BY <1>5, <1>6, <1>7, <1>8, <1>10, <1>11, <1>12, <1>13

(* A lock goes back: its lease, then its row. *)
LEMMA LockBackKeeps ==
  ASSUME HandoverInvariant, UNCHANGED <<limits, swept, handovers, refused, stops, events>>,
         run.mode = "rollback", Todo # << >>, Head(Todo).type = "lock", RollbackNext(Head(Todo))
  PROVE  HandoverInvariant'
<1> DEFINE item == Head(Todo)
           l == item.key
<1>1. /\ TablesTyped /\ HandoversTyped /\ HandoverRest /\ RunIsSound /\ Taken
      /\ TxsTaken /\ ReservationsTaken /\ HandoverRest'
  BY DEF HandoverInvariant, HandoverRest, Taken
<1>2. /\ item \in AppliedItems("lock") /\ item \in FitItem
  BY <1>1, TheTodo
<1>3. /\ l \in Locks /\ locks \in [Locks -> HolderRows] /\ locks[l] \in HolderRows
      /\ H.from # H.to /\ H.from \in Parties /\ H.from # NoParty
  <2>1. l \in Locks
    BY <1>2, Kinds DEF FitItem
  <2> QED BY <1>1, <2>1, TheRun, HandoverAssumption DEF TablesTyped
<1>4. txs' = txs /\ reservations' = reservations /\ bindings' = bindings
  BY DEF RollbackNext
<1>5. \A part : Twice(part) = 0
  BY DEF Twice
<1>6. CASE run.part = 1
  <2>1. /\ locks' = [locks EXCEPT ![l].lease = IF @ = NoParty THEN @ ELSE H.from]
        /\ run' = [run EXCEPT !.part = 2]
    BY <1>6 DEF RollbackNext
  <2>2. /\ GoesOn /\ HandoversTyped' /\ RunIsSound' /\ H' = H /\ run'.mode = "rollback"
        /\ \A type : AppliedItems(type)' = AppliedItems(type)
        /\ \A type, k : /\ ~ Moving(type, k) /\ ~ Moving(type, k)' /\ ~ Returning(type, k)
                        /\ Returning(type, k)' <=> type = item.type /\ k = item.key
        /\ \A k : ~ Reading(k) /\ ~ Reading(k)'
        /\ \A type : type # item.type => Same(type)
    BY <1>1, <1>6, <2>1, HalfBackFacts
  <2>3. /\ locks'[l].holder = locks[l].holder
        /\ locks'[l].lease = IF locks[l].lease = NoParty THEN NoParty ELSE H.from
        /\ \A k \in Locks : k # l => locks'[k] = locks[k]
        /\ locks' \in [Locks -> HolderRows]
    BY <1>3, <2>1 DEF HolderRows
  <2>4. TablesTyped'
    BY <1>1, <1>4, <2>3 DEF TablesTyped, IsQuotas
  <2>5. Taken'
    BY <1>1, <1>4, <2>2, SameTxs, SameReservations DEF Taken
  <2>6. ASSUME LeftAlone' PROVE Traced'
    <3>1. Traced /\ LocksTraced
      BY <2>2, <2>6 DEF HandoverInvariant, LeftAlone, GoesOn, Traced
    <3>2. \A k : Given("lock", k)' <=> Given("lock", k)
      BY <2>2 DEF Given
    <3>3. Given("lock", l)
      BY <1>2 DEF Given
    <3>4. ASSUME NEW k \in Locks
          PROVE  /\ locks'[k].lease = NoParty <=> run'.before.locks[k].lease = NoParty
                 /\ IF Given("lock", k)'
                    THEN run'.before.locks[k].holder = H'.from /\ locks'[k].holder = H'.to
                    ELSE /\ locks'[k].holder = run'.before.locks[k].holder
                         /\ locks'[k].lease \in {run'.before.locks[k].lease, run'.before.locks[k].holder}
                 /\ Returning("lock", k)' => locks'[k].lease \in {NoParty, H'.from}
      <4>1. CASE k = l
        BY <1>3, <2>2, <2>3, <3>1, <3>2, <3>3, <4>1 DEF LocksTraced, GoesOn
      <4>2. CASE k # l
        BY <2>2, <2>3, <3>1, <3>2, <4>2 DEF LocksTraced, GoesOn
      <4> QED BY <4>1, <4>2
    <3>5. LocksTraced'
      BY <2>2, <3>1, <3>4 DEF LocksTraced
    <3>6. TxsTraced' /\ ReservationsTraced'
      BY <1>4, <2>2, <3>1, SameTxs, SameReservations DEF Traced
    <3>7. AllMoved' /\ \A part : Twice(part)' = 0
      BY <2>2 DEF AllMoved, Twice
    <3> QED BY <1>4, <1>5, <2>2, <3>1, <3>5, <3>6, <3>7, SameUsage DEF Traced
  <2> QED BY <1>1, <2>2, <2>4, <2>5, <2>6 DEF HandoverInvariant
<1>7. CASE run.part = 2
  <2>1. locks' = [locks EXCEPT ![l].holder = H.from] /\ IsBack(item)
    BY <1>7 DEF RollbackNext
  <2>2. /\ GoesOn /\ HandoversTyped' /\ RunIsSound' /\ H' = H /\ run'.mode = "rollback"
        /\ \A type : AppliedItems(type)' = AppliedItems(type) \ {item}
        /\ \A type, k : ~ Moving(type, k) /\ ~ Moving(type, k)' /\ ~ Returning(type, k)'
        /\ \A k : ~ Reading(k) /\ ~ Reading(k)'
        /\ \A type : type # item.type => Same(type)
    BY <1>1, <2>1, BackFacts
  <2>3. /\ locks'[l].holder = H.from /\ locks'[l].lease = locks[l].lease
        /\ \A k \in Locks : k # l => locks'[k] = locks[k]
        /\ locks' \in [Locks -> HolderRows]
    BY <1>3, <2>1 DEF HolderRows
  <2>4. TablesTyped'
    BY <1>1, <1>4, <2>3 DEF TablesTyped, IsQuotas
  <2>5. Taken'
    BY <1>1, <1>4, <2>2, SameTxs, SameReservations DEF Taken
  <2>6. ASSUME LeftAlone' PROVE Traced'
    <3>1. Traced /\ LocksTraced
      BY <2>2, <2>6 DEF HandoverInvariant, LeftAlone, GoesOn, Traced
    <3>2. Given("lock", l) /\ Returning("lock", l)
      BY <1>2, <1>7 DEF Given, Returning
    <3>3. \A k : Given("lock", k)' <=> (k # l /\ Given("lock", k))
      <4>1. \A x \in AppliedItems("lock") : x.key = l => x = item
        BY <1>2, <3>1 DEF LocksTraced
      <4> QED BY <2>2, <4>1 DEF Given
    <3>4. ASSUME NEW k \in Locks
          PROVE  /\ locks'[k].lease = NoParty <=> run'.before.locks[k].lease = NoParty
                 /\ IF Given("lock", k)'
                    THEN run'.before.locks[k].holder = H'.from /\ locks'[k].holder = H'.to
                    ELSE /\ locks'[k].holder = run'.before.locks[k].holder
                         /\ locks'[k].lease \in {run'.before.locks[k].lease, run'.before.locks[k].holder}
      <4>1. CASE k = l
        BY <1>3, <2>2, <2>3, <3>1, <3>2, <3>3, <4>1 DEF LocksTraced, GoesOn
      <4>2. CASE k # l
        BY <2>2, <2>3, <3>1, <3>3, <4>2 DEF LocksTraced, GoesOn
      <4> QED BY <4>1, <4>2
    <3>5. LocksTraced'
      BY <2>2, <3>1, <3>4 DEF LocksTraced
    <3>6. TxsTraced' /\ ReservationsTraced'
      BY <1>4, <2>2, <3>1, SameTxs, SameReservations DEF Traced
    <3>7. AllMoved' /\ \A part : Twice(part)' = 0
      BY <2>2 DEF AllMoved, Twice
    <3> QED BY <1>4, <1>5, <2>2, <3>1, <3>5, <3>6, <3>7, SameUsage DEF Traced
  <2> QED BY <1>1, <2>2, <2>4, <2>5, <2>6 DEF HandoverInvariant
<1> QED BY <1>6, <1>7 DEF RollbackNext

(* A transaction goes back: its row, then its locks. *)
LEMMA TxBackKeeps ==
  ASSUME HandoverInvariant, UNCHANGED <<limits, swept, handovers, refused, stops, events>>,
         run.mode = "rollback", Todo # << >>, Head(Todo).type = "orch_tx", RollbackNext(Head(Todo))
  PROVE  HandoverInvariant'
<1> DEFINE item == Head(Todo)
           t == item.key
<1>1. /\ TablesTyped /\ HandoversTyped /\ HandoverRest /\ RunIsSound /\ Taken
      /\ TxsTaken /\ ReservationsTaken /\ HandoverRest'
  BY DEF HandoverInvariant, HandoverRest, Taken
<1>2. /\ item \in AppliedItems("orch_tx") /\ item \in FitItem
  BY <1>1, TheTodo
<1>3. t \in Txs /\ txs \in [Txs -> TxRow] /\ H.from # H.to /\ H.from \in Parties
  <2>1. t \in Txs
    BY <1>2, Kinds DEF FitItem
  <2> QED BY <1>1, <2>1, TheRun DEF TablesTyped
<1>4. locks' = locks /\ reservations' = reservations /\ bindings' = bindings
  BY DEF RollbackNext
<1>5. \A part : Twice(part) = 0
  BY DEF Twice
<1>6. CASE run.part = 1
  <2>1. txs' = [txs EXCEPT ![t].holder = H.from] /\ run' = [run EXCEPT !.part = 2]
    BY <1>6 DEF RollbackNext
  <2>2. /\ GoesOn /\ HandoversTyped' /\ RunIsSound' /\ H' = H /\ run'.mode = "rollback"
        /\ \A type : AppliedItems(type)' = AppliedItems(type)
        /\ \A type, k : /\ ~ Moving(type, k) /\ ~ Moving(type, k)' /\ ~ Returning(type, k)
                        /\ Returning(type, k)' <=> type = item.type /\ k = item.key
        /\ \A type : type # item.type => Same(type)
    BY <1>1, <1>6, <2>1, HalfBackFacts
  <2>3. /\ txs'[t].holder = H.from /\ txs'[t].locks = txs[t].locks /\ txs'[t].committed = txs[t].committed
        /\ \A k \in Txs : k # t => txs'[k] = txs[k]
        /\ txs' \in [Txs -> TxRow]
    BY <1>3, <2>1 DEF TxRow
  <2>4. TablesTyped'
    BY <1>1, <1>4, <2>3 DEF TablesTyped, IsQuotas
  <2>5. (\A k : Given("orch_tx", k)' <=> Given("orch_tx", k)) /\ Given("orch_tx", t)
    BY <1>2, <2>2 DEF Given
  <2>6. TxsTaken'
    <3>1. ASSUME NEW k \in Txs, Given("orch_tx", k)'
          PROVE  txs'[k].holder = IF Returning("orch_tx", k)' THEN H'.from ELSE H'.to
      BY <1>1, <2>2, <2>3, <2>5, <3>1 DEF TxsTaken
    <3> QED BY <1>1, <2>2, <3>1 DEF TxsTaken
  <2>7. Taken'
    BY <1>1, <1>4, <2>2, <2>6, SameReservations DEF Taken
  <2>8. ASSUME LeftAlone' PROVE Traced'
    <3>1. Traced /\ TxsTraced
      BY <2>2, <2>8 DEF HandoverInvariant, LeftAlone, GoesOn, Traced
    <3>2. TxsTraced'
      <4>1. ASSUME NEW k \in Txs
            PROVE  /\ txs'[k].committed = run'.before.txs[k].committed
                   /\ IF Given("orch_tx", k)'
                      THEN run'.before.txs[k].holder = H'.from
                      ELSE /\ txs'[k].holder = run'.before.txs[k].holder
                           /\ txs'[k].locks \in {run'.before.txs[k].locks, run'.before.txs[k].holder}
        BY <2>2, <2>3, <2>5, <3>1 DEF TxsTraced, GoesOn
      <4> QED BY <4>1 DEF TxsTraced
    <3>3. LocksTraced' /\ ReservationsTraced'
      BY <1>4, <2>2, <3>1, SameLocks, SameReservations DEF Traced
    <3>4. AllMoved' /\ \A part : Twice(part)' = 0
      BY <2>2 DEF AllMoved, Twice
    <3> QED BY <1>4, <1>5, <2>2, <3>1, <3>2, <3>3, <3>4, SameUsage DEF Traced
  <2> QED BY <1>1, <2>2, <2>4, <2>7, <2>8 DEF HandoverInvariant
<1>7. CASE run.part = 2
  <2>1. txs' = [txs EXCEPT ![t].locks = H.from] /\ IsBack(item)
    BY <1>7 DEF RollbackNext
  <2>2. /\ GoesOn /\ HandoversTyped' /\ RunIsSound' /\ H' = H /\ run'.mode = "rollback"
        /\ \A type : AppliedItems(type)' = AppliedItems(type) \ {item}
        /\ \A type, k : /\ ~ Moving(type, k) /\ ~ Moving(type, k)' /\ ~ Returning(type, k)'
                        /\ Returning(type, k) => run.part = 2 /\ type = item.type /\ k = item.key
        /\ \A type : type # item.type => Same(type)
    BY <1>1, <2>1, BackFacts
  <2>3. /\ txs'[t].locks = H.from /\ txs'[t].holder = txs[t].holder /\ txs'[t].committed = txs[t].committed
        /\ \A k \in Txs : k # t => txs'[k] = txs[k]
        /\ txs' \in [Txs -> TxRow]
    BY <1>3, <2>1 DEF TxRow
  <2>4. TablesTyped'
    BY <1>1, <1>4, <2>3 DEF TablesTyped, IsQuotas
  <2>5. Given("orch_tx", t) /\ Returning("orch_tx", t) /\ txs[t].holder = H.from
    <3>1. Given("orch_tx", t) /\ Returning("orch_tx", t)
      BY <1>2, <1>7 DEF Given, Returning
    <3> QED BY <1>1, <1>3, <3>1 DEF TxsTaken
  <2>6. \A k : Given("orch_tx", k)' <=> (k # t /\ Given("orch_tx", k))
    <3>1. \A x \in AppliedItems("orch_tx") : x.key = t => x = item
      BY <1>1, <1>2 DEF TxsTaken
    <3> QED BY <2>2, <3>1 DEF Given
  <2>7. TxsTaken'
    <3>1. ASSUME NEW k \in Txs, Given("orch_tx", k)' PROVE txs'[k].holder = H'.to
      BY <1>1, <2>2, <2>3, <2>6, <3>1 DEF TxsTaken
    <3> QED BY <1>1, <2>2, <3>1 DEF TxsTaken
  <2>8. Taken'
    BY <1>1, <1>4, <2>2, <2>7, SameReservations DEF Taken
  <2>9. ASSUME LeftAlone' PROVE Traced'
    <3>1. Traced /\ TxsTraced
      BY <2>2, <2>9 DEF HandoverInvariant, LeftAlone, GoesOn, Traced
    <3>2. TxsTraced'
      <4>1. ASSUME NEW k \in Txs
            PROVE  /\ txs'[k].committed = run'.before.txs[k].committed
                   /\ IF Given("orch_tx", k)'
                      THEN run'.before.txs[k].holder = H'.from
                      ELSE /\ txs'[k].holder = run'.before.txs[k].holder
                           /\ txs'[k].locks \in {run'.before.txs[k].locks, run'.before.txs[k].holder}
        <5>1. CASE k = t
          BY <2>2, <2>3, <2>5, <2>6, <3>1, <5>1 DEF TxsTraced, GoesOn
        <5>2. CASE k # t
          BY <2>2, <2>3, <2>6, <3>1, <5>2 DEF TxsTraced, GoesOn
        <5> QED BY <5>1, <5>2
      <4> QED BY <4>1 DEF TxsTraced
    <3>3. LocksTraced' /\ ReservationsTraced'
      BY <1>4, <2>2, <3>1, SameLocks, SameReservations DEF Traced
    <3>4. AllMoved' /\ \A part : Twice(part)' = 0
      BY <2>2 DEF AllMoved, Twice
    <3> QED BY <1>4, <1>5, <2>2, <3>1, <3>2, <3>3, <3>4, SameUsage DEF Traced
  <2> QED BY <1>1, <2>2, <2>4, <2>8, <2>9 DEF HandoverInvariant
<1> QED BY <1>6, <1>7 DEF RollbackNext

(* A reservation goes back with one statement. *)
LEMMA ReservationBackKeeps ==
  ASSUME HandoverInvariant, UNCHANGED <<limits, swept, handovers, refused, stops, events>>,
         run.mode = "rollback", Todo # << >>, Head(Todo).type = "reservation",
         RollbackNext(Head(Todo))
  PROVE  HandoverInvariant'
<1> DEFINE item == Head(Todo)
           r == item.key
<1>1. /\ TablesTyped /\ HandoversTyped /\ HandoverRest /\ RunIsSound /\ Taken
      /\ TxsTaken /\ ReservationsTaken /\ HandoverRest'
  BY DEF HandoverInvariant, HandoverRest, Taken
<1>2. /\ item \in AppliedItems("reservation") /\ item \in FitItem
  BY <1>1, TheTodo
<1>3. /\ r \in Reservations /\ reservations \in [Reservations -> ReservationRow]
      /\ H.from # H.to /\ H.from \in Parties
  <2>1. r \in Reservations
    BY <1>2, Kinds DEF FitItem
  <2> QED BY <1>1, <2>1, TheRun DEF TablesTyped
<1>4. /\ locks' = locks /\ txs' = txs /\ bindings' = bindings
      /\ reservations' = [reservations EXCEPT ![r].caller = H.from] /\ IsBack(item)
  BY DEF RollbackNext
<1>5. /\ GoesOn /\ HandoversTyped' /\ RunIsSound' /\ H' = H /\ run'.mode = "rollback"
      /\ \A type : AppliedItems(type)' = AppliedItems(type) \ {item}
      /\ \A type, k : ~ Moving(type, k) /\ ~ Moving(type, k)'
      /\ \A type : type # item.type => Same(type)
  BY <1>1, <1>4, BackFacts
<1>6. /\ reservations'[r].caller = H.from /\ reservations'[r].live = reservations[r].live
      /\ \A k \in Reservations : k # r => reservations'[k] = reservations[k]
      /\ reservations' \in [Reservations -> ReservationRow]
  BY <1>3, <1>4 DEF ReservationRow
<1>7. TablesTyped'
  BY <1>1, <1>4, <1>6 DEF TablesTyped, IsQuotas
<1>8. \A x \in AppliedItems("reservation") : x.key \in Reservations /\ (x.key = r => x = item)
  BY <1>1, <1>2, AppliedExist, Kinds DEF ReservationsTaken
<1>9. Given("reservation", r) /\ \A k : Given("reservation", k)' <=> (k # r /\ Given("reservation", k))
  BY <1>2, <1>5, <1>8 DEF Given
<1>10. ReservationsTaken'
  BY <1>1, <1>5, <1>6, <1>8 DEF ReservationsTaken
<1>11. Taken'
  BY <1>1, <1>4, <1>5, <1>10, SameTxs DEF Taken
<1>12. ASSUME LeftAlone' PROVE Traced'
  <2>1. Traced /\ ReservationsTraced
    BY <1>5, <1>12 DEF HandoverInvariant, LeftAlone, GoesOn, Traced
  <2>2. ReservationsTraced'
    <3>1. ASSUME NEW k \in Reservations
          PROVE  /\ reservations'[k].live = run'.before.reservations[k].live
                 /\ IF Given("reservation", k)'
                    THEN run'.before.reservations[k].caller = H'.from
                    ELSE reservations'[k].caller = run'.before.reservations[k].caller
      <4>1. CASE k = r
        BY <1>5, <1>6, <1>9, <2>1, <4>1 DEF ReservationsTraced, GoesOn
      <4>2. CASE k # r
        BY <1>5, <1>6, <1>9, <2>1, <4>2 DEF ReservationsTraced, GoesOn
      <4> QED BY <4>1, <4>2
    <3> QED BY <3>1 DEF ReservationsTraced
  <2>3. LocksTraced' /\ TxsTraced'
    BY <1>4, <1>5, <2>1, SameLocks, SameTxs DEF Traced
  <2>4. AllMoved' /\ \A part : Twice(part)' = 0 /\ Twice(part) = 0
    BY <1>5 DEF AllMoved, Twice
  <2> QED BY <1>4, <1>5, <2>1, <2>2, <2>3, <2>4, SameUsage DEF Traced
<1> QED BY <1>1, <1>5, <1>7, <1>11, <1>12 DEF HandoverInvariant

LEMMA RollbackKeeps == HandoverInvariant /\ RollbackAll => HandoverInvariant'
<1> SUFFICES ASSUME HandoverInvariant, RollbackAll PROVE HandoverInvariant'
  OBVIOUS
<1>1. /\ run.mode = "rollback" /\ UNCHANGED <<limits, swept, handovers, refused, stops, events>>
      /\ HandoversTyped /\ RunIsSound
  BY DEF RollbackAll, others, HandoverInvariant
<1>2. CASE Todo # << >> /\ RollbackNext(Head(Todo))
  <2>1. Head(Todo).type \in {"reservation", "orch_tx", "lock"}
    BY <1>1, <1>2, TheTodo
  <2> QED BY <1>1, <1>2, <2>1, LockBackKeeps, TxBackKeeps, ReservationBackKeeps
<1>3. CASE Todo = << >> /\ run' = NoRun /\ UNCHANGED tables
  <2>1. TablesTyped' /\ HandoversTyped' /\ HandoverRest'
    BY <1>1, <1>3 DEF HandoverInvariant, TablesTyped, HandoversTyped, HandoverRest, tables, IsQuotas
  <2> QED BY <1>3, <2>1, NothingUnderWay
<1> QED BY <1>2, <1>3 DEF RollbackAll, Todo

-----------------------------------------------------------------------------
(* The requests, the sweep and the other parts.                            *)

LEMMA TablesStay ==
  ASSUME HandoverInvariant, UNCHANGED <<others, tables, swept, events>>, stops' \in 0..limits.crashes
  PROVE  TablesTyped' /\ HandoverRest'
BY DEF HandoverInvariant, TablesTyped, HandoverRest, others, tables, IsQuotas

LEMMA CrashesCounted ==
  ASSUME HandoverInvariant
  PROVE  stops \in 0..limits.crashes /\ (stops < limits.crashes => stops + 1 \in 0..limits.crashes)
BY TheLimits DEF HandoverInvariant, HandoverRest

LEMMA CreateKeeps ==
  ASSUME HandoverInvariant, NEW r \in limits.requests,
         CreateHandover(r) \/ \E n \in 0..3 : CrashInCreate(r, n)
  PROVE  HandoverInvariant'
<1>1. r \in HandoverRequest
  BY TheLimits DEF HandoverInvariant, HandoverRest
<1>2. AllItems(r) \in Seq(FitItem)
  BY <1>1, AllItemsFit
<1>3. /\ run' = NoRun /\ UNCHANGED <<others, tables, swept, events>> /\ stops' \in 0..limits.crashes
  BY CrashesCounted DEF CreateHandover, CrashInCreate
<1>4. HandoversTyped'
  <2>1. CASE CreateHandover(r)
    BY <1>2, <2>1, OneMoreHandover DEF CreateHandover, others
  <2>2. CASE \E n \in 0..3 : CrashInCreate(r, n)
    <3> DEFINE all == AllItems(r)
    <3>1. PICK n \in 0..3 : CrashInCreate(r, n)
      BY <2>2
    <3>2. all \in Seq(FitItem) /\ n \in Nat /\ n < Len(all) /\ Len(all) \in Nat
      BY <1>2, <3>1, LenProperties DEF CrashInCreate
    <3> HIDE DEF all
    <3>3. SubSeq(all, 1, n) \in Seq(FitItem)
      <4>1. \A i \in 1..n : all[i] \in FitItem
        BY <3>2, ElementOfSeq
      <4> QED BY <3>2, <4>1, SubSeqProperties
    <3>4. /\ handovers' = Append(handovers, Created(r, SubSeq(all, 1, n)))
          /\ Len(handovers) < limits.handovers /\ UNCHANGED limits
      BY <3>1 DEF CrashInCreate, all, others
    <3> QED BY <3>3, <3>4, OneMoreHandover
  <2> QED BY <2>1, <2>2
<1> QED BY <1>3, <1>4, TablesStay, NothingUnderWay

LEMMA PreCheckKeeps ==
  ASSUME HandoverInvariant, NEW id \in DOMAIN handovers, PreCheck(id)
  PROVE  HandoverInvariant'
BY BeginRunKeeps DEF PreCheck, others, tables

LEMMA StatusKeeps ==
  ASSUME HandoverInvariant, UNCHANGED <<others, tables, swept, stops, events>>, run' = NoRun,
         NEW id \in DOMAIN handovers, NEW s \in HandoverStatuses,
         handovers' = UpdateHandoverStatus(handovers, id, s)
  PROVE  HandoverInvariant'
<1>1. HandoversTyped'
  BY StatusOnly DEF HandoverInvariant, others
<1> QED BY <1>1, CrashesCounted, TablesStay, NothingUnderWay

LEMMA InitiateKeeps ==
  ASSUME HandoverInvariant, NEW id \in DOMAIN handovers, Initiate(id)
  PROVE  HandoverInvariant'
<1>1. run = NoRun /\ handovers[id].status = "prechecked" /\ UNCHANGED <<others, tables, swept, stops, events>>
  BY DEF Initiate
<1>2. CASE handovers' = UpdateHandoverStatus(handovers, id, "pending_receive") /\ UNCHANGED run
  BY <1>1, <1>2, StatusKeeps DEF HandoverStatuses
<1>3. CASE BeginRun("execute", id) /\ UNCHANGED handovers
  BY <1>1, <1>3, BeginRunKeeps DEF others, tables
<1> QED BY <1>2, <1>3 DEF Initiate

LEMMA ConfirmKeeps ==
  ASSUME HandoverInvariant, NEW id \in DOMAIN handovers, NEW accept \in BOOLEAN, Confirm(id, accept)
  PROVE  HandoverInvariant'
<1>1. /\ run = NoRun /\ handovers[id].status = "pending_receive"
      /\ UNCHANGED <<others, tables, swept, stops, events>>
  BY DEF Confirm
<1>2. CASE handovers' = UpdateHandoverStatus(handovers, id, "rejected") /\ UNCHANGED run
  BY <1>1, <1>2, StatusKeeps DEF HandoverStatuses
<1>3. CASE BeginRun("execute", id) /\ UNCHANGED handovers
  BY <1>1, <1>3, BeginRunKeeps DEF others, tables
<1> QED BY <1>2, <1>3 DEF Confirm

LEMMA CancelKeeps ==
  ASSUME HandoverInvariant, NEW id \in DOMAIN handovers, Cancel(id)
  PROVE  HandoverInvariant'
<1>1. run' = NoRun /\ UNCHANGED <<others, tables, swept, stops, events>>
  BY DEF Cancel
<1>2. CASE handovers' = handovers
  <2>1. HandoversTyped'
    BY <1>1, <1>2 DEF HandoverInvariant, HandoversTyped, others
  <2> QED BY <1>1, <2>1, CrashesCounted, TablesStay, NothingUnderWay
<1>3. CASE handovers' = UpdateHandoverStatus(handovers, id, "cancelled")
  BY <1>1, <1>3, StatusKeeps DEF HandoverStatuses
<1> QED BY <1>2, <1>3 DEF Cancel, CancelHandover

(* Every handover is written at once, none with another giver or receiver. *)
LEMMA AllWritten ==
  ASSUME HandoversTyped, UNCHANGED limits, NEW W, handovers' = [id \in DOMAIN handovers |-> W[id]],
         \A id \in DOMAIN handovers :
           W[id] \in HandoverRow /\ W[id].from = handovers[id].from /\ W[id].to = handovers[id].to
  PROVE  HandoversTyped' /\ DOMAIN handovers' = DOMAIN handovers
<1>1. handovers \in Seq(HandoverRow) /\ DOMAIN handovers = 1..Len(handovers) /\ Len(handovers) \in Nat
  BY LenProperties DEF HandoversTyped
<1>2. handovers' \in [1..Len(handovers) -> HandoverRow]
  BY <1>1
<1>3. handovers' \in Seq(HandoverRow) /\ Len(handovers') = Len(handovers)
  BY <1>1, <1>2, SeqDef, LenProperties
<1> QED BY <1>1, <1>2, <1>3 DEF HandoversTyped

LEMMA SweepKeeps == HandoverInvariant /\ CheckAndCancelExpired => HandoverInvariant'
<1> SUFFICES ASSUME HandoverInvariant, CheckAndCancelExpired PROVE HandoverInvariant'
  OBVIOUS
<1>1. /\ run' = NoRun /\ UNCHANGED <<others, tables, stops, events>> /\ swept' \in BOOLEAN
      /\ HandoversTyped
  BY DEF CheckAndCancelExpired, HandoverInvariant, HandoverRest
<1> DEFINE W == [id \in DOMAIN handovers |->
                   IF id \in ListExpiredPendingHandovers THEN CancelHandover(handovers, id)[id]
                                                         ELSE handovers[id]]
<1>2. ASSUME NEW id \in DOMAIN handovers
      PROVE  W[id] \in HandoverRow /\ W[id].from = handovers[id].from /\ W[id].to = handovers[id].to
  <2>1. handovers[id] \in HandoverRow
    BY <1>1, LenProperties, ElementOfSeq DEF HandoversTyped
  <2>2. CancelHandover(handovers, id)[id] \in {handovers[id], [handovers[id] EXCEPT !.status = "cancelled"]}
    BY DEF CancelHandover, UpdateHandoverStatus
  <2>3. W[id] \in {handovers[id], [handovers[id] EXCEPT !.status = "cancelled"]}
    BY <2>2
  <2> HIDE DEF W
  <2> QED BY <2>1, <2>3 DEF HandoverRow, HandoverStatuses
<1>3. handovers' = [id \in DOMAIN handovers |-> W[id]]
  BY DEF CheckAndCancelExpired
<1> HIDE DEF W
<1>4. HandoversTyped'
  BY <1>1, <1>2, <1>3, AllWritten DEF others
<1>5. TablesTyped' /\ HandoverRest'
  BY <1>1 DEF HandoverInvariant, TablesTyped, HandoverRest, others, tables, IsQuotas
<1> QED BY <1>1, <1>4, <1>5, NothingUnderWay

LEMMA CrashKeeps == HandoverInvariant /\ HandoverCrash => HandoverInvariant'
<1> SUFFICES ASSUME HandoverInvariant, HandoverCrash PROVE HandoverInvariant'
  OBVIOUS
<1>1. /\ run' = NoRun /\ UNCHANGED <<others, tables, swept, handovers, events>>
      /\ stops' \in 0..limits.crashes
  BY CrashesCounted DEF HandoverCrash
<1>2. HandoversTyped'
  BY <1>1 DEF HandoverInvariant, HandoversTyped, others
<1> QED BY <1>1, <1>2, TablesStay, NothingUnderWay

LEMMA CheckDoneKeeps == HandoverInvariant /\ CheckDone => HandoverInvariant'
<1> SUFFICES ASSUME HandoverInvariant, CheckDone PROVE HandoverInvariant'
  OBVIOUS
<1>1. run.id \in DOMAIN handovers
  BY DEF HandoverInvariant, RunIsSound, CheckDone
<1> QED BY <1>1, StatusKeeps DEF CheckDone, HandoverStatuses

LEMMA ExecuteDoneKeeps == HandoverInvariant /\ ExecuteDone => HandoverInvariant'
<1> SUFFICES ASSUME HandoverInvariant, ExecuteDone PROVE HandoverInvariant'
  OBVIOUS
<1>1. run.id \in DOMAIN handovers
  BY DEF HandoverInvariant, RunIsSound, ExecuteDone
<1> QED BY <1>1, StatusKeeps DEF ExecuteDone, HandoverStatuses

LEMMA ChecksAreChecks ==
  ASSUME NEW h, NEW item
  PROVE  PreCheckResource(h, item) \in Checks
BY DEF PreCheckResource, PreCheckLock, PreCheckQuota, PreCheckOrchTx, PreCheckTopology,
       PreCheckReservation, Checks

LEMMA CheckNextKeeps == HandoverInvariant /\ CheckNext => HandoverInvariant'
<1> SUFFICES ASSUME HandoverInvariant, CheckNext PROVE HandoverInvariant'
  OBVIOUS
<1>1. /\ run.mode = "check" /\ run.pos <= Len(H.items) /\ HandoversTyped /\ RunIsSound
      /\ UNCHANGED <<others, tables, swept, stops, events>>
  BY DEF CheckNext, HandoverInvariant
<1>2. /\ run.id \in DOMAIN handovers /\ H \in HandoverRow /\ H.items \in Seq(FitItem)
      /\ Len(H.items) \in Nat /\ \A i \in 1..Len(H.items) : H.items[i] \in FitItem
      /\ run.pos \in 1..Len(H.items) /\ run \in RunsFrom(run.before)
      /\ H.status \in {"created", "prechecked"} /\ run.part = 1
  BY <1>1, TheRun DEF RunIsSound
<1> DEFINE c == PreCheckResource(H, It)
           x == [H.items[run.pos] EXCEPT !.check = c]
           h == [H EXCEPT !.items = [H.items EXCEPT ![run.pos] = x]]
<1>3. x \in FitItem
  <2>1. c \in Checks
    BY ChecksAreChecks
  <2> HIDE DEF c
  <2> QED BY <1>2, <2>1 DEF FitItem, Item
<1>4. h = [H EXCEPT !.items = [H.items EXCEPT ![run.pos] = x]]
  OBVIOUS
<1>5. handovers' = [handovers EXCEPT ![run.id] = h]
  BY <1>2 DEF CheckNext, H
<1> HIDE DEF x, c
<1>6. h \in HandoverRow /\ h.from = H.from /\ h.to = H.to /\ h.status = H.status /\ Len(h.items) = Len(H.items)
  <2>1. /\ [H.items EXCEPT ![run.pos] = x] \in Seq(FitItem)
        /\ Len([H.items EXCEPT ![run.pos] = x]) = Len(H.items)
    BY <1>2, <1>3, ExceptSeq
  <2> QED BY <1>2, <1>4, <2>1 DEF HandoverRow
<1> HIDE DEF h
<1>7. HandoversTyped' /\ DOMAIN handovers' = DOMAIN handovers /\ handovers'[run.id] = h
  BY <1>1, <1>2, <1>5, <1>6, HandoverWritten DEF H, others
<1>8. run' = [run EXCEPT !.pos = run.pos + 1]
  BY DEF CheckNext
<1>9. /\ run'.mode = "check" /\ run'.id = run.id /\ run'.pos = run.pos + 1 /\ run'.part = 1
      /\ run'.before = run.before
  BY <1>1, <1>2, <1>8 DEF RunsFrom
<1>10. H' = h
  BY <1>7, <1>9 DEF H
<1>11. run' \in RunsFrom(run'.before)
  <2> DEFINE b == run.before
             p == run.pos + 1
  <2>1. run \in RunsFrom(b) /\ run' = [run EXCEPT !.pos = p] /\ p \in Nat \ {0} /\ run'.before = b
    BY <1>2, <1>8, <1>9
  <2> HIDE DEF b, p
  <2>2. run' \in RunsFrom(b)
    BY <2>1 DEF RunsFrom
  <2> QED BY <2>1, <2>2
<1>12. RunIsSound'
  BY <1>2, <1>6, <1>7, <1>9, <1>10, <1>11 DEF RunIsSound
<1>13. Taken' /\ ~ LeftAlone'
  BY <1>9 DEF Taken, LeftAlone
<1> QED BY <1>1, <1>7, <1>12, <1>13, CrashesCounted, TablesStay DEF HandoverInvariant

(* Another part changes something: what a handover has taken of transactions
   and reservations stays taken. *)
LEMMA EventKeeps ==
  ASSUME HandoverInvariant, Event, TablesTyped', refused' \subseteq Parties \X Types,
         DOMAIN bindings' = DOMAIN bindings,
         \A t \in Txs : txs'[t].holder = txs[t].holder,
         \A r \in Reservations : reservations'[r].caller = reservations[r].caller
  PROVE  HandoverInvariant'
<1>1. /\ HandoversTyped /\ RunIsSound /\ Taken /\ HandoverRest
      /\ UNCHANGED <<limits, swept, handovers, stops>> /\ events' = events + 1 /\ events < limits.events
  BY DEF HandoverInvariant, Event
<1>2. HandoversTyped'
  BY <1>1 DEF HandoversTyped
<1>3. HandoverRest'
  BY <1>1, TheLimits DEF HandoverRest
<1>4. CASE run = NoRun
  <2>1. run' = NoRun
    BY <1>4 DEF Event
  <2> QED BY <1>2, <1>3, <2>1, NothingUnderWay
<1>5. CASE run # NoRun
  <2>1. run' = [run EXCEPT !.disturbed = TRUE] /\ run \in RunsFrom(run.before)
    BY <1>1, <1>5 DEF Event, RunIsSound
  <2>2. /\ run'.mode = run.mode /\ run'.id = run.id /\ run'.pos = run.pos /\ run'.part = run.part
        /\ run'.applied = run.applied /\ run'.before = run.before /\ run'.disturbed
    BY <2>1 DEF RunsFrom
  <2>3. H' = H /\ It' = It /\ Todo' = Todo /\ run.mode # "none"
    BY <1>1, <1>5, <2>2 DEF H, It, Todo, RunIsSound
  <2>4. run' \in RunsFrom(run'.before)
    <3> DEFINE b == run.before
    <3>1. run \in RunsFrom(b) /\ run' = [run EXCEPT !.disturbed = TRUE] /\ run'.before = b
      BY <2>1, <2>2
    <3> HIDE DEF b
    <3>2. run' \in RunsFrom(b)
      BY <3>1 DEF RunsFrom
    <3> QED BY <3>1, <3>2
  <2>5. RunIsSound'
    BY <1>1, <2>2, <2>3, <2>4 DEF RunIsSound, IsPlaces
  <2>6. \A type : /\ AppliedItems(type)' = AppliedItems(type)
                  /\ \A k : /\ Moving(type, k)' <=> Moving(type, k)
                            /\ Returning(type, k)' <=> Returning(type, k)
                            /\ Given(type, k)' <=> Given(type, k)
    BY <2>2, <2>3 DEF AppliedItems, Moving, Returning, Given
  <2>7. \A x \in AppliedItems("reservation") : x.key \in Reservations
    BY <1>1, AppliedExist, Kinds
  <2>8. Taken'
    BY <1>1, <2>2, <2>3, <2>6, <2>7 DEF Taken, TxsTaken, ReservationsTaken
  <2>9. ~ LeftAlone'
    BY <2>2 DEF LeftAlone
  <2> QED BY <1>2, <1>3, <2>5, <2>8, <2>9 DEF HandoverInvariant
<1> QED BY <1>4, <1>5

LEMMA OtherPartsKeep == HandoverInvariant /\ OthersGoOn => HandoverInvariant'
<1> SUFFICES ASSUME HandoverInvariant, OthersGoOn PROVE HandoverInvariant'
  OBVIOUS
<1>1. /\ TablesTyped /\ refused \subseteq Parties \X Types
  BY DEF HandoverInvariant, HandoverRest
<1>2. ASSUME NEW l \in Locks, NEW c \in Parties \cup {NoParty}, LockPasses(l, c)
      PROVE  HandoverInvariant'
  <2>1. /\ Event /\ locks' = [locks EXCEPT ![l] = [holder |-> c, lease |-> c]]
        /\ UNCHANGED <<bindings, txs, reservations, refused>>
    BY <1>2 DEF LockPasses
  <2>2. locks' \in [Locks -> HolderRows]
    BY <1>1, <2>1 DEF TablesTyped, HolderRows
  <2>3. TablesTyped'
    BY <1>1, <2>1, <2>2 DEF TablesTyped, IsQuotas
  <2> QED BY <1>1, <2>1, <2>3, EventKeeps
<1>3. ASSUME NEW c \in DOMAIN bindings, NEW used \in 0..1, NEW borrowed \in 0..1,
             QuotaChanges(c, used, borrowed)
      PROVE  HandoverInvariant'
  <2>1. /\ Event /\ bindings' = [bindings EXCEPT ![c] = [@ EXCEPT !.used = used, !.borrowed = borrowed]]
        /\ UNCHANGED <<locks, txs, reservations, refused>>
    BY <1>3 DEF QuotaChanges
  <2>2. bindings[c] \in BindingRow
    BY <1>1 DEF TablesTyped, IsQuotas
  <2>3. [bindings[c] EXCEPT !.used = used, !.borrowed = borrowed] \in BindingRow
    <3>1. used \in Nat /\ borrowed \in Nat
      BY <1>3
    <3>2. \A b \in BindingRow, u, v \in Nat : [b EXCEPT !.used = u, !.borrowed = v] \in BindingRow
      BY DEF BindingRow
    <3> QED BY <2>2, <3>1, <3>2
  <2>4. DOMAIN bindings' = DOMAIN bindings /\ bindings' \in [DOMAIN bindings -> BindingRow]
    BY <1>1, <2>1, <2>3 DEF TablesTyped, IsQuotas
  <2>5. TablesTyped'
    BY <1>1, <2>1, <2>4 DEF TablesTyped, IsQuotas
  <2> QED BY <1>1, <2>1, <2>4, <2>5, EventKeeps
<1>4. ASSUME NEW t \in Txs, TxReleased(t) PROVE HandoverInvariant'
  <2>1. /\ Event /\ txs' = [txs EXCEPT ![t].committed = FALSE]
        /\ UNCHANGED <<locks, bindings, reservations, refused>>
    BY <1>4 DEF TxReleased
  <2>2. txs' \in [Txs -> TxRow] /\ \A u \in Txs : txs'[u].holder = txs[u].holder
    BY <1>1, <2>1 DEF TablesTyped, TxRow
  <2>3. TablesTyped'
    BY <1>1, <2>1, <2>2 DEF TablesTyped, IsQuotas
  <2> QED BY <1>1, <2>1, <2>2, <2>3, EventKeeps
<1>5. ASSUME NEW r \in Reservations, ReservationOver(r) PROVE HandoverInvariant'
  <2>1. /\ Event /\ reservations' = [reservations EXCEPT ![r].live = FALSE]
        /\ UNCHANGED <<locks, bindings, txs, refused>>
    BY <1>5 DEF ReservationOver
  <2>2. /\ reservations' \in [Reservations -> ReservationRow]
        /\ \A u \in Reservations : reservations'[u].caller = reservations[u].caller
    BY <1>1, <2>1 DEF TablesTyped, ReservationRow
  <2>3. TablesTyped'
    BY <1>1, <2>1, <2>2 DEF TablesTyped, IsQuotas
  <2> QED BY <1>1, <2>1, <2>2, <2>3, EventKeeps
<1>6. ASSUME NEW c \in Parties, NEW type \in {"lock", "quota", "orch_tx"}, RefusalChanges(c, type)
      PROVE  HandoverInvariant'
  <2>1. Event /\ refused' = SymDiff(refused, {<<c, type>>}) /\ UNCHANGED tables
    BY <1>6 DEF RefusalChanges
  <2>2. refused' \subseteq Parties \X Types
    BY <1>1, <2>1 DEF SymDiff, Types
  <2>3. TablesTyped' /\ bindings' = bindings /\ txs' = txs /\ reservations' = reservations
    BY <1>1, <2>1 DEF TablesTyped, IsQuotas, tables
  <2> QED BY <2>1, <2>2, <2>3, EventKeeps
<1> QED BY <1>2, <1>3, <1>4, <1>5, <1>6 DEF OthersGoOn

(* Time passes: the handover of an execution is the same but for its deadline. *)
LEMMA TimeKeeps == HandoverInvariant /\ DeadlinesNear => HandoverInvariant'
<1> SUFFICES ASSUME HandoverInvariant, DeadlinesNear PROVE HandoverInvariant'
  OBVIOUS
<1>1. /\ run' = run /\ UNCHANGED <<others, tables, swept, stops, events>>
      /\ HandoversTyped /\ RunIsSound /\ Taken /\ (LeftAlone => Traced)
  BY DEF DeadlinesNear, HandoverInvariant
<1> DEFINE W == [id \in DOMAIN handovers |->
                   [handovers[id] EXCEPT !.left = IF @ > 0 THEN @ - 1 ELSE 0]]
<1>2. ASSUME NEW id \in DOMAIN handovers
      PROVE  /\ W[id] \in HandoverRow /\ W[id].from = handovers[id].from /\ W[id].to = handovers[id].to
             /\ W[id].items = handovers[id].items /\ W[id].status = handovers[id].status
  <2>1. handovers[id] \in HandoverRow
    BY <1>1, LenProperties, ElementOfSeq DEF HandoversTyped
  <2> QED BY <2>1 DEF HandoverRow
<1>3. handovers' = W
  BY DEF DeadlinesNear
<1>4. handovers' = [id \in DOMAIN handovers |-> W[id]]
  BY <1>3
<1> HIDE DEF W
<1>5. HandoversTyped' /\ DOMAIN handovers' = DOMAIN handovers
  BY <1>1, <1>2, <1>4, AllWritten DEF others
<1>6. TablesTyped' /\ HandoverRest'
  BY <1>1, CrashesCounted, TablesStay
<1>7. CASE run.mode = "none"
  <2>1. run' = NoRun
    BY <1>1, <1>7 DEF RunIsSound
  <2> QED BY <1>5, <1>6, <2>1, NothingUnderWay
<1>8. CASE run.mode # "none"
  <2>1. run.id \in DOMAIN handovers
    BY <1>1, <1>8 DEF RunIsSound
  <2>2. H' = W[run.id]
    BY <1>1, <1>3 DEF H
  <2>3. /\ H'.from = H.from /\ H'.to = H.to /\ H'.items = H.items /\ H'.status = H.status
    BY <1>2, <2>1, <2>2 DEF H
  <2>4. It' = It /\ Todo' = Todo
    BY <1>1, <2>3 DEF It, Todo
  <2>5. RunIsSound'
    BY <1>1, <1>5, <2>3, <2>4 DEF RunIsSound, IsPlaces, tables
  <2>6. \A type : Same(type)
    BY <1>1, <2>4 DEF Same, AppliedItems, Moving, Returning, Reading, Given
  <2>7. /\ locks' = locks /\ bindings' = bindings /\ txs' = txs /\ reservations' = reservations
    BY <1>1 DEF tables
  <2>8. run.mode \in {"execute", "rollback"} => GoesOn
    BY <1>1, <2>3 DEF GoesOn
  <2>9. Taken'
    BY <1>1, <2>6, <2>7, <2>8, SameTxs, SameReservations DEF Taken
  <2>10. ASSUME LeftAlone' PROVE Traced'
    <3>1. Traced /\ GoesOn
      BY <1>1, <2>8, <2>10 DEF LeftAlone
    <3>2. LocksTraced' /\ TxsTraced' /\ ReservationsTraced'
      BY <2>6, <2>7, <3>1, SameLocks, SameTxs, SameReservations DEF Traced
    <3>3. AllMoved'
      BY <1>1, <2>3, <2>7, <3>1 DEF Traced, AllMoved, IsMoved
    <3>4. \A part \in {"used", "borrowed"} : Twice(part)' = Twice(part)
      BY <1>1, <2>3, <2>4, <2>7 DEF Twice
    <3>5. UsageTraced'
      BY <2>7, <3>1, <3>4, SameUsage DEF Traced
    <3> QED BY <3>2, <3>3, <3>5 DEF Traced
  <2> QED BY <1>5, <1>6, <2>5, <2>9, <2>10 DEF HandoverInvariant
<1> QED BY <1>7, <1>8

-----------------------------------------------------------------------------
(* Every step, and what it says of the system.                             *)

LEMMA HandoverBegins == HandoverInit => HandoverInvariant
<1> SUFFICES ASSUME HandoverInit PROVE HandoverInvariant
  OBVIOUS
<1>1. /\ limits \in HandoverBounds /\ handovers = << >> /\ swept = FALSE /\ run = NoRun
      /\ refused = {} /\ stops = 0 /\ events = 0
  BY DEF HandoverInit, NoHandovers
<1>2. TablesTyped
  <2>1. PICK f \in Firsts : /\ locks = f.locks /\ bindings = f.bindings
                            /\ txs = f.txs /\ reservations = f.reservations
    BY DEF HandoverInit
  <2>2. /\ f.locks \in [Locks -> HolderRows] /\ IsQuotas(f.bindings)
        /\ f.txs \in [Txs -> TxRow] /\ f.reservations \in [Reservations -> ReservationRow]
    BY HandoverAssumption DEF IsQuotas
  <2> QED BY <2>1, <2>2 DEF TablesTyped
<1>3. HandoversTyped
  <2>1. /\ << >> \in Seq(HandoverRow) /\ Len(<< >>) = 0 /\ DOMAIN << >> = {}
    OBVIOUS
  <2> QED BY <1>1, <2>1, TheLimits DEF HandoversTyped
<1>4. HandoverRest
  <2>1. swept \in BOOLEAN /\ refused \subseteq Parties \X Types
    BY <1>1
  <2>2. limits \in HandoverBounds /\ stops \in 0..limits.crashes /\ events \in 0..limits.events
    BY <1>1, TheLimits
  <2> QED BY <2>1, <2>2 DEF HandoverRest
<1>5. RunIsSound
  <2>1. << >> \in Seq(FitItem)
    OBVIOUS
  <2>2. NoRun \in RunsFrom(NoRun.before) /\ NoRun.mode = "none"
    BY <2>1 DEF NoRun, RunsFrom
  <2> QED BY <1>1, <2>2 DEF RunIsSound
<1>6. run.mode = "none"
  BY <1>1 DEF NoRun
<1> QED BY <1>2, <1>3, <1>4, <1>5, <1>6 DEF HandoverInvariant, Taken, LeftAlone

LEMMA HandoverStutters == HandoverInvariant /\ UNCHANGED handoverVars => HandoverInvariant'
<1> SUFFICES ASSUME HandoverInvariant, UNCHANGED handoverVars PROVE HandoverInvariant'
  OBVIOUS
<1>1. /\ limits' = limits /\ swept' = swept /\ handovers' = handovers /\ run' = run
      /\ locks' = locks /\ bindings' = bindings /\ txs' = txs /\ reservations' = reservations
      /\ refused' = refused /\ stops' = stops /\ events' = events
  BY DEF handoverVars
<1>2. H' = H /\ It' = It /\ Todo' = Todo
  BY <1>1 DEF H, It, Todo
<1>3. TablesTyped' /\ HandoversTyped' /\ HandoverRest' /\ RunIsSound'
  BY <1>1, <1>2 DEF HandoverInvariant, TablesTyped, IsQuotas, HandoversTyped, HandoverRest, RunIsSound,
                    IsPlaces
<1>4. \A type : Same(type)
  BY <1>1, <1>2 DEF Same, AppliedItems, Moving, Returning, Reading, Given
<1>5. run.mode \in {"execute", "rollback"} => GoesOn
  BY <1>1, <1>2 DEF GoesOn
<1>6. Taken'
  BY <1>1, <1>4, <1>5, SameTxs, SameReservations DEF HandoverInvariant, Taken
<1>7. ASSUME LeftAlone' PROVE Traced'
  <2>1. Traced /\ GoesOn
    BY <1>1, <1>5, <1>7 DEF LeftAlone, HandoverInvariant
  <2>2. LocksTraced' /\ TxsTraced' /\ ReservationsTraced'
    BY <1>1, <1>4, <2>1, SameLocks, SameTxs, SameReservations DEF Traced
  <2>3. AllMoved'
    BY <1>1, <1>2, <2>1 DEF Traced, AllMoved, IsMoved
  <2>4. \A part \in {"used", "borrowed"} : Twice(part)' = Twice(part)
    BY <1>1, <1>2 DEF Twice
  <2>5. UsageTraced'
    BY <1>1, <2>1, <2>4, SameUsage DEF Traced
  <2> QED BY <2>2, <2>3, <2>5 DEF Traced
<1> QED BY <1>3, <1>6, <1>7 DEF HandoverInvariant

LEMMA HandoverStep == HandoverInvariant /\ [HandoverNext]_handoverVars => HandoverInvariant'
<1> SUFFICES ASSUME HandoverInvariant, [HandoverNext]_handoverVars PROVE HandoverInvariant'
  OBVIOUS
<1>1. CASE PostHandover \/ \E r \in limits.requests, n \in 0..3 : CrashInCreate(r, n)
  BY <1>1, CreateKeeps DEF PostHandover
<1>2. CASE PostPreCheck
  BY <1>2, PreCheckKeeps DEF PostPreCheck
<1>3. CASE PostInitiate
  BY <1>3, InitiateKeeps DEF PostInitiate
<1>4. CASE PostConfirm
  BY <1>4, ConfirmKeeps DEF PostConfirm
<1>5. CASE PostCancel
  BY <1>5, CancelKeeps DEF PostCancel
<1>6. CASE CheckAndCancelExpired \/ HandoverCrash \/ DeadlinesNear
  BY <1>6, SweepKeeps, CrashKeeps, TimeKeeps
<1>7. CASE MutexHolder
  BY <1>7, CheckNextKeeps, CheckDoneKeeps, ExecuteResourceKeeps, ExecuteDoneKeeps, RollbackKeeps
     DEF MutexHolder
<1>8. CASE OthersGoOn
  BY <1>8, OtherPartsKeep
<1>9. CASE UNCHANGED handoverVars
  BY <1>9, HandoverStutters
<1> QED BY <1>1, <1>2, <1>3, <1>4, <1>5, <1>6, <1>7, <1>8, <1>9 DEF HandoverNext

(* What the tables, the handovers and the execution under way have to do
   with one another (Manager.ExecuteHandover, executeResource, rollback). *)
THEOREM HandoverInductive == HandoverSpec => []HandoverInvariant
<1> QED BY HandoverBegins, HandoverStep, PTL DEF HandoverSpec

(* For every set of callers, resources and requests: the rows stay well
   formed, and no use or debt of quota is lost while it is handed over
   (executeQuotaTransfer). *)
THEOREM HandoverSound == HandoverSpec => []HandoverIsSound
<1> QED BY HandoverInductive, InvariantIsEnough, PTL

(* Only the end of an execution, or of its rollback, lets the mutex go
   without a crash. *)
LEMMA TheLastStep ==
  ASSUME HandoverInvariant, [HandoverNext]_handoverVars,
         run.mode \in {"execute", "rollback"}, run' = NoRun, stops' = stops
  PROVE  ExecuteDone \/ (run.mode = "rollback" /\ Todo = << >> /\ UNCHANGED <<tables, handovers>>)
<1>1. /\ run # NoRun /\ run'.mode = "none" /\ run \in RunsFrom(run.before) /\ stops \in Nat
  BY TheLimits DEF NoRun, HandoverInvariant, RunIsSound, HandoverRest
<1>2. ~ (PostHandover \/ PostPreCheck \/ PostInitiate \/ PostConfirm \/ PostCancel)
  BY <1>1 DEF PostHandover, PostPreCheck, PostInitiate, PostConfirm, PostCancel, CreateHandover,
              PreCheck, Initiate, Confirm, Cancel
<1>3. ~ (CheckAndCancelExpired \/ HandoverCrash \/ DeadlinesNear \/ UNCHANGED handoverVars)
  BY <1>1 DEF CheckAndCancelExpired, HandoverCrash, DeadlinesNear, handoverVars
<1>4. ~ \E r \in limits.requests, n \in 0..3 : CrashInCreate(r, n)
  BY <1>1 DEF CrashInCreate
<1>5. ~ OthersGoOn
  <2>1. ~ Event
    <3>1. [run EXCEPT !.disturbed = TRUE].mode = run.mode
      BY <1>1 DEF RunsFrom
    <3> QED BY <1>1, <3>1 DEF Event
  <2> QED BY <2>1 DEF OthersGoOn, LockPasses, QuotaChanges, TxReleased, ReservationOver, RefusalChanges
<1>6. ~ (CheckNext \/ CheckDone)
  BY DEF CheckNext, CheckDone
<1>7. ~ ExecuteResource
  <2>1. ~ Go
    <3>1. [run EXCEPT !.part = run.part + 1].mode = run.mode
      BY <1>1 DEF RunsFrom
    <3> QED BY <1>1, <3>1 DEF Go
  <2>2. ~ Fail
    <3>1. [run EXCEPT !.mode = "rollback"].mode = "rollback"
      BY <1>1 DEF RunsFrom
    <3> QED BY <1>1, <3>1 DEF Fail
  <2>3. ~ ItemApplied
    <3>1. [run EXCEPT !.pos = run.pos + 1, !.part = 1, !.applied = Append(run.applied, It)].mode = run.mode
      BY <1>1 DEF RunsFrom
    <3> QED BY <1>1, <3>1 DEF ItemApplied
  <2> QED BY <2>1, <2>2, <2>3 DEF ExecuteResource, ExecuteLockTransfer, ExecuteQuotaTransfer,
                                  ExecuteOrchTxTransfer, ExecuteReservationTransfer
<1>8. ASSUME RollbackAll
      PROVE  run.mode = "rollback" /\ Todo = << >> /\ UNCHANGED <<tables, handovers>>
  <2>1. ASSUME NEW item PROVE ~ RollbackNext(item)
    <3>1. ~ IsBack(item)
      <4>1. ASSUME NEW a PROVE [run EXCEPT !.part = 1, !.applied = a].mode = run.mode
        BY <1>1 DEF RunsFrom
      <4> QED BY <1>1, <4>1 DEF IsBack
    <3>2. run' # [run EXCEPT !.part = 2]
      <4>1. [run EXCEPT !.part = 2].mode = run.mode
        BY <1>1 DEF RunsFrom
      <4> QED BY <1>1, <4>1
    <3> QED BY <3>1, <3>2 DEF RollbackNext
  <2> QED BY <1>8, <2>1 DEF RollbackAll, Todo
<1> QED BY <1>2, <1>3, <1>4, <1>5, <1>6, <1>7, <1>8 DEF HandoverNext, MutexHolder

(* An execution that is left alone moves everything or nothing
   (Manager.ExecuteHandover and its rollback). *)
THEOREM EverythingOrNothing == HandoverSpec => AllOrNothing
<1> DEFINE Ends == run.mode \in {"execute", "rollback"} /\ run' = NoRun /\ stops' = stops
                     /\ ~ run.disturbed
<1>1. ASSUME HandoverInvariant, [HandoverNext]_handoverVars, Ends
      PROVE  IF H.status # "completed" /\ handovers'[run.id].status = "completed"
             THEN Moved(H.items, H.to)
             ELSE /\ \A l \in Locks :
                       /\ locks'[l].holder = run.before.locks[l].holder
                       /\ locks'[l].lease \in {run.before.locks[l].lease, locks'[l].holder}
                  /\ \A t \in Txs :
                       /\ txs'[t].holder = run.before.txs[t].holder
                       /\ txs'[t].locks \in {run.before.txs[t].locks, txs'[t].holder}
                  /\ reservations' = run.before.reservations
  <2>1. /\ TablesTyped /\ HandoversTyped /\ RunIsSound /\ Traced
    BY <1>1 DEF HandoverInvariant, LeftAlone
  <2>2. /\ run.id \in DOMAIN handovers /\ H \in HandoverRow /\ Len(H.items) \in Nat
        /\ DOMAIN H.items = 1..Len(H.items) /\ run.pos \in 1..(Len(H.items) + 1)
        /\ H.status \in {"prechecked", "pending_receive"} /\ IsPlaces(run.before)
        /\ run.applied \in Seq(FitItem)
        /\ \A i \in 1..Len(H.items) : H.items[i] \in FitItem
    BY <1>1, <2>1, TheRun DEF RunIsSound
  <2>3. CASE ExecuteDone
    <3>1. /\ run.mode = "execute" /\ run.pos > Len(H.items) /\ UNCHANGED tables
          /\ handovers' = UpdateHandoverStatus(handovers, run.id, "completed")
      BY <2>3 DEF ExecuteDone
    <3>2. handovers'[run.id].status = "completed"
      <4>1. handovers'[run.id] = [H EXCEPT !.status = "completed"]
        BY <2>2, <3>1 DEF UpdateHandoverStatus, H
      <4> QED BY <2>2, <4>1 DEF HandoverRow
    <3>3. \A i \in 1..Len(H.items) : IsMoved(H.items[i])
      BY <2>1, <2>2, <3>1 DEF Traced, AllMoved
    <3>4. Moved(H.items, H.to)
      BY <2>2, <3>1, <3>3 DEF Moved, IsMoved, Range, tables
    <3> QED BY <2>2, <3>2, <3>4
  <2>4. CASE run.mode = "rollback" /\ Todo = << >> /\ UNCHANGED <<tables, handovers>>
    <3>1. /\ locks' = locks /\ txs' = txs /\ reservations' = reservations
          /\ handovers'[run.id].status # "completed"
      BY <2>2, <2>4 DEF tables, H
    <3>2. \A type \in {"lock", "orch_tx", "reservation"} : AppliedItems(type) = {}
      <4>1. run.applied \in Seq(Item)
        BY <2>2, MoreResources
      <4>2. {x \in Range(run.applied) : x.type \in {"reservation", "orch_tx", "lock"}} = {}
        BY <2>4, <4>1, BackInOrder DEF Todo
      <4> QED BY <4>2 DEF AppliedItems
    <3>3. \A type \in {"lock", "orch_tx", "reservation"} : \A k : ~ Given(type, k)
      BY <2>4, <3>2 DEF Given, Moving
    <3>4. ASSUME NEW l \in Locks
          PROVE  /\ locks'[l].holder = run.before.locks[l].holder
                 /\ locks'[l].lease \in {run.before.locks[l].lease, locks'[l].holder}
      BY <2>1, <3>1, <3>3 DEF Traced, LocksTraced
    <3>5. ASSUME NEW t \in Txs
          PROVE  /\ txs'[t].holder = run.before.txs[t].holder
                 /\ txs'[t].locks \in {run.before.txs[t].locks, txs'[t].holder}
      BY <2>1, <3>1, <3>3 DEF Traced, TxsTraced
    <3>6. reservations' = run.before.reservations
      <4>1. /\ run.before.reservations \in [Reservations -> ReservationRow]
            /\ reservations' \in [Reservations -> ReservationRow]
        BY <2>1, <2>2, <3>1 DEF IsPlaces, TablesTyped
      <4>2. ASSUME NEW r \in Reservations PROVE reservations'[r] = run.before.reservations[r]
        <5>1. /\ reservations'[r].live = run.before.reservations[r].live
              /\ reservations'[r].caller = run.before.reservations[r].caller
          BY <2>1, <3>1, <3>3 DEF Traced, ReservationsTraced
        <5>2. \A x, y \in ReservationRow : x.live = y.live /\ x.caller = y.caller => x = y
          BY DEF ReservationRow
        <5> QED BY <4>1, <5>1, <5>2
      <4> QED BY <4>1, <4>2
    <3> QED BY <3>1, <3>4, <3>5, <3>6
  <2> QED BY <1>1, <2>3, <2>4, TheLastStep
<1> QED BY <1>1, HandoverInductive, PTL DEF HandoverSpec, AllOrNothing

(* A row another has is the giver's before it is taken, and the receiver's
   before it is given back. *)
LEMMA WhoLoses ==
  ASSUME HandoverInvariant, [HandoverNext]_handoverVars
  PROVE  /\ \A t \in Txs :
              txs'[t].holder # txs[t].holder =>
                {txs[t].holder, txs'[t].holder} = {H.from, H.to} /\ H.status \notin Final
         /\ \A r \in Reservations :
              reservations'[r].caller # reservations[r].caller =>
                {reservations[r].caller, reservations'[r].caller} = {H.from, H.to}
                  /\ H.status \notin Final
<1>1. /\ TablesTyped /\ HandoversTyped /\ RunIsSound /\ Taken
  BY DEF HandoverInvariant
<1>2. ASSUME ExecuteResource
      PROVE  /\ \A t \in Txs : txs'[t].holder # txs[t].holder =>
                                 txs[t].holder = H.from /\ txs'[t].holder = H.to
             /\ \A r \in Reservations : reservations'[r].caller # reservations[r].caller =>
                                 reservations[r].caller = H.from /\ reservations'[r].caller = H.to
  <2>1. /\ txs \in [Txs -> TxRow] /\ reservations \in [Reservations -> ReservationRow]
    BY <1>1 DEF TablesTyped
  <2>2. CASE It.type \in {"lock", "quota", "topology_subtree"}
    BY <1>2, <2>2 DEF ExecuteResource, ExecuteLockTransfer, ExecuteQuotaTransfer, tables
  <2>3. CASE It.type = "orch_tx" /\ ExecuteOrchTxTransfer(It.key)
    BY <2>1, <2>3 DEF ExecuteOrchTxTransfer, TxRow
  <2>4. CASE It.type = "reservation" /\ ExecuteReservationTransfer(It.key)
    BY <2>1, <2>4 DEF ExecuteReservationTransfer, ReservationRow
  <2> QED BY <1>2, <2>2, <2>3, <2>4 DEF ExecuteResource
<1>3. ASSUME RollbackAll
      PROVE  /\ \A t \in Txs : txs'[t].holder # txs[t].holder =>
                                 txs[t].holder = H.to /\ txs'[t].holder = H.from
             /\ \A r \in Reservations : reservations'[r].caller # reservations[r].caller =>
                                 reservations[r].caller = H.to /\ reservations'[r].caller = H.from
  <2>1. /\ txs \in [Txs -> TxRow] /\ reservations \in [Reservations -> ReservationRow]
        /\ run.mode = "rollback" /\ TxsTaken /\ ReservationsTaken
    BY <1>1, <1>3 DEF TablesTyped, RollbackAll, Taken
  <2>2. CASE Todo = << >> /\ UNCHANGED tables
    BY <2>2 DEF tables
  <2>3. CASE Todo # << >> /\ RollbackNext(Head(Todo))
    <3> DEFINE item == Head(Todo)
    <3>1. item \in AppliedItems(item.type)
      BY <1>1, <2>1, <2>3, TheTodo
    <3> HIDE DEF item
    <3>2. CASE item.type = "lock"
      BY <2>3, <3>2 DEF RollbackNext, item
    <3>3. CASE item.type = "orch_tx" /\ run.part = 2
      BY <2>1, <2>3, <3>3 DEF RollbackNext, item, TxRow
    <3>4. CASE item.type = "orch_tx" /\ run.part = 1
      <4>1. txs' = [txs EXCEPT ![item.key].holder = H.from] /\ reservations' = reservations
        BY <2>3, <3>4 DEF RollbackNext, item
      <4>2. item.key \in Txs => txs[item.key].holder = H.to
        BY <2>1, <3>1, <3>4 DEF TxsTaken, Given, Returning
      <4> QED BY <2>1, <4>1, <4>2 DEF TxRow
    <3>5. CASE item.type = "reservation"
      <4>1. reservations' = [reservations EXCEPT ![item.key].caller = H.from] /\ txs' = txs
        BY <2>3, <3>5 DEF RollbackNext, item
      <4>2. reservations[item.key].caller = H.to
        BY <2>1, <3>1, <3>5 DEF ReservationsTaken
      <4> QED BY <2>1, <4>1, <4>2 DEF ReservationRow
    <3> QED BY <2>3, <3>2, <3>3, <3>4, <3>5 DEF RollbackNext, item
  <2> QED BY <1>3, <2>2, <2>3 DEF RollbackAll, Todo
<1>4. ASSUME ExecuteResource \/ RollbackAll PROVE H.status \notin Final
  BY <1>1, <1>4 DEF RunIsSound, ExecuteResource, RollbackAll, Final
<1>5. CASE ExecuteResource \/ RollbackAll
  BY <1>2, <1>3, <1>4, <1>5
<1>6. CASE ~ (ExecuteResource \/ RollbackAll \/ OthersGoOn)
  <2>1. txs' = txs /\ reservations' = reservations
    BY <1>6 DEF HandoverNext, MutexHolder, PostHandover, PostPreCheck, PostInitiate, PostConfirm,
                PostCancel, CreateHandover, PreCheck, Initiate, Confirm, Cancel,
                CheckAndCancelExpired, HandoverCrash, CrashInCreate, DeadlinesNear, CheckNext,
                CheckDone, ExecuteDone, tables, handoverVars
  <2> QED BY <2>1
<1>7. CASE OthersGoOn
  <2>1. /\ txs \in [Txs -> TxRow] /\ reservations \in [Reservations -> ReservationRow]
    BY <1>1 DEF TablesTyped
  <2>2. \/ txs' = txs /\ reservations' = reservations
        \/ \E t \in Txs : txs' = [txs EXCEPT ![t].committed = FALSE] /\ reservations' = reservations
        \/ \E r \in Reservations : reservations' = [reservations EXCEPT ![r].live = FALSE] /\ txs' = txs
    BY <1>7 DEF OthersGoOn, LockPasses, QuotaChanges, TxReleased, ReservationOver, RefusalChanges, tables
  <2> QED BY <2>1, <2>2 DEF TxRow, ReservationRow
<1> QED BY <1>5, <1>6, <1>7

(* Only the giver loses transactions and reservations, and only to the
   receiver (executeOrchTxTransfer, executeReservationTransfer, rollback). *)
THEOREM OnlyTheGiver == HandoverSpec => OnlyTheGiverLoses
<1> QED BY HandoverInductive, WhoLoses, PTL DEF HandoverSpec, OnlyTheGiverLoses

LEMMA HandoversStayFinal ==
  ASSUME HandoverInvariant, [HandoverNext]_handoverVars, NEW id \in DOMAIN handovers,
         handovers[id].status \in Final
  PROVE  handovers'[id].status = handovers[id].status
<1>1. /\ HandoversTyped /\ RunIsSound /\ handovers \in Seq(HandoverRow)
      /\ Len(handovers) \in Nat /\ DOMAIN handovers = 1..Len(handovers)
      /\ \A j \in DOMAIN handovers : handovers[j] \in HandoverRow
  BY LenProperties, ElementOfSeq DEF HandoverInvariant, HandoversTyped
<1>2. ASSUME NEW j, NEW s, handovers[j].status \notin Final,
             handovers' = UpdateHandoverStatus(handovers, j, s)
      PROVE  handovers'[id] = handovers[id]
  BY <1>2 DEF UpdateHandoverStatus
<1>3. CASE handovers' = handovers
  BY <1>3
<1>4. CASE PostHandover \/ \E r \in limits.requests, n \in 0..3 : CrashInCreate(r, n)
  <2>1. \E h : handovers' = Append(handovers, h)
    BY <1>4 DEF PostHandover, CreateHandover, CrashInCreate
  <2>2. handovers'[id] = handovers[id]
    BY <1>1, <2>1 DEF Append
  <2> QED BY <2>2
<1>5. CASE PostInitiate \/ PostConfirm \/ PostCancel
  <2>1. CASE PostInitiate
    BY <1>2, <1>3, <2>1 DEF PostInitiate, Initiate, Final
  <2>2. CASE PostConfirm
    BY <1>2, <1>3, <2>2 DEF PostConfirm, Confirm, Final
  <2>3. CASE PostCancel
    BY <1>2, <1>3, <2>3 DEF PostCancel, Cancel, CancelHandover
  <2> QED BY <1>5, <2>1, <2>2, <2>3
<1>6. CASE CheckAndCancelExpired
  BY <1>6 DEF CheckAndCancelExpired, ListExpiredPendingHandovers, CancelHandover
<1>7. CASE CheckDone \/ ExecuteDone
  <2>1. H.status \notin Final
    BY <1>1, <1>7 DEF CheckDone, ExecuteDone, RunIsSound, Final
  <2> QED BY <1>2, <1>7, <2>1 DEF CheckDone, ExecuteDone, H
<1>8. CASE CheckNext \/ ItemApplied
  <2>1. CASE CheckNext
    BY <1>1, <2>1 DEF CheckNext, HandoverRow
  <2>2. CASE ItemApplied
    BY <1>1, <2>2 DEF ItemApplied, HandoverRow
  <2> QED BY <1>8, <2>1, <2>2
<1>9. CASE DeadlinesNear
  <2>1. handovers'[id] = [handovers[id] EXCEPT !.left = IF @ > 0 THEN @ - 1 ELSE 0]
    BY <1>9 DEF DeadlinesNear
  <2> QED BY <1>1, <2>1 DEF HandoverRow
<1>10. PostPreCheck \/ OthersGoOn \/ HandoverCrash \/ RollbackAll \/ UNCHANGED handoverVars
         => handovers' = handovers
  BY DEF PostPreCheck, PreCheck, OthersGoOn, LockPasses, QuotaChanges, TxReleased, ReservationOver,
         RefusalChanges, Event, HandoverCrash, RollbackAll, handoverVars
<1>11. ExecuteResource => handovers' = handovers \/ ItemApplied
  BY DEF ExecuteResource, ExecuteLockTransfer, ExecuteQuotaTransfer, ExecuteOrchTxTransfer,
         ExecuteReservationTransfer, Go, Fail
<1> QED BY <1>3, <1>4, <1>5, <1>6, <1>7, <1>8, <1>9, <1>10, <1>11 DEF HandoverNext, MutexHolder

(* A handover that has ended stays as it ended (Manager.CancelHandover,
   ConfirmHandover, InitiateHandover). *)
THEOREM EndsForGood == HandoverSpec => FinalIsFinal
<1>1. HandoverInvariant /\ [HandoverNext]_handoverVars =>
        \A id \in DOMAIN handovers :
          handovers[id].status \in Final => handovers'[id].status = handovers[id].status
  BY HandoversStayFinal
<1> QED BY <1>1, HandoverInductive, PTL DEF HandoverSpec, FinalIsFinal

=============================================================================
