---------------------------- MODULE FencingTokens ----------------------------
(***************************************************************************)
(* Fencing tokens (internal/fencing over coord_fencing_counters and        *)
(* coord_fencing_tokens).  The manager has no mutex: Issue and Validate    *)
(* are called by requests and by the lock manager at the same time, and    *)
(* each of their SQL statements is a step.  The string of a token is a     *)
(* digest of its path and sequence, so a token is that pair.               *)
(***************************************************************************)
EXTENDS Integers, FiniteSets

CONSTANTS
  Fenced,        \* paths tokens are issued for
  Holders,
  Issuers,       \* calls of Issue that may run at once
  Checkers,      \* calls of Validate that may run at once
  LeaseSecs,     \* lengths tokens are issued for
  None,          \* no call in progress
  MaxSequence,   \* bound on the tokens of one path
  MaxNow         \* bound on the clock

TokenRow == [path : Fenced, sequence : Nat, holder : Holders, expires : Nat, revoked : BOOLEAN]

ASSUME FencingAssumption ==
  /\ LeaseSecs \subseteq Nat \ {0}
  /\ MaxSequence \in Nat /\ MaxNow \in Nat
  /\ None \notin TokenRow

VARIABLES
  counter,     \* next_sequence of each path, 1 when there is no row
  tokens,      \* the rows of coord_fencing_tokens
  now,         \* the clock
  issuing,     \* Issue between NextFencingSequence and InsertFencingToken: the row
  checking,    \* Validate: the clock it was given and the row it read
  accepted     \* history: the largest sequence any Validate has found valid

tokenVars == <<counter, tokens, now, issuing, checking, accepted>>

TokenInit ==
  /\ counter = [p \in Fenced |-> 1]
  /\ tokens = {}
  /\ now = 0
  /\ issuing = [i \in Issuers |-> None]
  /\ checking = [c \in Checkers |-> None]
  /\ accepted = [p \in Fenced |-> 0]

-----------------------------------------------------------------------------
(* Issue *)

NextFencingSequence(i, p, h, secs) ==
  /\ issuing[i] = None
  /\ counter[p] <= MaxSequence
  /\ issuing' = [issuing EXCEPT ![i] = [path |-> p, sequence |-> counter[p], holder |-> h,
                                        expires |-> now + secs, revoked |-> FALSE]]
  /\ counter' = [counter EXCEPT ![p] = @ + 1]
  /\ UNCHANGED <<tokens, now, checking, accepted>>

InsertFencingToken(i) ==
  /\ issuing[i] # None
  /\ tokens' = tokens \cup {issuing[i]}
  /\ issuing' = [issuing EXCEPT ![i] = None]
  /\ UNCHANGED <<counter, now, checking, accepted>>

Revoke(t) ==
  /\ tokens' = (tokens \ {t}) \cup {[t EXCEPT !.revoked = TRUE]}
  /\ UNCHANGED <<counter, now, issuing, checking, accepted>>

(* Validate.  An unknown token, and one of another path or holder, is        *)
(* refused as soon as the row is read and leaves no trace.                   *)

(* Seeded fault: the last sequence but one passes for the newest. *)
LatestButOne(p) == counter[p] - 2

CurrentFencingSequence(p) == counter[p] - 1

Validate(c) ==
  /\ checking[c] = None
  /\ checking' = [checking EXCEPT ![c] = [at |-> now, floor |-> accepted, row |-> None]]
  /\ UNCHANGED <<counter, tokens, now, issuing, accepted>>

GetFencingToken(c, t) ==
  /\ checking[c] # None /\ checking[c].row = None
  /\ checking' = [checking EXCEPT ![c].row = t]
  /\ UNCHANGED <<counter, tokens, now, issuing, accepted>>

(* Seeded fault: tokens of a path are told apart by their expiry only. *)
ValidAtExpiry(t, at) == ~ t.revoked /\ at < t.expires

Valid(t, at) ==
  /\ t.sequence >= CurrentFencingSequence(t.path)
  /\ ~ t.revoked
  /\ at < t.expires

(* The counter is read and the verdict given. *)
Judge(c) ==
  /\ checking[c] # None /\ checking[c].row # None
  /\ LET t == checking[c].row
     IN  accepted' = IF Valid(t, checking[c].at) /\ t.sequence > accepted[t.path]
                     THEN [accepted EXCEPT ![t.path] = t.sequence]
                     ELSE accepted
  /\ checking' = [checking EXCEPT ![c] = None]
  /\ UNCHANGED <<counter, tokens, now, issuing>>

-----------------------------------------------------------------------------
Tick ==
  /\ now < MaxNow
  /\ now' = now + 1
  /\ UNCHANGED <<counter, tokens, issuing, checking, accepted>>

(* Seeded fault: the counter is counted anew from the rows. *)
FencingRestartRecounts ==
  /\ issuing' = [i \in Issuers |-> None]
  /\ checking' = [c \in Checkers |-> None]
  /\ counter' = [p \in Fenced |-> 1 + Cardinality({t \in tokens : t.path = p})]
  /\ UNCHANGED <<tokens, now, accepted>>

(* The process ends and starts again: the calls are gone, the tables stay. *)
FencingRestart ==
  /\ issuing' = [i \in Issuers |-> None]
  /\ checking' = [c \in Checkers |-> None]
  /\ UNCHANGED <<counter, tokens, now, accepted>>

ValidateStep ==
  \E c \in Checkers :
    \/ Validate(c)
    \/ \E t \in tokens : GetFencingToken(c, t)
    \/ Judge(c)

TokenNext ==
  \/ \E i \in Issuers :
       \/ \E p \in Fenced, h \in Holders, secs \in LeaseSecs : NextFencingSequence(i, p, h, secs)
       \/ InsertFencingToken(i)
  \/ \E t \in tokens : Revoke(t)
  \/ ValidateStep
  \/ Tick
  \/ FencingRestart

TokenSpec == TokenInit /\ [][TokenNext]_tokenVars

-----------------------------------------------------------------------------
Check == [at : Nat, floor : [Fenced -> Nat], row : TokenRow \cup {None}]

TokensTyped ==
  /\ counter \in [Fenced -> Nat \ {0}]
  /\ tokens \in SUBSET TokenRow
  /\ now \in Nat
  /\ issuing \in [Issuers -> TokenRow \cup {None}]
  /\ checking \in [Checkers -> Check \cup {None}]
  /\ accepted \in [Fenced -> Nat]

(* Of all the tokens ever issued for a path at most one is valid at a time,  *)
(* and one sequence never belongs to two tokens, however many issue at once  *)
(* and wherever the process stops between the counter and the row.           *)
Same(s, t) == s.path = t.path /\ s.sequence = t.sequence
OneValidToken ==
  \A s, t \in tokens :
    s.path = t.path => /\ Same(s, t) => s = t
                       /\ Valid(s, now) /\ Valid(t, now) => s = t

(* A token that is not valid never becomes valid: not when a call of Issue   *)
(* that was overtaken inserts its row, and not through a restart.            *)
ValidToken(p, n) == \E t \in tokens : t.path = p /\ t.sequence = n /\ Valid(t, now)
DeadStaysDead ==
  [][\A t \in tokens : ~ Valid(t, now) => ~ ValidToken(t.path, t.sequence)']_tokenVars

(* What a fence is for: once a token has been found valid, no validation     *)
(* that begins later finds an older token of that path valid, although each  *)
(* reads the row and the counter at different times.                         *)
Accepts(c) ==
  /\ checking[c] # None /\ checking[c].row # None
  /\ checking'[c] = None
  /\ Valid(checking[c].row, checking[c].at)
AcceptedInOrder ==
  [][\A c \in Checkers :
       Judge(c) /\ Accepts(c) =>
         checking[c].row.sequence >= checking[c].floor[checking[c].row.path]]_tokenVars

=============================================================================
