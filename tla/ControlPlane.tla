---------------------------- MODULE ControlPlane ----------------------------
(***************************************************************************)
(* The control plane (internal/controlplane) between the lock manager and  *)
(* the registry and the fence.  AcquireLock asks BeforeAcquire, which      *)
(* registers the resource and looks at its state; Issue is called when the *)
(* lock is granted, at once or, for a caller that was queued, much later   *)
(* and without asking again.  One process runs both, and stops with both.  *)
(***************************************************************************)
EXTENDS ResourceRegistry, FencingTokens

ASSUME ControlPlaneAssumption == Fenced \subseteq Paths

VARIABLE admitted   \* paths some caller of AcquireLock was let through for

controlVars == <<vars, tokenVars, admitted>>

(* Decide, for a caller the policy of the resource has no objection to. *)
Admits(p) == Known(resources, p) /\ resources[p].state = "active"

BeforeAcquire(p) ==
  /\ Admits(p)
  /\ admitted' = admitted \cup {p}
  /\ UNCHANGED <<vars, tokenVars>>

Issue(i, p, h, secs) ==
  /\ p \in admitted
  /\ NextFencingSequence(i, p, h, secs)
  /\ UNCHANGED <<vars, admitted>>

ControlInit == Init /\ TokenInit /\ admitted = {}

ControlNext ==
  \/ RegistryStep /\ UNCHANGED <<tokenVars, admitted>>
  \/ \E p \in Fenced : BeforeAcquire(p)
  \/ \E i \in Issuers, p \in Fenced, h \in Holders, secs \in LeaseSecs : Issue(i, p, h, secs)
  \/ (\E i \in Issuers : InsertFencingToken(i)) /\ UNCHANGED <<vars, admitted>>
  \/ ((\E t \in tokens : Revoke(t)) \/ ValidateStep \/ Tick) /\ UNCHANGED <<vars, admitted>>
  \/ Restart /\ FencingRestart /\ UNCHANGED admitted

ControlSpec == ControlInit /\ [][ControlNext]_controlVars

-----------------------------------------------------------------------------
(* No token without a resource: whatever was let through, is about to be     *)
(* fenced or is, the table knows, wherever the process stops.                *)
Fences(p) ==
  \/ p \in admitted
  \/ \E i \in Issuers : issuing[i] # None /\ issuing[i].path = p
  \/ \E t \in tokens : t.path = p
FencedAreRegistered == \A p \in Fenced : Fences(p) => Known(table, p)

(* The registry, the fence and what passes between them are consistent.      *)
ControlConsistent ==
  /\ TypeOK /\ TokensTyped
  /\ admitted \in SUBSET Fenced
  /\ TreeHasNoHoles
  /\ OneValidToken
  /\ FencedAreRegistered
=============================================================================
