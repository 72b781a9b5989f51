--------------------------- MODULE ResourceRegistry ---------------------------
(***************************************************************************)
(* The registry of resources (internal/resource): a table and a map that   *)
(* Register and SetPolicy write one after the other, with Manager.mu held  *)
(* only for the map.  Whoever acquires a lock registers its resource first *)
(* (Ensure), so registrations of one path do run side by side.             *)
(***************************************************************************)
EXTENDS Integers, FiniteSets

CONSTANTS
  Paths,
  Parent,        \* the parent of each path, Root for those without
  Root,
  Policies, NoPolicy,
  Calls,         \* registrations and policy changes at work at once
  MaxGeneration  \* bound on the changes of state of one resource

ASSUME RegistryAssumption ==
  /\ Root \notin Paths /\ Parent \in [Paths -> Paths \cup {Root}]
  /\ NoPolicy \notin Policies
  /\ MaxGeneration \in Nat \ {0}

VARIABLES
  table,         \* coord_resources
  resources,     \* Manager.resources
  policyTable,   \* coord_resource_policies
  policies,      \* Manager.policies
  calls,
  overtaken      \* history: paths where a call is about to write over what it has not seen

vars == <<table, resources, policyTable, policies, calls, overtaken>>

Unknown == [state |-> "unknown", generation |-> 0]

Fresh == [state |-> "active", generation |-> 1]
Idle == [at |-> "idle"]
Known(map, p) == map[p] # Unknown

(* Every path above p. *)
Above[p \in Paths \cup {Root}] == IF p = Root THEN {} ELSE {Parent[p]} \cup Above[Parent[p]]

-----------------------------------------------------------------------------
(* Register, and Ensure for a path the map does not know *)

At(c, place) == calls[c].at = place
Move(c, place) == calls' = [calls EXCEPT ![c].at = place]
Leave(c) == calls' = [calls EXCEPT ![c] = Idle]
Overtaken(p, danger) == overtaken' = IF danger THEN overtaken \cup {p} ELSE overtaken

(* Seeded fault: the parent is not looked for.                               *)
RegisterOrphan(c, p) ==
  /\ At(c, "idle")
  /\ calls' = [calls EXCEPT ![c] = [at |-> "look", path |-> p]]
  /\ UNCHANGED <<table, resources, policyTable, policies, overtaken>>

Register(c, p) ==
  /\ At(c, "idle") /\ (Parent[p] # Root => Known(resources, Parent[p]))
  /\ calls' = [calls EXCEPT ![c] = [at |-> "look", path |-> p]]
  /\ UNCHANGED <<table, resources, policyTable, policies, overtaken>>

(* Seeded fault: a resource the table knows is written again.                *)
GetResourceAlways(c) ==
  /\ At(c, "look")
  /\ Move(c, "insert")
  /\ UNCHANGED <<table, resources, policyTable, policies, overtaken>>

GetResource(c) ==
  /\ At(c, "look")
  /\ IF Known(table, calls[c].path) THEN Leave(c) ELSE Move(c, "insert")
  /\ UNCHANGED <<table, resources, policyTable, policies, overtaken>>

(* A row that cannot be read is taken for missing: the error is dropped.     *)
ReadFails(c) ==
  /\ At(c, "look")
  /\ Move(c, "insert")
  /\ Overtaken(calls[c].path, Known(table, calls[c].path))
  /\ UNCHANGED <<table, resources, policyTable, policies>>

(* A row that cannot be written ends the call. *)
WriteFails(c) ==
  /\ At(c, "insert") \/ At(c, "policy")
  /\ Leave(c)
  /\ UNCHANGED <<table, resources, policyTable, policies, overtaken>>

UpsertResource(c) ==
  /\ At(c, "insert")
  /\ table' = [table EXCEPT ![calls[c].path] = Fresh]
  /\ Move(c, "remember")
  /\ UNCHANGED <<resources, policyTable, policies, overtaken>>

Remember(c) ==
  /\ At(c, "remember")
  /\ resources' = [resources EXCEPT ![calls[c].path] = Fresh]
  /\ Leave(c)
  /\ UNCHANGED <<table, policyTable, policies, overtaken>>

-----------------------------------------------------------------------------
(* SetState holds Manager.mu from the first look to the last write. *)

ValidTransition(from, to) ==
  \/ from = to
  \/ from = "active" /\ to \in {"draining", "retired"}
  \/ from = "draining" /\ to \in {"active", "retired"}

(* A registration that found no row, and has not done with both its writes.  *)
Registering(p) == \E c \in Calls : calls[c].at \in {"insert", "remember"} /\ calls[c].path = p

(* Seeded fault: the map is not changed.                                     *)
SetStateTable(p, next) ==
  /\ Known(resources, p) /\ ValidTransition(resources[p].state, next)
  /\ next = "active" =>
       \A q \in Paths : p \in Above[q] => resources[q].state # "retired"
  /\ resources[p].generation < MaxGeneration
  /\ table' = [table EXCEPT ![p] = [state |-> next, generation |-> resources[p].generation + 1]]
  /\ Overtaken(p, Registering(p))
  /\ UNCHANGED <<resources, policyTable, policies, calls>>

SetState(p, next) ==
  /\ Known(resources, p) /\ ValidTransition(resources[p].state, next)
  /\ next = "active" =>
       \A q \in Paths : p \in Above[q] => resources[q].state # "retired"
  /\ resources[p].generation < MaxGeneration
  /\ LET item == [state |-> next, generation |-> resources[p].generation + 1]
     IN  table' = [table EXCEPT ![p] = item] /\ resources' = [resources EXCEPT ![p] = item]
  /\ Overtaken(p, Registering(p))
  /\ UNCHANGED <<policyTable, policies, calls>>

-----------------------------------------------------------------------------
SetPolicy(c, p, policy) ==
  /\ At(c, "idle") /\ Known(resources, p)
  /\ calls' = [calls EXCEPT ![c] = [at |-> "policy", path |-> p, policy |-> policy]]
  /\ UNCHANGED <<table, resources, policyTable, policies, overtaken>>

(* A change of policy that has written the row and not the map. *)
Applying(p) == \E c \in Calls : At(c, "apply") /\ calls[c].path = p

UpsertPolicy(c) ==
  /\ At(c, "policy")
  /\ policyTable' = [policyTable EXCEPT ![calls[c].path] = calls[c].policy]
  /\ Overtaken(calls[c].path, Applying(calls[c].path))
  /\ Move(c, "apply")
  /\ UNCHANGED <<table, resources, policies>>

ApplyPolicy(c) ==
  /\ At(c, "apply")
  /\ policies' = [policies EXCEPT ![calls[c].path] = calls[c].policy]
  /\ Leave(c)
  /\ UNCHANGED <<table, resources, policyTable, overtaken>>

(* The process stops and loads the tables again. *)
Restart ==
  /\ resources' = table /\ policies' = policyTable
  /\ calls' = [c \in Calls |-> Idle] /\ overtaken' = {}
  /\ UNCHANGED <<table, policyTable>>

-----------------------------------------------------------------------------
Init ==
  /\ table = [p \in Paths |-> Unknown] /\ resources = table
  /\ policyTable = [p \in Paths |-> NoPolicy] /\ policies = policyTable
  /\ calls = [c \in Calls |-> Idle] /\ overtaken = {}

RegistryStep ==
  \/ \E c \in Calls :
       \/ \E p \in Paths : Register(c, p) \/ \E policy \in Policies : SetPolicy(c, p, policy)
       \/ GetResource(c) \/ ReadFails(c) \/ UpsertResource(c) \/ Remember(c) \/ WriteFails(c)
       \/ UpsertPolicy(c) \/ ApplyPolicy(c)
  \/ \E p \in Paths, next \in {"active", "draining", "retired"} : SetState(p, next)

Next == RegistryStep \/ Restart

Spec == Init /\ [][Next]_vars

-----------------------------------------------------------------------------
Item ==
  {Unknown} \cup [state : {"active", "draining", "retired"}, generation : 1 .. MaxGeneration]
Call ==
  {Idle} \cup [at : {"look", "insert", "remember"}, path : Paths]
         \cup [at : {"policy", "apply"}, path : Paths, policy : Policies]

TypeOK ==
  /\ table \in [Paths -> Item] /\ resources \in [Paths -> Item]
  /\ policyTable \in [Paths -> Policies \cup {NoPolicy}]
  /\ policies \in [Paths -> Policies \cup {NoPolicy}]
  /\ calls \in [Calls -> Call] /\ overtaken \in SUBSET Paths

(* The tree has no holes: the parent of a registered resource is registered, *)
(* in the table and in the map, whoever registers what at the same time and  *)
(* wherever the process stops.                                               *)
TreeHasNoHoles ==
  \A p \in Paths :
    /\ Known(table, p) /\ Parent[p] # Root => Known(table, Parent[p])
    /\ Known(resources, p) => Known(table, p)

(* What the server works with is what a restart would load: the map agrees   *)
(* with the table wherever no call is between the two ("resource state was   *)
(* not restored", "resource policy was not restored"), however many calls    *)
(* are at work, as long as no state of the resource is changed while it is   *)
(* still being registered and no policy while the last is being applied.     *)
Between(p) == \E c \in Calls : calls[c].at \in {"remember", "apply"} /\ calls[c].path = p
Restorable(p) == ~ Between(p) => resources[p] = table[p] /\ policies[p] = policyTable[p]
RestartChangesNothing == \A p \in Paths \ overtaken : Restorable(p)

(* A retired resource stays retired ("invalid resource state transition") in *)
(* the table, in the map and through a restart, unless a registration was    *)
(* overtaken by its changes of state or could not read its row.              *)
StaysRetired(p) ==
  /\ table[p].state = "retired" => table'[p].state = "retired"
  /\ resources[p].state = "retired" => resources'[p].state = "retired"
RetiredStaysRetired ==
  [][\A p \in Paths \ (overtaken \cup overtaken') : StaysRetired(p)]_vars

(* What the code does not keep to (see the README): the same without the     *)
(* exception.                                                                *)
AlwaysRestorable == \A p \in Paths : Restorable(p)
RetiredForEver == [][\A p \in Paths : StaysRetired(p)]_vars

=============================================================================
