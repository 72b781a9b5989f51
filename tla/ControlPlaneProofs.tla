------------------------- MODULE ControlPlaneProofs -------------------------
(***************************************************************************)
(* The guarantees of the registry and of the fence, of the control plane   *)
(* between them, and of the heartbeats.                                    *)
(*                                                                         *)
(* The tree of resources has no holes, for any tree of paths and any       *)
(* number of registrations at work at once.  The fence rests on two facts  *)
(* about the counter: every sequence handed out lies below it, and none is *)
(* handed out twice.  And the control plane lets both do nothing they      *)
(* would not do by themselves: every one of its steps is a step of each,   *)
(* or none.  So what is proved of either holds of both together, and that  *)
(* no token is without a resource can be added.                            *)
(*                                                                         *)
(* A lost caller is disposed of by calls to managers with mutexes of their *)
(* own: the invariant says for every stage what is done and stays done     *)
(* meanwhile.  The groups need an argument of another kind, about the      *)
(* walks over the graph of dependencies: they end, for every turn takes a  *)
(* group from the list or restores one, and they leave no group degraded   *)
(* without a reason and none that has a reason undegraded.                 *)
(***************************************************************************)
EXTENDS ControlPlane, Heartbeat, DataProofs

(***************************** the registry ********************************)

(* What a registration found when it began stays true until it has written:  *)
(* rows of the table are rewritten and never removed.                        *)
LooksUp(c) ==
  /\ calls[c].at \in {"look", "insert"} =>
       Parent[calls[c].path] = Root \/ Known(table, Parent[calls[c].path])
  /\ calls[c].at = "remember" => Known(table, calls[c].path)

IInv == TypeOK /\ TreeHasNoHoles /\ \A c \in Calls : LooksUp(c)

(* A row once in the table stays there. *)
Grows == \A p \in Paths : Known(table, p) => Known(table, p)'

(* What registrations and changes of state write are items, and none of them *)
(* is the one that stands for an unknown path.                               *)
LEMMA KnownItems ==
  /\ Fresh \in Item /\ Fresh # Unknown /\ Unknown \in Item
  /\ \A s \in {"active", "draining", "retired"}, g \in 1 .. MaxGeneration :
       /\ [state |-> s, generation |-> g] \in Item
       /\ [state |-> s, generation |-> g] # Unknown
BY RegistryAssumption DEF Item, Fresh, Unknown, RegistryAssumption

(* The calls other than the one that moves keep what they rely on. *)
LEMMA OthersKeep ==
  ASSUME IInv, Grows, NEW c \in Calls, NEW call,
         calls' = [calls EXCEPT ![c] = call],
         LooksUp(c)'
  PROVE  \A d \in Calls : LooksUp(d)'
<1> SUFFICES ASSUME NEW d \in Calls, d # c PROVE LooksUp(d)'
  OBVIOUS
<1>1. calls'[d] = calls[d] /\ LooksUp(d) /\ calls[d] \in Call
  BY DEF IInv, TypeOK
<1>2. calls[d].at # "idle" => calls[d].path \in Paths
  BY <1>1 DEF Call, Idle
<1>3. \A p \in Paths : Parent[p] # Root => Parent[p] \in Paths
  BY RegistryAssumption DEF RegistryAssumption
<1> QED
  BY <1>1, <1>2, <1>3 DEF LooksUp, Grows

(* The paths that are marked are paths. *)
LEMMA MarksArePaths ==
  ASSUME TypeOK, NEW p \in Paths, NEW danger, Overtaken(p, danger)
  PROVE  overtaken' \in SUBSET Paths
BY DEF TypeOK, Overtaken

(* A registration begins below a resource the map knows.                     *)
LEMMA RegisterKeeps ==
  ASSUME IInv, NEW c \in Calls, NEW p \in Paths, Register(c, p)
  PROVE  IInv'
<1>1. Grows
  BY DEF Register, Grows, Known
<1>2. calls' = [calls EXCEPT ![c] = [at |-> "look", path |-> p]]
  BY DEF Register
<1>3. Parent[p] = Root \/ Known(table, Parent[p])
  BY RegistryAssumption DEF Register, IInv, TreeHasNoHoles, RegistryAssumption
<1>4. calls'[c] = [at |-> "look", path |-> p]
  BY <1>2 DEF IInv, TypeOK
<1>5. LooksUp(c)'
  BY <1>3, <1>4 DEF LooksUp, Register, Known
<1>6. \A d \in Calls : LooksUp(d)'
  BY <1>1, <1>2, <1>5, OthersKeep
<1>7. TypeOK'
  BY <1>2 DEF Register, IInv, TypeOK, Call
<1>8. TreeHasNoHoles'
  BY DEF Register, IInv, TreeHasNoHoles, Known
<1> QED
  BY <1>6, <1>7, <1>8 DEF IInv

(* The row is looked for and, when it is missing, written. *)
LEMMA GetResourceKeeps ==
  ASSUME IInv, NEW c \in Calls, GetResource(c) \/ ReadFails(c)
  PROVE  IInv'
<1>0. UNCHANGED <<table, resources, policyTable, policies>> /\ calls[c].at = "look"
  BY DEF GetResource, ReadFails, At
<1>1. Grows
  BY <1>0 DEF Grows, Known
<1>2. calls[c] \in [at : {"look", "insert", "remember"}, path : Paths]
  BY <1>0 DEF IInv, TypeOK, Call, Idle
<1>3. PICK call \in {Idle, [calls[c] EXCEPT !.at = "insert"]} : calls' = [calls EXCEPT ![c] = call]
  BY DEF GetResource, ReadFails, Move, Leave
<1>4. call \in Call /\ calls'[c] = call
  BY <1>2, <1>3 DEF Call, Idle, IInv, TypeOK
<1>5. LooksUp(c)'
  BY <1>0, <1>2, <1>3, <1>4 DEF LooksUp, IInv, Known, Idle
<1>6. \A d \in Calls : LooksUp(d)'
  BY <1>1, <1>3, <1>5, OthersKeep
<1>7. TypeOK'
  <2>1. overtaken' \in SUBSET Paths
    BY <1>2, MarksArePaths DEF GetResource, ReadFails, IInv, TypeOK
  <2> QED BY <1>0, <1>3, <1>4, <2>1 DEF IInv, TypeOK
<1>8. TreeHasNoHoles'
  BY <1>0 DEF IInv, TreeHasNoHoles, Known
<1> QED
  BY <1>6, <1>7, <1>8 DEF IInv

(* A call that cannot write its row leaves everything as it is. *)
LEMMA WriteFailsKeeps ==
  ASSUME IInv, NEW c \in Calls, WriteFails(c)
  PROVE  IInv'
<1>1. /\ UNCHANGED <<table, resources, policyTable, policies, overtaken>>
      /\ calls' = [calls EXCEPT ![c] = Idle] /\ calls'[c] = Idle
  BY DEF WriteFails, Leave, IInv, TypeOK
<1>2. Grows
  BY <1>1 DEF Grows, Known
<1>3. LooksUp(c)'
  BY <1>1 DEF LooksUp, Idle
<1>4. \A d \in Calls : LooksUp(d)'
  BY <1>1, <1>2, <1>3, OthersKeep
<1>5. TypeOK'
  BY <1>1 DEF IInv, TypeOK, Call
<1>6. TreeHasNoHoles'
  BY <1>1 DEF IInv, TreeHasNoHoles, Known
<1> QED
  BY <1>4, <1>5, <1>6 DEF IInv

(* The row that is written has a parent in the table. *)
LEMMA UpsertResourceKeeps ==
  ASSUME IInv, NEW c \in Calls, UpsertResource(c)
  PROVE  IInv'
<1> DEFINE p == calls[c].path
<1>1. calls[c] \in [at : {"look", "insert", "remember"}, path : Paths]
  BY DEF IInv, TypeOK, Call, UpsertResource, At, Idle
<1>2. p \in Paths
  BY <1>1
<1>3. table' = [table EXCEPT ![p] = Fresh] /\ table \in [Paths -> Item]
  BY DEF UpsertResource, IInv, TypeOK
<1>4. \A q \in Paths : table'[q] = IF q = p THEN Fresh ELSE table[q]
  BY <1>2, <1>3
<1>5. Grows
  BY <1>4, KnownItems DEF Grows, Known
<1>6. calls' = [calls EXCEPT ![c] = [calls[c] EXCEPT !.at = "remember"]]
  BY DEF UpsertResource, Move
<1>7. calls'[c] = [at |-> "remember", path |-> p]
  BY <1>1, <1>6 DEF IInv, TypeOK
<1>8. LooksUp(c)'
  BY <1>2, <1>4, <1>7, KnownItems DEF LooksUp, Known
<1>9. \A d \in Calls : LooksUp(d)'
  BY <1>5, <1>6, <1>8, OthersKeep
<1>10. TypeOK'
  BY <1>3, <1>2, <1>6, <1>7, KnownItems DEF UpsertResource, IInv, TypeOK, Call
<1>11. Parent[p] = Root \/ Known(table, Parent[p])
  BY DEF UpsertResource, At, IInv, LooksUp
<1>12. TreeHasNoHoles'
  <2>1. \A q \in Paths : Known(table, q)' /\ Parent[q] # Root => Known(table, Parent[q])
    BY <1>2, <1>4, <1>11 DEF IInv, TreeHasNoHoles, Known
  <2>2. \A q \in Paths : Parent[q] # Root => Parent[q] \in Paths
    BY RegistryAssumption DEF RegistryAssumption
  <2>3. \A q \in Paths : Known(resources, q)' => Known(table, q)
    BY DEF UpsertResource, IInv, TreeHasNoHoles, Known
  <2> QED
    BY <2>1, <2>2, <2>3, <1>5 DEF TreeHasNoHoles, Grows
<1> QED
  BY <1>9, <1>10, <1>12 DEF IInv

(* What the map learns the table knows. *)
LEMMA RememberKeeps ==
  ASSUME IInv, NEW c \in Calls, Remember(c)
  PROVE  IInv'
<1> DEFINE p == calls[c].path
<1>1. p \in Paths /\ Known(table, p)
  BY DEF IInv, TypeOK, Call, Remember, At, Idle, LooksUp
<1>2. resources' = [resources EXCEPT ![p] = Fresh] /\ table' = table
      /\ policyTable' = policyTable /\ policies' = policies
      /\ calls' = [calls EXCEPT ![c] = Idle] /\ overtaken' = overtaken
  BY DEF Remember, Leave
<1>3. Grows
  BY <1>2 DEF Grows, Known
<1>4. calls'[c] = Idle
  BY <1>2 DEF IInv, TypeOK
<1>5. \A d \in Calls : LooksUp(d)'
  <2>1. LooksUp(c)'
    BY <1>4 DEF LooksUp, Idle
  <2> QED
    BY <1>2, <1>3, <2>1, OthersKeep
<1>6. TypeOK'
  BY <1>1, <1>2, KnownItems DEF IInv, TypeOK, Call
<1>7. TreeHasNoHoles'
  BY <1>1, <1>2 DEF IInv, TypeOK, TreeHasNoHoles, Known
<1> QED
  BY <1>5, <1>6, <1>7 DEF IInv

(* A change of state changes what is there, and adds nothing. *)
LEMMA SetStateKeeps ==
  ASSUME IInv, NEW p \in Paths, NEW next \in {"active", "draining", "retired"}, SetState(p, next)
  PROVE  IInv'
<1> DEFINE item == [state |-> next, generation |-> resources[p].generation + 1]
<1>1. resources[p].generation \in 1 .. MaxGeneration /\ resources[p].generation < MaxGeneration
  BY DEF SetState, IInv, TypeOK, Item, Known
<1>2. item \in Item /\ item # Unknown
  <2>1. resources[p].generation + 1 \in 1 .. MaxGeneration
    BY <1>1, RegistryAssumption DEF RegistryAssumption
  <2> QED
    BY <2>1, KnownItems
<1>3. /\ table' = [table EXCEPT ![p] = item] /\ resources' = [resources EXCEPT ![p] = item]
      /\ policies' = policies /\ policyTable' = policyTable /\ calls' = calls
      /\ overtaken' \in SUBSET Paths
  BY MarksArePaths DEF SetState, IInv
<1> HIDE DEF item
<1>4. Grows
  BY <1>2, <1>3 DEF Grows, Known, IInv, TypeOK
<1>5. TypeOK'
  BY <1>2, <1>3 DEF IInv, TypeOK
<1>6. TreeHasNoHoles'
  <2>1. Known(table, p)
    BY DEF SetState, IInv, TreeHasNoHoles
  <2>2. \A q \in Paths : Known(table, q)' => Known(table, q)
    BY <2>1, <1>3 DEF IInv, TypeOK, Known
  <2>3. \A q \in Paths : Known(resources, q)' => Known(table, q)
    BY <2>1, <1>3 DEF IInv, TypeOK, Known, TreeHasNoHoles
  <2>4. \A q \in Paths : Parent[q] # Root => Parent[q] \in Paths
    BY RegistryAssumption DEF RegistryAssumption
  <2> QED
    BY <2>2, <2>3, <2>4, <1>4 DEF IInv, TreeHasNoHoles, Grows
<1>7. \A d \in Calls : LooksUp(d)'
  <2> SUFFICES ASSUME NEW d \in Calls PROVE LooksUp(d)'
    OBVIOUS
  <2>1. calls[d] \in Call /\ LooksUp(d)
    BY DEF IInv, TypeOK
  <2>2. calls[d].at # "idle" => calls[d].path \in Paths
    BY <2>1 DEF Call, Idle
  <2>3. \A q \in Paths : Parent[q] # Root => Parent[q] \in Paths
    BY RegistryAssumption DEF RegistryAssumption
  <2> QED
    BY <1>3, <1>4, <2>1, <2>2, <2>3 DEF LooksUp, Grows
<1> QED
  BY <1>5, <1>6, <1>7 DEF IInv

(* Changes of policy leave the resources alone. *)
LEMMA PolicyKeeps ==
  ASSUME IInv, NEW c \in Calls,
         \/ \E p \in Paths, policy \in Policies : SetPolicy(c, p, policy)
         \/ UpsertPolicy(c) \/ ApplyPolicy(c)
  PROVE  IInv'
<1>1. Grows /\ table' = table /\ resources' = resources
  BY DEF SetPolicy, UpsertPolicy, ApplyPolicy, Grows, Known
<1>2. PICK call \in {Idle} \cup [at : {"policy", "apply"}, path : Paths, policy : Policies] :
        calls' = [calls EXCEPT ![c] = call]
  <2>1. CASE \E p \in Paths, policy \in Policies : SetPolicy(c, p, policy)
    BY <2>1 DEF SetPolicy
  <2>2. CASE UpsertPolicy(c)
    <3>1. calls[c] \in [at : {"policy", "apply"}, path : Paths, policy : Policies]
      BY <2>2 DEF UpsertPolicy, At, IInv, TypeOK, Call, Idle
    <3>2. [calls[c] EXCEPT !.at = "apply"] \in [at : {"policy", "apply"}, path : Paths, policy : Policies]
      BY <3>1
    <3> QED
      BY <2>2, <3>2 DEF UpsertPolicy, Move
  <2>3. CASE ApplyPolicy(c)
    BY <2>3 DEF ApplyPolicy, Leave
  <2> QED
    BY <2>1, <2>2, <2>3
<1>3. calls'[c] = call
  BY <1>2 DEF IInv, TypeOK
<1>4. \A d \in Calls : LooksUp(d)'
  <2>1. call.at \notin {"look", "insert", "remember"}
    BY <1>2 DEF Idle
  <2>2. LooksUp(c)'
    BY <1>3, <2>1 DEF LooksUp
  <2> QED
    BY <1>1, <1>2, <2>2, OthersKeep
<1>5. policyTable' \in [Paths -> Policies \cup {NoPolicy}] /\ policies' \in [Paths -> Policies \cup {NoPolicy}]
  <2>1. UpsertPolicy(c) \/ ApplyPolicy(c) => calls[c].policy \in Policies
    BY DEF UpsertPolicy, ApplyPolicy, At, IInv, TypeOK, Call, Idle
  <2> QED
    BY <2>1 DEF SetPolicy, UpsertPolicy, ApplyPolicy, IInv, TypeOK
<1>6. TypeOK'
  <2>1. UpsertPolicy(c) => calls[c].path \in Paths
    BY DEF UpsertPolicy, At, IInv, TypeOK, Call, Idle
  <2>2. overtaken' \in SUBSET Paths
    BY <2>1, MarksArePaths DEF SetPolicy, UpsertPolicy, ApplyPolicy, IInv, TypeOK
  <2> QED
    BY <1>1, <1>2, <1>5, <2>2 DEF IInv, TypeOK, Call
<1>7. TreeHasNoHoles'
  BY <1>1 DEF IInv, TreeHasNoHoles, Known
<1> QED
  BY <1>4, <1>6, <1>7 DEF IInv

(* A restart ends the calls and loads the table. *)
LEMMA RestartKeeps ==
  ASSUME IInv, Restart
  PROVE  IInv'
<1>1. table' = table /\ resources' = table
  BY DEF Restart
<1>2. \A c \in Calls : calls'[c] = Idle
  BY DEF Restart
<1>3. TypeOK'
  BY <1>1 DEF Restart, IInv, TypeOK, Call
<1>4. TreeHasNoHoles'
  BY <1>1 DEF IInv, TreeHasNoHoles, Known
<1>5. \A c \in Calls : LooksUp(c)'
  BY <1>2 DEF LooksUp, Idle
<1> QED
  BY <1>3, <1>4, <1>5 DEF IInv

(* Nothing that registrations, changes of state or policy, and stops do      *)
(* between each other's statements breaks the invariant.                     *)
THEOREM RegistryInvariant == Spec => []IInv
<1>1. Init => IInv
  <2> SUFFICES ASSUME Init PROVE IInv
    OBVIOUS
  <2>1. TypeOK
    BY KnownItems DEF Init, TypeOK, Call
  <2>2. TreeHasNoHoles
    BY DEF Init, TreeHasNoHoles, Known
  <2>3. \A c \in Calls : LooksUp(c)
    BY DEF Init, LooksUp, Idle
  <2> QED
    BY <2>1, <2>2, <2>3 DEF IInv
<1>2. IInv /\ [Next]_vars => IInv'
  <2> SUFFICES ASSUME IInv, [Next]_vars PROVE IInv'
    OBVIOUS
  <2>1. ASSUME NEW c \in Calls, NEW p \in Paths, Register(c, p) PROVE IInv'
    BY <2>1, RegisterKeeps
  <2>2. ASSUME NEW c \in Calls, \/ \E p \in Paths, policy \in Policies : SetPolicy(c, p, policy)
                                \/ UpsertPolicy(c) \/ ApplyPolicy(c)
        PROVE IInv'
    BY <2>2, PolicyKeeps
  <2>3. ASSUME NEW c \in Calls, GetResource(c) \/ ReadFails(c) \/ WriteFails(c) PROVE IInv'
    BY <2>3, GetResourceKeeps, WriteFailsKeeps
  <2>4. ASSUME NEW c \in Calls, UpsertResource(c) PROVE IInv'
    BY <2>4, UpsertResourceKeeps
  <2>5. ASSUME NEW c \in Calls, Remember(c) PROVE IInv'
    BY <2>5, RememberKeeps
  <2>6. ASSUME NEW p \in Paths, NEW next \in {"active", "draining", "retired"}, SetState(p, next)
        PROVE IInv'
    BY <2>6, SetStateKeeps
  <2>7. CASE Restart
    BY <2>7, RestartKeeps
  <2>8. CASE UNCHANGED vars
    BY <2>8 DEF vars, IInv, TypeOK, TreeHasNoHoles, LooksUp, Known
  <2> QED
    BY <2>1, <2>2, <2>3, <2>4, <2>5, <2>6, <2>7, <2>8 DEF Next, RegistryStep
<1> QED
  BY <1>1, <1>2, PTL DEF Spec

(* However many registrations run side by side and wherever the process      *)
(* stops, no resource is without its parent.                                 *)
THEOREM NoHoles == Spec => []TreeHasNoHoles
<1>1. IInv => TreeHasNoHoles
  BY DEF IInv
<1> QED
  BY <1>1, RegistryInvariant, PTL

(* The tables and the calls keep their types. *)
THEOREM RegistryTypes == Spec => []TypeOK
<1>1. IInv => TypeOK
  BY DEF IInv
<1> QED
  BY <1>1, RegistryInvariant, PTL

-----------------------------------------------------------------------------
(* What calls rely on where nothing has overtaken them: while a resource is  *)
(* being registered neither of its copies is further than a registration     *)
(* brings it, and the policy that is being applied is the one in the table.  *)
New(item) == item \in {Unknown, Fresh}
For(c, p, places) == calls[c].at \in places /\ calls[c].path = p

Copied(p) ==
  /\ \A c \in Calls : For(c, p, {"insert", "remember"}) => New(table[p]) /\ New(resources[p])
  /\ \A c \in Calls : For(c, p, {"remember"}) => table[p] = Fresh
  /\ \A c \in Calls : For(c, p, {"apply"}) => policyTable[p] = calls[c].policy
  /\ (\A c \in Calls : ~ For(c, p, {"remember"})) => resources[p] = table[p]
  /\ (\A c \in Calls : ~ For(c, p, {"apply"})) => policies[p] = policyTable[p]

Copies == \A p \in Paths \ overtaken : Copied(p)

(* What a step must do for one path, where it leaves no call overtaken.      *)
StepFor(p) == p \notin overtaken' => p \notin overtaken /\ Copied(p)' /\ StaysRetired(p)

(* A registration that finds no row finds nothing in the map either.         *)
LEMMA LookCopies ==
  ASSUME IInv, Copies, NEW c \in Calls, NEW p \in Paths,
         (\E q \in Paths : Register(c, q)) \/ GetResource(c) \/ ReadFails(c) \/ WriteFails(c)
  PROVE  StepFor(p)
<1> SUFFICES ASSUME p \notin overtaken' PROVE p \notin overtaken /\ Copied(p)' /\ StaysRetired(p)
  BY DEF StepFor
<1>0. /\ calls \in [Calls -> Call] /\ calls[c] \in Call
      /\ UNCHANGED <<table, resources, policyTable, policies>>
  BY DEF IInv, TypeOK, Register, GetResource, ReadFails, WriteFails
<1>1. p \notin overtaken /\ Copied(p)
  BY DEF Register, GetResource, ReadFails, WriteFails, Overtaken, Copies
<1>2. \A d \in Calls : d # c => calls'[d] = calls[d]
  BY <1>0 DEF Register, GetResource, ReadFails, WriteFails, Move, Leave
<1>3. calls[c].at \notin {"remember", "apply"} /\ calls'[c].at \notin {"remember", "apply"}
  BY <1>0 DEF Register, GetResource, ReadFails, WriteFails, Move, Leave, At, Idle, Call
<1>4. For(c, p, {"insert"})' => table[p] = Unknown
  <2>1. CASE GetResource(c) \/ ReadFails(c)
    <3>1. calls[c].at = "look" /\ calls[c].path \in Paths
      BY <1>0, <2>1 DEF GetResource, ReadFails, At, Call, Idle
    <3>2. calls'[c].at = "insert" => calls'[c].path = calls[c].path
      BY <1>0, <2>1, <3>1 DEF GetResource, ReadFails, Move, Leave, Call, Idle
    <3>3. calls'[c].at = "insert" => ~ Known(table, calls[c].path) \/ calls[c].path \in overtaken'
      BY <1>0, <2>1 DEF GetResource, ReadFails, Leave, Idle, Overtaken
    <3> QED BY <3>2, <3>3 DEF For, Known
  <2>2. CASE (\E q \in Paths : Register(c, q)) \/ WriteFails(c)
    <3>1. calls'[c].at # "insert"
      BY <1>0, <2>2 DEF Register, WriteFails, Leave, Idle
    <3> QED BY <3>1 DEF For
  <2> QED BY <2>1, <2>2
<1>5. table[p] = Unknown => resources[p] = Unknown
  BY DEF IInv, TreeHasNoHoles, Known
<1>6. Copied(p)'
  BY <1>0, <1>1, <1>2, <1>3, <1>4, <1>5 DEF Copied, For, New
<1> QED BY <1>0, <1>1, <1>6 DEF StaysRetired

(* What it writes over nobody has retired, first in the table and then in    *)
(* the map.                                                                  *)
LEMMA RegistrationCopies ==
  ASSUME IInv, Copies, NEW c \in Calls, NEW p \in Paths, UpsertResource(c) \/ Remember(c)
  PROVE  StepFor(p)
<1> SUFFICES ASSUME p \notin overtaken PROVE Copied(p)' /\ StaysRetired(p)
  BY DEF StepFor, UpsertResource, Remember
<1>0. /\ calls \in [Calls -> Call] /\ calls[c] \in Call
      /\ table \in [Paths -> Item] /\ resources \in [Paths -> Item]
      /\ UNCHANGED <<policyTable, policies>> /\ Copied(p)
  BY DEF IInv, TypeOK, UpsertResource, Remember, Copies
<1>1. \A d \in Calls : d # c => calls'[d] = calls[d]
  BY <1>0 DEF UpsertResource, Remember, Move, Leave
<1>2. Fresh.state # "retired" /\ Unknown.state # "retired"
  BY DEF Fresh, Unknown
<1>3. CASE UpsertResource(c)
  <2>1. calls[c].at = "insert" /\ calls[c].path \in Paths
    BY <1>0, <1>3 DEF UpsertResource, At, Call, Idle
  <2>2. calls'[c].at = "remember" /\ calls'[c].path = calls[c].path
    BY <1>0, <1>3, <2>1 DEF UpsertResource, Move, Call, Idle
  <2>3. /\ table'[p] = (IF p = calls[c].path THEN Fresh ELSE table[p])
        /\ resources' = resources
    BY <1>0, <1>3, <2>1 DEF UpsertResource
  <2>4. CASE p = calls[c].path
    <3>1. New(table[p]) /\ New(resources[p])
      BY <1>0, <2>1, <2>4 DEF Copied, For
    <3> QED BY <1>0, <1>1, <1>2, <2>1, <2>2, <2>3, <2>4, <3>1 DEF Copied, For, New, StaysRetired
  <2>5. CASE p # calls[c].path
    BY <1>0, <1>1, <2>1, <2>2, <2>3, <2>5 DEF Copied, For, StaysRetired
  <2> QED BY <2>4, <2>5
<1>4. CASE Remember(c)
  <2>1. calls[c].at = "remember" /\ calls[c].path \in Paths
    BY <1>0, <1>4 DEF Remember, At, Call, Idle
  <2>2. calls'[c].at = "idle"
    BY <1>0, <1>4 DEF Remember, Leave, Idle
  <2>3. /\ resources'[p] = (IF p = calls[c].path THEN Fresh ELSE resources[p])
        /\ table' = table
    BY <1>0, <1>4, <2>1 DEF Remember
  <2>4. CASE p = calls[c].path
    <3>1. table[p] = Fresh /\ New(resources[p])
      BY <1>0, <2>1, <2>4 DEF Copied, For
    <3> QED BY <1>0, <1>1, <1>2, <2>1, <2>2, <2>3, <2>4, <3>1 DEF Copied, For, New, StaysRetired
  <2>5. CASE p # calls[c].path
    BY <1>0, <1>1, <2>1, <2>2, <2>3, <2>5 DEF Copied, For, StaysRetired
  <2> QED BY <2>4, <2>5
<1> QED BY <1>3, <1>4

(* A policy that is applied while no other was written is the one written.   *)
LEMMA PolicyCopies ==
  ASSUME IInv, Copies, NEW c \in Calls, NEW p \in Paths,
         \/ \E q \in Paths, policy \in Policies : SetPolicy(c, q, policy)
         \/ UpsertPolicy(c) \/ ApplyPolicy(c)
  PROVE  StepFor(p)
<1> SUFFICES ASSUME p \notin overtaken' PROVE p \notin overtaken /\ Copied(p)' /\ StaysRetired(p)
  BY DEF StepFor
<1>0. /\ calls \in [Calls -> Call] /\ calls[c] \in Call /\ UNCHANGED <<table, resources>>
      /\ policyTable \in [Paths -> Policies \cup {NoPolicy}] /\ policies \in [Paths -> Policies \cup {NoPolicy}]
  BY DEF IInv, TypeOK, SetPolicy, UpsertPolicy, ApplyPolicy
<1>1. p \notin overtaken /\ Copied(p)
  BY DEF SetPolicy, UpsertPolicy, ApplyPolicy, Overtaken, Copies
<1>2. \A d \in Calls : d # c => calls'[d] = calls[d]
  BY <1>0 DEF SetPolicy, UpsertPolicy, ApplyPolicy, Move, Leave
<1>3. calls[c].at \notin {"insert", "remember"} /\ calls'[c].at \notin {"insert", "remember"}
  BY <1>0 DEF SetPolicy, UpsertPolicy, ApplyPolicy, Move, Leave, At, Idle, Call
<1>4. StaysRetired(p)
  BY <1>0 DEF StaysRetired
<1>5. CASE \E q \in Paths, policy \in Policies : SetPolicy(c, q, policy)
  <2>1. calls'[c].at = "policy" /\ calls[c].at = "idle" /\ UNCHANGED <<policyTable, policies>>
    BY <1>0, <1>5 DEF SetPolicy, At
  <2> QED BY <1>0, <1>1, <1>2, <1>3, <1>4, <2>1 DEF Copied, For
<1>6. CASE UpsertPolicy(c)
  <2>1. calls[c].at = "policy" /\ calls[c].path \in Paths
    BY <1>0, <1>6 DEF UpsertPolicy, At, Call, Idle
  <2>2. calls'[c].at = "apply" /\ calls'[c].path = calls[c].path /\ calls'[c].policy = calls[c].policy
    BY <1>0, <1>6, <2>1 DEF UpsertPolicy, Move, Call, Idle
  <2>3. /\ policyTable'[p] = (IF p = calls[c].path THEN calls[c].policy ELSE policyTable[p])
        /\ policies' = policies
    BY <1>0, <1>6, <2>1 DEF UpsertPolicy
  <2>4. p = calls[c].path => \A d \in Calls : ~ For(d, p, {"apply"})
    BY <1>6 DEF UpsertPolicy, Overtaken, Applying, For, At
  <2> QED BY <1>0, <1>1, <1>2, <1>3, <1>4, <2>1, <2>2, <2>3, <2>4 DEF Copied, For
<1>7. CASE ApplyPolicy(c)
  <2>1. calls[c].at = "apply" /\ calls[c].path \in Paths
    BY <1>0, <1>7 DEF ApplyPolicy, At, Call, Idle
  <2>2. calls'[c].at = "idle"
    BY <1>0, <1>7 DEF ApplyPolicy, Leave, Idle
  <2>3. /\ policies'[p] = (IF p = calls[c].path THEN calls[c].policy ELSE policies[p])
        /\ policyTable' = policyTable
    BY <1>0, <1>7, <2>1 DEF ApplyPolicy
  <2>4. p = calls[c].path => policyTable[p] = calls[c].policy
    BY <1>1, <2>1 DEF Copied, For
  <2> QED BY <1>0, <1>1, <1>2, <1>3, <1>4, <2>1, <2>2, <2>3, <2>4 DEF Copied, For
<1> QED BY <1>5, <1>6, <1>7

(* A change of state finds both copies alike, writes both, and leaves the    *)
(* retired ones alone.                                                       *)
LEMMA StateCopies ==
  ASSUME IInv, Copies, NEW q \in Paths, NEW next \in {"active", "draining", "retired"},
         SetState(q, next), NEW p \in Paths
  PROVE  StepFor(p)
<1> SUFFICES ASSUME p \notin overtaken' PROVE p \notin overtaken /\ Copied(p)' /\ StaysRetired(p)
  BY DEF StepFor
<1>0. /\ table \in [Paths -> Item] /\ resources \in [Paths -> Item] /\ calls' = calls
      /\ policies' = policies /\ policyTable' = policyTable
  BY DEF IInv, TypeOK, SetState
<1>1. p \notin overtaken /\ Copied(p)
  BY DEF SetState, Overtaken, Copies
<1>2. CASE p # q
  <2>1. table'[p] = table[p] /\ resources'[p] = resources[p]
    BY <1>0, <1>2 DEF SetState
  <2> QED BY <1>0, <1>1, <2>1 DEF Copied, For, StaysRetired
<1>3. CASE p = q
  <2>1. \A c \in Calls : ~ For(c, p, {"insert", "remember"})
    BY <1>3 DEF SetState, Overtaken, Registering, For
  <2>2. resources[p] = table[p]
    BY <1>1, <2>1 DEF Copied, For
  <2>3. table'[p] = resources'[p] /\ table'[p].state = next
    BY <1>0, <1>3 DEF SetState
  <2>4. resources[p].state = "retired" => next = "retired"
    BY <1>3 DEF SetState, ValidTransition
  <2> QED BY <1>0, <1>1, <2>1, <2>2, <2>3, <2>4 DEF Copied, For, StaysRetired
<1> QED BY <1>2, <1>3

(* So does every step; and a restart loads the map from the table, in which  *)
(* what was retired in the map is retired.                                   *)
LEMMA CopiesStep ==
  ASSUME IInv, Copies, [Next]_vars
  PROVE  Copies' /\ \A p \in Paths \ (overtaken \cup overtaken') : StaysRetired(p)
<1>1. ASSUME \A p \in Paths : StepFor(p)
      PROVE  Copies' /\ \A p \in Paths \ (overtaken \cup overtaken') : StaysRetired(p)
  BY <1>1 DEF StepFor, Copies
<1>2. ASSUME NEW c \in Calls, NEW p \in Paths,
             \/ \E q \in Paths : Register(c, q) \/ \E policy \in Policies : SetPolicy(c, q, policy)
             \/ GetResource(c) \/ ReadFails(c) \/ UpsertResource(c) \/ Remember(c) \/ WriteFails(c)
             \/ UpsertPolicy(c) \/ ApplyPolicy(c)
      PROVE  StepFor(p)
  <2>1. CASE (\E q \in Paths : Register(c, q)) \/ GetResource(c) \/ ReadFails(c) \/ WriteFails(c)
    BY <2>1, LookCopies
  <2>2. CASE UpsertResource(c) \/ Remember(c)
    BY <2>2, RegistrationCopies
  <2>3. CASE \/ \E q \in Paths, policy \in Policies : SetPolicy(c, q, policy)
             \/ UpsertPolicy(c) \/ ApplyPolicy(c)
    BY <2>3, PolicyCopies
  <2> QED BY <1>2, <2>1, <2>2, <2>3
<1>3. CASE RegistryStep
  <2>1. \A p \in Paths : StepFor(p)
    BY <1>2, <1>3, StateCopies DEF RegistryStep
  <2> QED BY <1>1, <2>1
<1>4. CASE Restart
  <2>1. \A c \in Calls : calls'[c].at = "idle"
    BY <1>4 DEF Restart, Idle
  <2>2. Copies'
    BY <1>4, <2>1 DEF Restart, Copies, Copied, For
  <2>3. ASSUME NEW p \in Paths, p \notin overtaken PROVE StaysRetired(p)
    <3>1. Copied(p) /\ table' = table /\ resources' = table
      BY <1>4, <2>3 DEF Copies, Restart
    <3>2. resources[p].state = "retired" => ~ New(resources[p])
      BY DEF New, Unknown, Fresh
    <3>3. resources[p].state = "retired" => resources[p] = table[p]
      BY <3>1, <3>2 DEF Copied, For
    <3> QED BY <3>1, <3>3 DEF StaysRetired
  <2> QED BY <2>2, <2>3
<1>5. CASE UNCHANGED vars
  <2>1. \A p \in Paths : StepFor(p)
    BY <1>5 DEF vars, StepFor, Copies, Copied, For, StaysRetired
  <2> QED BY <1>1, <2>1
<1> QED BY <1>3, <1>4, <1>5 DEF Next

(* However many calls are at work, the server works with what a restart      *)
(* would load, wherever no call is between its two writes and none was       *)
(* overtaken ("resource state was not restored").                            *)
THEOREM NothingToRestore == Spec => []RestartChangesNothing
<1>1. Init => Copies
  BY DEF Init, Copies, Copied, For, Idle
<1>2. IInv /\ Copies /\ [Next]_vars => Copies'
  BY CopiesStep
<1>3. Copies => RestartChangesNothing
  BY DEF Copies, Copied, For, RestartChangesNothing, Restorable, Between
<1> QED BY <1>1, <1>2, <1>3, RegistryInvariant, PTL DEF Spec

(* However many calls are at work, a retired resource stays retired: a       *)
(* registration writes over it only if it was overtaken or could not read    *)
(* the row, no change of state leads back, and a restart finds it.           *)
THEOREM RetiredForGood == Spec => RetiredStaysRetired
<1> DEFINE Stay == \A p \in Paths \ (overtaken \cup overtaken') : StaysRetired(p)
<1>1. Init => Copies
  BY DEF Init, Copies, Copied, For, Idle
<1>2. IInv /\ Copies /\ [Next]_vars => Copies' /\ [Stay]_vars
  BY CopiesStep
<1> QED BY <1>1, <1>2, RegistryInvariant, PTL DEF Spec, RetiredStaysRetired

-----------------------------------------------------------------------------
(******************************* the fence *********************************)

BelowCounter ==
  /\ \A t \in tokens : t.sequence < counter[t.path]
  /\ \A i \in Issuers : issuing[i] # None => issuing[i].sequence < counter[issuing[i].path]

HandedOutOnce ==
  /\ \A s, t \in tokens : Same(s, t) => s = t
  /\ \A i \in Issuers, t \in tokens : issuing[i] # None => ~ Same(issuing[i], t)
  /\ \A i, j \in Issuers :
       issuing[i] # None /\ issuing[j] # None /\ Same(issuing[i], issuing[j]) => i = j

SeenBelowCounter ==
  /\ \A p \in Fenced : accepted[p] < counter[p]
  /\ \A c \in Checkers : checking[c] # None =>
       /\ \A p \in Fenced : checking[c].floor[p] < counter[p]
       /\ checking[c].row # None =>
            checking[c].row.sequence < counter[checking[c].row.path]

TokenInv == TokensTyped /\ BelowCounter /\ HandedOutOnce /\ SeenBelowCounter

(* No tokens yet, and every counter ahead of them. *)
LEMMA TokenInitHolds == TokenInit => TokenInv
BY FencingAssumption DEF TokenInit, TokenInv, TokensTyped, BelowCounter, HandedOutOnce, SeenBelowCounter

(* A sequence is handed out below the counter, to one issuer. *)
LEMMA NextSequenceKeeps ==
  ASSUME TokenInv, NEW i \in Issuers, NEW p \in Fenced, NEW h \in Holders, NEW secs \in LeaseSecs,
         NextFencingSequence(i, p, h, secs)
  PROVE  TokenInv'
<1> USE DEF TokenInv
<1> DEFINE row == [path |-> p, sequence |-> counter[p], holder |-> h,
                   expires |-> now + secs, revoked |-> FALSE]
<1>0. /\ counter \in [Fenced -> Nat \ {0}] /\ counter' = [counter EXCEPT ![p] = @ + 1]
      /\ issuing' = [issuing EXCEPT ![i] = row] /\ issuing \in [Issuers -> TokenRow \cup {None}]
      /\ UNCHANGED <<tokens, now, checking, accepted>>
  BY DEF TokensTyped, NextFencingSequence
<1>1. row \in TokenRow
  <2>1. counter[p] \in Nat /\ now + secs \in Nat
    BY FencingAssumption DEF TokensTyped
  <2> QED
    BY <2>1 DEF TokenRow
<1>2. TokensTyped'
  BY <1>0, <1>1 DEF TokensTyped
<1>3. /\ \A q \in Fenced : counter[q] \in Nat /\ counter'[q] \in Nat /\ counter[q] <= counter'[q]
      /\ counter'[p] = counter[p] + 1
  BY <1>0
<1>4. /\ \A t \in tokens : t.path \in Fenced /\ t.sequence \in Nat
      /\ \A j \in Issuers : issuing[j] # None =>
           issuing[j].path \in Fenced /\ issuing[j].sequence \in Nat
  BY DEF TokensTyped, TokenRow
<1>5. row.path = p /\ row.sequence = counter[p]
  OBVIOUS
<1>6. issuing'[i] = row /\ \A j \in Issuers \ {i} : issuing'[j] = issuing[j]
  BY <1>0
<1> HIDE DEF row
<1>7. BelowCounter'
  <2>1. \A t \in tokens : t.sequence < counter'[t.path]
    BY <1>3, <1>4 DEF BelowCounter
  <2>2. ASSUME NEW j \in Issuers, issuing'[j] # None
        PROVE  issuing'[j].sequence < counter'[issuing'[j].path]
    <3>1. CASE j = i
      BY <3>1, <1>3, <1>5, <1>6
    <3>2. CASE j # i
      <4>1. issuing'[j] = issuing[j] /\ issuing[j] # None
        BY <3>2, <2>2, <1>6
      <4>2. issuing[j].sequence < counter[issuing[j].path]
        BY <4>1 DEF BelowCounter
      <4> QED
        BY <4>1, <4>2, <1>3, <1>4
    <3> QED
      BY <3>1, <3>2
  <2> QED
    BY <2>1, <2>2, <1>0 DEF BelowCounter
<1>8. HandedOutOnce'
  <2>1. \A t \in tokens : ~ Same(row, t)
    BY <1>3, <1>4, <1>5 DEF BelowCounter, Same
  <2>2. \A j \in Issuers : issuing[j] # None => ~ Same(row, issuing[j]) /\ ~ Same(issuing[j], row)
    BY <1>3, <1>4, <1>5 DEF BelowCounter, Same
  <2>3. \A j \in Issuers, t \in tokens : issuing'[j] # None => ~ Same(issuing'[j], t)
    BY <2>1, <1>6 DEF HandedOutOnce
  <2>4. \A j, k \in Issuers :
          issuing'[j] # None /\ issuing'[k] # None /\ Same(issuing'[j], issuing'[k]) => j = k
    BY <2>2, <1>6 DEF HandedOutOnce
  <2> QED
    BY <2>3, <2>4, <1>0 DEF HandedOutOnce, Same
<1>9. SeenBelowCounter'
  <2>1. \A q \in Fenced : accepted[q] < counter'[q]
    BY <1>3 DEF SeenBelowCounter, TokensTyped
  <2>2. ASSUME NEW c \in Checkers, checking[c] # None
        PROVE  /\ \A q \in Fenced : checking[c].floor[q] < counter'[q]
               /\ checking[c].row # None =>
                    checking[c].row.sequence < counter'[checking[c].row.path]
    <3>1. checking[c] \in Check
      BY <2>2 DEF TokensTyped
    <3>2. \A q \in Fenced : checking[c].floor[q] \in Nat
      BY <3>1 DEF Check
    <3>3. checking[c].row # None => checking[c].row.path \in Fenced /\ checking[c].row.sequence \in Nat
      BY <3>1 DEF Check, TokenRow
    <3> QED
      BY <2>2, <3>2, <3>3, <1>3 DEF SeenBelowCounter
  <2> QED
    BY <2>1, <2>2, <1>0 DEF SeenBelowCounter
<1> QED
  BY <1>2, <1>7, <1>8, <1>9

(* The token of the latest sequence becomes the valid one. *)
LEMMA InsertKeeps ==
  ASSUME TokenInv, NEW i \in Issuers, InsertFencingToken(i)
  PROVE  TokenInv'
<1> USE DEF TokenInv
<1>0. /\ issuing[i] # None /\ issuing[i] \in TokenRow
      /\ tokens' = tokens \cup {issuing[i]} /\ issuing' = [issuing EXCEPT ![i] = None]
      /\ UNCHANGED <<counter, now, checking, accepted>>
  BY DEF TokensTyped, InsertFencingToken
<1>1. issuing'[i] = None /\ \A j \in Issuers \ {i} : issuing'[j] = issuing[j]
  BY DEF TokensTyped, InsertFencingToken
<1>2. TokensTyped'
  BY <1>0 DEF TokensTyped
<1>3. BelowCounter'
  BY <1>0, <1>1 DEF BelowCounter
<1>4. HandedOutOnce'
  <2>1. \A t \in tokens : ~ Same(issuing[i], t) /\ ~ Same(t, issuing[i])
    BY <1>0 DEF HandedOutOnce, Same
  <2>2. \A s, t \in tokens' : Same(s, t) => s = t
    BY <2>1, <1>0 DEF HandedOutOnce
  <2>3. \A j \in Issuers, t \in tokens' : issuing'[j] # None => ~ Same(issuing'[j], t)
    BY <1>0, <1>1 DEF HandedOutOnce
  <2>4. \A j, k \in Issuers :
          issuing'[j] # None /\ issuing'[k] # None /\ Same(issuing'[j], issuing'[k]) => j = k
    BY <1>1 DEF HandedOutOnce
  <2> QED
    BY <2>2, <2>3, <2>4 DEF HandedOutOnce, Same
<1>5. SeenBelowCounter'
  BY <1>0 DEF SeenBelowCounter
<1> QED
  BY <1>2, <1>3, <1>4, <1>5

(* A revoked token is not valid, and the others are what they were. *)
LEMMA RevokeKeeps ==
  ASSUME TokenInv, NEW t \in tokens, Revoke(t)
  PROVE  TokenInv'
<1> USE DEF TokenInv
<1> DEFINE r == [t EXCEPT !.revoked = TRUE]
<1>0. /\ tokens' = (tokens \ {t}) \cup {r} /\ UNCHANGED <<counter, now, issuing, checking, accepted>>
  BY DEF Revoke
<1>1. r \in TokenRow /\ r.path = t.path /\ r.sequence = t.sequence
  BY DEF TokensTyped, TokenRow
<1> HIDE DEF r
<1>2. TokensTyped'
  BY <1>0, <1>1 DEF TokensTyped
<1>3. BelowCounter'
  BY <1>0, <1>1 DEF BelowCounter
<1>4. HandedOutOnce'
  <2>1. \A s \in tokens \ {t} : ~ Same(r, s) /\ ~ Same(s, r)
    BY <1>1 DEF HandedOutOnce, Same
  <2>2. \A i \in Issuers : issuing[i] # None => ~ Same(issuing[i], r)
    BY <1>1 DEF HandedOutOnce, Same
  <2>3. \A u, v \in tokens' : Same(u, v) => u = v
    BY <1>0, <2>1 DEF HandedOutOnce
  <2>4. \A i \in Issuers, s \in tokens' : issuing[i] # None => ~ Same(issuing[i], s)
    BY <1>0, <2>2 DEF HandedOutOnce
  <2> QED
    BY <1>0, <2>3, <2>4 DEF HandedOutOnce, Same
<1>5. SeenBelowCounter'
  BY <1>0 DEF SeenBelowCounter
<1> QED
  BY <1>2, <1>3, <1>4, <1>5

(* A validation changes no token. *)
LEMMA CheckingKeeps ==
  ASSUME TokenInv, NEW c \in Checkers,
         \/ Validate(c)
         \/ \E t \in tokens : GetFencingToken(c, t)
         \/ Judge(c)
  PROVE  TokenInv'
<1> USE DEF TokenInv
<1>0. UNCHANGED <<counter, tokens, now, issuing>>
  BY DEF Validate, GetFencingToken, Judge
<1>1. BelowCounter' /\ HandedOutOnce'
  BY <1>0 DEF BelowCounter, HandedOutOnce, Same
<1>2. TokensTyped' /\ SeenBelowCounter'
  <2>1. CASE Validate(c)
    BY <2>1, <1>0 DEF TokensTyped, SeenBelowCounter, Validate, Check
  <2>2. CASE \E t \in tokens : GetFencingToken(c, t)
    <3>1. PICK t \in tokens : GetFencingToken(c, t)
      BY <2>2
    <3>2. t \in TokenRow /\ checking[c] \in Check /\ t.sequence < counter[t.path]
      BY <3>1 DEF TokensTyped, BelowCounter, GetFencingToken
    <3>3. [checking[c] EXCEPT !.row = t] \in Check
      BY <3>2 DEF Check
    <3>4. checking' = [checking EXCEPT ![c] = [checking[c] EXCEPT !.row = t]]
          /\ accepted' = accepted /\ checking[c] # None
      BY <3>1 DEF GetFencingToken
    <3>5. TokensTyped'
      BY <3>3, <3>4, <1>0 DEF TokensTyped
    <3>6. /\ checking'[c].floor = checking[c].floor /\ checking'[c].row = t
          /\ \A d \in Checkers \ {c} : checking'[d] = checking[d]
      BY <3>2, <3>4 DEF TokensTyped, Check
    <3>7. SeenBelowCounter'
      BY <3>2, <3>4, <3>6, <1>0 DEF SeenBelowCounter
    <3> QED
      BY <3>5, <3>7
  <2>3. CASE Judge(c)
    <3> DEFINE t == checking[c].row
    <3>1. checking[c] \in Check /\ t \in TokenRow /\ t.sequence < counter[t.path]
      BY <2>3 DEF TokensTyped, Judge, Check, SeenBelowCounter
    <3>2. accepted' = accepted \/ accepted' = [accepted EXCEPT ![t.path] = t.sequence]
      BY <2>3 DEF Judge
    <3>3. accepted' \in [Fenced -> Nat] /\ \A p \in Fenced : accepted'[p] < counter[p]
      BY <3>1, <3>2 DEF TokensTyped, SeenBelowCounter, TokenRow
    <3>4. checking' = [checking EXCEPT ![c] = None]
      BY <2>3 DEF Judge
    <3> QED
      BY <3>3, <3>4, <1>0 DEF TokensTyped, SeenBelowCounter
  <2> QED
    BY <2>1, <2>2, <2>3
<1> QED
  BY <1>1, <1>2

(* Time and restarts leave the tokens alone. *)
LEMMA OtherStepsKeep ==
  ASSUME TokenInv, Tick \/ FencingRestart \/ UNCHANGED tokenVars
  PROVE  TokenInv'
<1> USE DEF TokenInv
<1>1. CASE Tick
  BY <1>1 DEF Tick, TokensTyped, BelowCounter, HandedOutOnce, SeenBelowCounter, Same
<1>2. CASE FencingRestart
  BY <1>2 DEF FencingRestart, TokensTyped, BelowCounter, HandedOutOnce, SeenBelowCounter, Same
<1>3. CASE UNCHANGED tokenVars
  BY <1>3 DEF tokenVars, TokensTyped, BelowCounter, HandedOutOnce, SeenBelowCounter, Same
<1> QED
  BY <1>1, <1>2, <1>3

(* The invariant of the counter holds throughout. *)
THEOREM CounterInvariant == TokenSpec => []TokenInv
<1>1. TokenInv /\ [TokenNext]_tokenVars => TokenInv'
  BY NextSequenceKeeps, InsertKeeps, RevokeKeeps, CheckingKeeps, OtherStepsKeep DEF TokenNext, ValidateStep
<1> QED
  BY <1>1, TokenInitHolds, PTL DEF TokenSpec

(* At most one token of a path is valid, and no two share a sequence. *)
THEOREM AtMostOneValid == TokenSpec => []OneValidToken
<1>1. TokenInv => OneValidToken
  <2> SUFFICES ASSUME TokenInv, NEW s \in tokens, NEW t \in tokens, s.path = t.path
               PROVE  /\ Same(s, t) => s = t
                      /\ Valid(s, now) /\ Valid(t, now) => s = t
    BY DEF OneValidToken
  <2>1. Same(s, t) => s = t
    BY DEF TokenInv, HandedOutOnce
  <2>2. /\ s.sequence \in Nat /\ t.sequence \in Nat /\ counter[s.path] \in Nat
        /\ s.sequence < counter[s.path] /\ t.sequence < counter[s.path]
    BY DEF TokenInv, TokensTyped, TokenRow, BelowCounter
  <2>3. Valid(s, now) /\ Valid(t, now) => s.sequence = t.sequence
    BY <2>2 DEF Valid, CurrentFencingSequence
  <2> QED
    BY <2>1, <2>3 DEF Same
<1> QED
  BY <1>1, CounterInvariant, PTL

-----------------------------------------------------------------------------
(* Nothing turns back the counter or the clock. *)
LEMMA OnlyForward ==
  ASSUME TokensTyped, [TokenNext]_tokenVars
  PROVE  /\ \A p \in Fenced : counter[p] \in Nat /\ counter'[p] \in Nat /\ counter[p] <= counter'[p]
         /\ now \in Nat /\ now' \in Nat /\ now <= now'
<1>1. CASE \E i \in Issuers, p \in Fenced, h \in Holders, secs \in LeaseSecs :
             NextFencingSequence(i, p, h, secs)
  BY <1>1 DEF NextFencingSequence, TokensTyped
<1>2. CASE Tick
  BY <1>2 DEF Tick, TokensTyped
<1>3. CASE UNCHANGED <<counter, now>>
  BY <1>3 DEF TokensTyped
<1> QED
  BY <1>1, <1>2, <1>3 DEF TokenNext, ValidateStep, tokenVars, InsertFencingToken, Revoke, Validate,
     GetFencingToken, Judge, FencingRestart

(* A token that is not valid never becomes valid. *)
THEOREM DeadForEver == TokenSpec => DeadStaysDead
<1> DEFINE Stays == \A t \in tokens : ~ Valid(t, now) => ~ ValidToken(t.path, t.sequence)'
<1>1. TokenInv /\ [TokenNext]_tokenVars => Stays
  <2> SUFFICES ASSUME TokenInv, [TokenNext]_tokenVars, NEW t \in tokens, NEW u \in tokens',
                      u.path = t.path, u.sequence = t.sequence, Valid(u, now)'
               PROVE  Valid(t, now)
    BY DEF ValidToken
  <2>1. /\ t.path \in Fenced /\ t.sequence \in Nat /\ t.expires \in Nat
    BY DEF TokenInv, TokensTyped, TokenRow
  <2>2. u.sequence >= counter'[u.path] - 1 /\ ~ u.revoked /\ now' < u.expires
    BY DEF Valid, CurrentFencingSequence
  <2>3. u = t
    <3>1. CASE u \in tokens
      BY <3>1 DEF TokenInv, HandedOutOnce, Same
    <3>2. CASE \E i \in Issuers : InsertFencingToken(i)
      <4>1. PICK i \in Issuers : InsertFencingToken(i)
        BY <3>2
      <4>2. u \in tokens \/ (issuing[i] # None /\ u = issuing[i])
        BY <4>1 DEF InsertFencingToken
      <4> QED
        BY <4>2, <3>1 DEF TokenInv, HandedOutOnce, Same
    <3>3. CASE \E s \in tokens : Revoke(s)
      <4>1. PICK s \in tokens : Revoke(s)
        BY <3>3
      <4>2. u \in tokens \/ u = [s EXCEPT !.revoked = TRUE]
        BY <4>1 DEF Revoke
      <4>3. [s EXCEPT !.revoked = TRUE].revoked = TRUE
        BY DEF TokenInv, TokensTyped, TokenRow
      <4> QED
        BY <4>2, <4>3, <3>1, <2>2
    <3>4. CASE tokens' = tokens
      BY <3>4, <3>1
    <3> QED
      BY <3>2, <3>3, <3>4 DEF TokenNext, ValidateStep, tokenVars, NextFencingSequence, Validate, GetFencingToken,
         Judge, Tick, FencingRestart
  <2>4. counter[t.path] <= counter'[t.path] /\ now <= now' /\ now \in Nat /\ now' \in Nat
        /\ counter[t.path] \in Nat /\ counter'[t.path] \in Nat
    BY <2>1, OnlyForward DEF TokenInv
  <2> QED
    BY <2>1, <2>2, <2>3, <2>4 DEF Valid, CurrentFencingSequence
<1>2. TokenInv /\ [TokenNext]_tokenVars => [Stays]_tokenVars
  BY <1>1
<1> QED
  BY <1>2, CounterInvariant, PTL DEF TokenSpec, DeadStaysDead

(* No validation finds a token valid that is older than one found valid      *)
(* before it began.                                                          *)
THEOREM OrderOfAcceptance == TokenSpec => AcceptedInOrder
<1> DEFINE InOrder == \A c \in Checkers :
             Judge(c) /\ Accepts(c) =>
               checking[c].row.sequence >= checking[c].floor[checking[c].row.path]
<1>1. TokenInv => InOrder
  <2> SUFFICES ASSUME TokenInv, NEW c \in Checkers, Judge(c), Accepts(c)
               PROVE  checking[c].row.sequence >= checking[c].floor[checking[c].row.path]
    OBVIOUS
  <2>1. checking[c] \in Check /\ checking[c].row \in TokenRow
    BY DEF TokenInv, TokensTyped, Accepts, Check
  <2>2. /\ checking[c].row.path \in Fenced /\ checking[c].row.sequence \in Nat
        /\ checking[c].floor[checking[c].row.path] \in Nat
        /\ counter[checking[c].row.path] \in Nat
    BY <2>1 DEF Check, TokenRow, TokenInv, TokensTyped
  <2>3. checking[c].floor[checking[c].row.path] < counter[checking[c].row.path]
    BY <2>2 DEF TokenInv, SeenBelowCounter, Accepts
  <2>4. checking[c].row.sequence >= counter[checking[c].row.path] - 1
    BY DEF Accepts, Valid, CurrentFencingSequence
  <2> QED
    BY <2>2, <2>3, <2>4
<1>2. TokenInv /\ [TokenNext]_tokenVars => [InOrder]_tokenVars
  BY <1>1
<1> QED
  BY <1>2, CounterInvariant, PTL DEF TokenSpec, AcceptedInOrder

-----------------------------------------------------------------------------
(*************************** the control plane ******************************)

(* One step of the whole, seen from the registry and from the fence.         *)
LEMMA StepOfBoth == [ControlNext]_controlVars => [Next]_vars /\ [TokenNext]_tokenVars
<1> SUFFICES ASSUME [ControlNext]_controlVars PROVE [Next]_vars /\ [TokenNext]_tokenVars
  OBVIOUS
<1>1. CASE RegistryStep /\ UNCHANGED <<tokenVars, admitted>>
  BY <1>1 DEF Next
<1>2. ASSUME NEW p \in Fenced, BeforeAcquire(p) PROVE [Next]_vars /\ [TokenNext]_tokenVars
  BY <1>2 DEF BeforeAcquire
<1>3. ASSUME NEW i \in Issuers, NEW p \in Fenced, NEW h \in Holders, NEW secs \in LeaseSecs,
             Issue(i, p, h, secs)
      PROVE  [Next]_vars /\ [TokenNext]_tokenVars
  BY <1>3 DEF Issue, TokenNext
<1>4. CASE (\E i \in Issuers : InsertFencingToken(i)) /\ UNCHANGED <<vars, admitted>>
  BY <1>4 DEF TokenNext
<1>5. CASE ((\E t \in tokens : Revoke(t)) \/ ValidateStep \/ Tick) /\ UNCHANGED <<vars, admitted>>
  BY <1>5 DEF TokenNext
<1>6. CASE Restart /\ FencingRestart /\ UNCHANGED admitted
  BY <1>6 DEF Next, TokenNext
<1>7. CASE UNCHANGED controlVars
  BY <1>7 DEF controlVars
<1> QED
  BY <1>1, <1>2, <1>3, <1>4, <1>5, <1>6, <1>7 DEF ControlNext

(* The control plane implements the registry and the fence.                  *)
THEOREM ControlPlaneImplements == ControlSpec => Spec /\ TokenSpec
<1>1. ControlInit => Init /\ TokenInit
  BY DEF ControlInit
<1> QED
  BY <1>1, StepOfBoth, PTL DEF ControlSpec, Spec, TokenSpec

-----------------------------------------------------------------------------
(* A row of the registry is never taken out of the table.                    *)
LEMMA RegisteredForGood ==
  ASSUME IInv, [Next]_vars, NEW p \in Paths, Known(table, p)
  PROVE  Known(table', p)
<1>0. /\ TypeOK /\ table \in [Paths -> Item] /\ resources \in [Paths -> Item]
      /\ Fresh # Unknown
  BY KnownItems DEF IInv, TypeOK, Fresh, Unknown
<1>1. ASSUME NEW c \in Calls, UpsertResource(c) PROVE Known(table', p)
  BY <1>0, <1>1 DEF UpsertResource, Known
<1>2. ASSUME NEW q \in Paths, NEW next \in {"active", "draining", "retired"}, SetState(q, next)
      PROVE  Known(table', p)
  BY <1>0, <1>2 DEF SetState, Known, Unknown
<1>3. \/ table' = table
      \/ \E c \in Calls : UpsertResource(c)
      \/ \E q \in Paths, next \in {"active", "draining", "retired"} : SetState(q, next)
  BY DEF Next, RegistryStep, vars, Register, SetPolicy, GetResource, ReadFails, WriteFails, Remember,
     UpsertPolicy, ApplyPolicy, Restart
<1> QED
  BY <1>1, <1>2, <1>3 DEF Known

(* Both invariants, and that whatever is fenced was let through.             *)
Whole ==
  /\ IInv /\ TokenInv
  /\ admitted \in SUBSET Fenced
  /\ \A p \in admitted : Known(table, p)
  /\ \A i \in Issuers : issuing[i] # None => issuing[i].path \in admitted
  /\ \A t \in tokens : t.path \in admitted

(* Every step of the composition keeps registered what is fenced. *)
LEMMA WholeStep == Whole /\ IInv' /\ TokenInv' /\ [ControlNext]_controlVars => Whole'
<1> SUFFICES ASSUME Whole, IInv', TokenInv', [ControlNext]_controlVars PROVE Whole'
  OBVIOUS
<1>0. [Next]_vars /\ [TokenNext]_tokenVars /\ TokensTyped /\ TypeOK
  BY StepOfBoth DEF Whole, TokenInv, IInv
<1>1. \A p \in Paths : Known(table, p) => Known(table', p)
  BY <1>0, RegisteredForGood DEF Whole
<1>2. \A p \in admitted : p \in Paths /\ Known(table', p)
  BY <1>1, ControlPlaneAssumption DEF Whole
<1>3. ASSUME NEW p \in Fenced, BeforeAcquire(p) PROVE Whole'
  <2>1. Known(table, p) /\ p \in Paths
    BY <1>3, ControlPlaneAssumption DEF BeforeAcquire, Admits, Whole, IInv, TreeHasNoHoles
  <2>2. tokens' = tokens /\ issuing' = issuing /\ admitted' = admitted \cup {p} /\ table' = table
    BY <1>3 DEF BeforeAcquire, tokenVars, vars
  <2> QED
    BY <1>2, <2>1, <2>2 DEF Whole, Known
<1>4. ASSUME NEW i \in Issuers, NEW p \in Fenced, NEW h \in Holders, NEW secs \in LeaseSecs,
             Issue(i, p, h, secs)
      PROVE  Whole'
  <2>1. /\ tokens' = tokens /\ admitted' = admitted /\ p \in admitted /\ table' = table
        /\ \A j \in Issuers : issuing'[j] = IF j = i THEN issuing'[i] ELSE issuing[j]
        /\ issuing'[i].path = p
    BY <1>0, <1>4 DEF Issue, NextFencingSequence, vars, TokensTyped
  <2> QED
    BY <1>2, <2>1 DEF Whole
<1>5. ASSUME NEW i \in Issuers, InsertFencingToken(i), UNCHANGED <<vars, admitted>> PROVE Whole'
  <2>1. /\ tokens' = tokens \cup {issuing[i]} /\ issuing[i].path \in admitted
        /\ admitted' = admitted /\ table' = table
        /\ \A j \in Issuers : issuing'[j] = IF j = i THEN None ELSE issuing[j]
    BY <1>0, <1>5 DEF InsertFencingToken, vars, TokensTyped, Whole
  <2> QED
    BY <1>2, <2>1 DEF Whole
<1>6. ASSUME NEW t \in tokens, Revoke(t), UNCHANGED <<vars, admitted>> PROVE Whole'
  <2>1. /\ \A u \in tokens' : \E s \in tokens : u.path = s.path
        /\ issuing' = issuing /\ admitted' = admitted /\ table' = table
    BY <1>0, <1>6 DEF Revoke, vars, TokensTyped, TokenRow
  <2> QED
    BY <1>2, <2>1 DEF Whole
<1>7. ASSUME RegistryStep \/ ValidateStep \/ Tick \/ FencingRestart \/ UNCHANGED tokenVars,
             /\ tokens' = tokens /\ admitted' = admitted
             /\ issuing' = issuing \/ \A i \in Issuers : issuing'[i] = None
      PROVE  Whole'
  BY <1>2, <1>7 DEF Whole
<1>8. CASE RegistryStep /\ UNCHANGED <<tokenVars, admitted>>
  BY <1>7, <1>8 DEF tokenVars
<1>9. CASE (ValidateStep \/ Tick) /\ UNCHANGED <<vars, admitted>>
  BY <1>7, <1>9 DEF ValidateStep, Validate, GetFencingToken, Judge, Tick
<1>10. CASE Restart /\ FencingRestart /\ UNCHANGED admitted
  BY <1>7, <1>10 DEF FencingRestart
<1>11. CASE UNCHANGED controlVars
  BY <1>7, <1>11 DEF controlVars, tokenVars
<1> QED
  BY <1>3, <1>4, <1>5, <1>6, <1>8, <1>9, <1>10, <1>11 DEF ControlNext

(* The registry, the fence and what passes between them are consistent, for  *)
(* any number of paths, calls and restarts.                                  *)
THEOREM Consistent == ControlSpec => []ControlConsistent
<1>1. ControlInit /\ IInv /\ TokenInv => Whole
  BY DEF ControlInit, TokenInit, Whole
<1>2. Whole /\ OneValidToken => ControlConsistent
  <2> SUFFICES ASSUME Whole, OneValidToken PROVE ControlConsistent
    OBVIOUS
  <2>1. FencedAreRegistered
    BY DEF FencedAreRegistered, Fences, Whole
  <2> QED
    BY <2>1 DEF Whole, ControlConsistent, IInv, TokenInv
<1>3. ControlSpec => []Whole
  BY <1>1, WholeStep, ControlPlaneImplements, RegistryInvariant, CounterInvariant, PTL
     DEF ControlSpec
<1> QED
  BY <1>2, <1>3, ControlPlaneImplements, AtMostOneValid, PTL

(* Behind the control plane a token that is not valid never becomes valid,   *)
(* and verdicts follow the order of the tokens: that admissions come before  *)
(* the tokens and registrations between them changes nothing for the fence.  *)
THEOREM FenceHolds == ControlSpec => DeadStaysDead /\ AcceptedInOrder
BY ControlPlaneImplements, DeadForEver, OrderOfAcceptance, PTL

(***************************** groups of callers ****************************)

Tables(D) == [D -> GroupRow]
Walks(D) == [groups : Tables(D), todo : Seq(D)]

(* One of the groups that g depends on is not well. *)
LeansOnUnwell(ds, gs, g) == \E d \in DependenciesOf(ds, g) : Unwell(gs[d])

(* Nobody is degraded without a reason, and nobody is spared who has one.    *)
HasReason(ds, gs, g) == gs[g].degraded => LeansOnUnwell(ds, gs, g)
HasSpread(ds, gs, g) ==
  gs[g].alive < gs[g].threshold =>
    Unwell(gs[g]) /\ \A d \in Range(DependOn(ds, g)) : gs[d].degraded

(* What changes of the groups in one turn of the mutex keep. *)
Follows(ds, D, gs, k) ==
  /\ k \in Tables(D)
  /\ \A g \in D : /\ k[g].threshold = gs[g].threshold
                  /\ HasReason(ds, gs, g) => HasReason(ds, k, g)
                  /\ HasSpread(ds, gs, g) => HasSpread(ds, k, g)

Recount(gs, k, D) ==
  \A g \in D : k[g].alive = gs[g].alive /\ k[g].threshold = gs[g].threshold

(* Every table follows itself, and what follows step by step follows.        *)
LEMMA FollowsIsOrder ==
  ASSUME NEW ds, NEW D, NEW a, NEW b, NEW c, a \in Tables(D)
  PROVE  /\ Follows(ds, D, a, a)
         /\ Follows(ds, D, a, b) /\ Follows(ds, D, b, c) => Follows(ds, D, a, c)
BY DEF Follows

(* The rows that name g as what another group depends on. *)
NamedBy(ds, g) == {i \in DOMAIN ds : ds[i][2] = g}

(* The groups that depend on g, each as often as there are rows that say so. *)
LEMMA Dependants ==
  ASSUME NEW D, NEW ds \in Seq(D \X D), NEW g
  PROVE  /\ DependOn(ds, g) \in Seq(D)
         /\ Len(DependOn(ds, g)) = Cardinality(NamedBy(ds, g))
         /\ \A x : x \in Range(DependOn(ds, g)) <=> g \in DependenciesOf(ds, x)
         /\ \A x : DependenciesOf(ds, x) \subseteq D
         /\ Range(DependOn(ds, g)) \subseteq D
<1> DEFINE K == {i \in DOMAIN ds : ds[i][2] = g}
           n == Cardinality(K)
           on == Keep(ds, K)
<1>1. DOMAIN ds = 1..Len(ds) /\ Len(ds) \in Nat /\ \A i \in DOMAIN ds : ds[i] \in D \X D
  BY LenProperties, ElementOfSeq
<1>2. K = {i \in DOMAIN ds : ~ (ds[i][2] /= g)}
  OBVIOUS
<1>3. DependOn(ds, g) = [i \in DOMAIN on |-> on[i][1]]
  BY <1>2 DEF DependOn, Without
<1>4. /\ n \in Nat
      /\ \A i \in 1..n : Nth(K, i) \in K
      /\ \A j \in K : \E i \in 1..n : Nth(K, i) = j
  BY <1>1, NthAreAll
<1>5. DOMAIN on = 1..n /\ \A i \in 1..n : on[i] = ds[Nth(K, i)]
  BY DEF Keep
<1> HIDE DEF n, on
<1>6. DependOn(ds, g) = [i \in 1..n |-> ds[Nth(K, i)][1]]
  BY <1>3, <1>5
<1>7. \A i \in 1..n : ds[Nth(K, i)][1] \in D
  BY <1>1, <1>4
<1>8. DependOn(ds, g) \in [1..n -> D]
  BY <1>6, <1>7
<1>9. DependOn(ds, g) \in Seq(D) /\ Len(DependOn(ds, g)) = n
  BY <1>4, <1>8
<1>10. \A x : DependenciesOf(ds, x) = {ds[i][2] : i \in {j \in DOMAIN ds : ds[j][1] = x}}
  BY DEF DependenciesOf, Range
<1>11. Range(DependOn(ds, g)) = {ds[j][1] : j \in K}
  <2>1. Range(DependOn(ds, g)) = {ds[Nth(K, i)][1] : i \in 1..n}
    <3> HIDE DEF K
    <3> QED BY <1>6 DEF Range
  <2>2. \A j \in K : \E i \in 1..n : ds[Nth(K, i)][1] = ds[j][1]
    BY <1>4
  <2>3. \A i \in 1..n : \E j \in K : ds[Nth(K, i)][1] = ds[j][1]
    BY <1>4
  <2> HIDE DEF K
  <2> QED BY <2>1, <2>2, <2>3
<1>12. \A x : x \in Range(DependOn(ds, g)) <=> g \in DependenciesOf(ds, x)
  BY <1>10, <1>11
<1>13. \A x : DependenciesOf(ds, x) \subseteq D
  BY <1>1, <1>10
<1>14. Range(DependOn(ds, g)) \subseteq D
  BY <1>1, <1>11
<1> QED BY <1>9, <1>12, <1>13, <1>14 DEF n, K, NamedBy

(* The rows that name a degraded group: there are fewer with every group     *)
(* that is restored.                                                         *)
Naming(ds, gs) == {i \in DOMAIN ds : gs[ds[i][2]].degraded}

Left(ds, s) == Len(s.todo) + Cardinality(Naming(ds, s.groups))

CanRestore(ds, s) ==
  s.groups[Head(s.todo)].degraded /\ ~ LeansOnUnwell(ds, s.groups, Head(s.todo))

RestoredRow(row) == [row EXCEPT !.degraded = FALSE, !.status = ByCount(row)]

(* Degrading and restoring leave the numbers of a row alone, and a restored  *)
(* group that has too few alive is still not well.                           *)
LEMMA RowsStay ==
  ASSUME NEW row \in GroupRow
  PROVE  /\ RestoredRow(row) \in GroupRow
         /\ [row EXCEPT !.degraded = TRUE, !.status = "degraded"] \in GroupRow
         /\ ~ RestoredRow(row).degraded
         /\ RestoredRow(row).alive = row.alive /\ RestoredRow(row).threshold = row.threshold
         /\ row.alive < row.threshold => Unwell(RestoredRow(row))
         /\ row.degraded \in BOOLEAN /\ row.alive \in Nat /\ row.threshold \in Nat
<1>1. /\ row.status \in GroupStatuses /\ row.degraded \in BOOLEAN
      /\ row.alive \in Nat /\ row.threshold \in Nat /\ row.threshold # 0 /\ row.total \in Nat
  BY DEF GroupRow
<1> DEFINE new == RestoredRow(row)
<1>3. ByCount(row) \in GroupStatuses /\ (row.alive < row.threshold => ByCount(row) = "unhealthy")
  BY <1>1 DEF ByCount, GroupStatuses
<1>4. new \in GroupRow
  BY <1>3 DEF RestoredRow, GroupRow
<1>5. /\ new.degraded = FALSE /\ new.alive = row.alive /\ new.threshold = row.threshold
      /\ new.status = ByCount(row)
  BY DEF RestoredRow, GroupRow
<1> HIDE DEF new
<1>6. row.alive < row.threshold => Unwell(new)
  BY <1>3, <1>5 DEF Unwell
<1>7. [row EXCEPT !.degraded = TRUE, !.status = "degraded"] \in GroupRow
  <2>1. "degraded" \in GroupStatuses
    BY DEF GroupStatuses
  <2> QED BY <1>1, <2>1 DEF GroupRow
<1> QED BY <1>1, <1>4, <1>5, <1>6, <1>7 DEF new

(* One turn of a walk: the first of the list is tried.                       *)
TurnKeeps(D, ds, s, t, g) ==
  /\ g \in D /\ Tail(s.todo) \in Seq(D) /\ Len(Tail(s.todo)) = Len(s.todo) - 1
  /\ Range(s.todo) = {g} \cup Range(Tail(s.todo))
  /\ t \in Walks(D)
  /\ ~ CanRestore(ds, s) => t.groups = s.groups /\ t.todo = Tail(s.todo)
  /\ CanRestore(ds, s) =>
       /\ t.groups = [s.groups EXCEPT ![g] = RestoredRow(s.groups[g])]
       /\ t.todo = DependOn(ds, g) \o Tail(s.todo)

(* The turn as it is defined.                                                *)
LEMMA TurnIs ==
  ASSUME NEW D, NEW ds \in Seq(D \X D), NEW s \in Walks(D), s.todo # <<>>
  PROVE  TurnKeeps(D, ds, s, TryRestoreGroup(ds, s), Head(s.todo))
<1> DEFINE g == Head(s.todo)
           t == TryRestoreGroup(ds, s)
<1> SUFFICES TurnKeeps(D, ds, s, t, g)
  OBVIOUS
<1> USE DEF TurnKeeps
<1>1. s.groups \in Tables(D) /\ s.todo \in Seq(D)
  BY DEF Walks
<1>2. /\ g \in D /\ Tail(s.todo) \in Seq(D) /\ Len(Tail(s.todo)) = Len(s.todo) - 1
  BY <1>1, HeadTailProperties
<1>3. Range(s.todo) = {g} \cup Range(Tail(s.todo))
  <2>1. /\ DOMAIN s.todo = 1..Len(s.todo) /\ Len(s.todo) \in Nat \ {0} /\ g = s.todo[1]
        /\ DOMAIN Tail(s.todo) = 1..(Len(s.todo) - 1)
        /\ \A i \in 1..(Len(s.todo) - 1) : Tail(s.todo)[i] = s.todo[i + 1]
    BY <1>1, <1>2, LenProperties, EmptySeq, HeadTailProperties
  <2>2. ASSUME NEW i \in 1..Len(s.todo), i # 1
        PROVE  \E j \in 1..(Len(s.todo) - 1) : Tail(s.todo)[j] = s.todo[i]
    <3>1. i - 1 \in 1..(Len(s.todo) - 1) /\ (i - 1) + 1 = i
      BY <2>1, <2>2
    <3> QED BY <2>1, <3>1
  <2>3. \A j \in 1..(Len(s.todo) - 1) : j + 1 \in 1..Len(s.todo)
    BY <2>1
  <2>4. 1 \in 1..Len(s.todo)
    BY <2>1
  <2>5. Range(Tail(s.todo)) \subseteq Range(s.todo) /\ g \in Range(s.todo)
    BY <2>1, <2>3, <2>4 DEF Range
  <2>6. Range(s.todo) \subseteq {g} \cup Range(Tail(s.todo))
    <3>1. \A i \in 1..Len(s.todo) : s.todo[i] \in {g} \cup Range(Tail(s.todo))
      BY <2>1, <2>2 DEF Range
    <3> QED BY <2>1, <3>1 DEF Range
  <2> QED BY <2>5, <2>6
<1>4. t = IF ~s.groups[g].degraded \/ LeansOnUnwell(ds, s.groups, g)
          THEN [s EXCEPT !.todo = Tail(@)]
          ELSE [groups |-> [s.groups EXCEPT ![g].degraded = FALSE,
                                            ![g].status = ByCount(s.groups[g])],
                todo |-> DependOn(ds, g) \o Tail(s.todo)]
  BY DEF TryRestoreGroup, LeansOnUnwell
<1>0. g = Head(s.todo)
  OBVIOUS
<1> HIDE DEF g, t
<1>5. s.groups[g] \in GroupRow /\ s.groups[g].degraded \in BOOLEAN
  BY <1>1, <1>2 DEF Tables, GroupRow
<1>6. CASE ~ CanRestore(ds, s)
  <2>1. t = [s EXCEPT !.todo = Tail(@)]
    BY <1>4, <1>6 DEF CanRestore, g
  <2>2. t.groups = s.groups /\ t.todo = Tail(s.todo) /\ t = [groups |-> s.groups, todo |-> Tail(s.todo)]
    BY <2>1 DEF Walks
  <2>3. t \in Walks(D)
    BY <1>1, <1>2, <2>2 DEF Walks
  <2> QED BY <1>2, <1>3, <1>6, <2>2, <2>3
<1>7. CASE CanRestore(ds, s)
  <2> DEFINE gs == [s.groups EXCEPT ![g].degraded = FALSE, ![g].status = ByCount(s.groups[g])]
             rest == DependOn(ds, g) \o Tail(s.todo)
  <2>1. t = [groups |-> gs, todo |-> rest]
    BY <1>4, <1>7 DEF CanRestore, g
  <2>2. gs = [s.groups EXCEPT ![g] = RestoredRow(s.groups[g])]
    BY <1>1, <1>2, <1>5 DEF RestoredRow, Tables, GroupRow
  <2>3. gs \in Tables(D)
    <3>1. RestoredRow(s.groups[g]) \in GroupRow
      BY <1>5, RowsStay
    <3> QED BY <1>1, <1>2, <2>2, <3>1 DEF Tables
  <2>4. rest \in Seq(D)
    BY <1>2, Dependants, ConcatProperties
  <2> HIDE DEF gs, rest
  <2>5. t \in Walks(D)
    BY <2>1, <2>3, <2>4 DEF Walks
  <2>6. t.groups = gs /\ t.todo = rest
    BY <2>1
  <2> QED BY <1>2, <1>3, <1>7, <2>2, <2>5, <2>6 DEF rest
<1> QED BY <1>6, <1>7

(* Every turn lowers what is left to do.                                     *)
LEMMA TurnsEnd ==
  ASSUME NEW D, NEW ds \in Seq(D \X D), NEW s \in Walks(D)
  PROVE  /\ Left(ds, s) \in Nat
         /\ s.todo # <<>> => Left(ds, TryRestoreGroup(ds, s)) < Left(ds, s)
<1> DEFINE n == Naming(ds, s.groups)
<1>1. s.groups \in Tables(D) /\ s.todo \in Seq(D) /\ Len(s.todo) \in Nat
  BY LenProperties DEF Walks
<1>2. DOMAIN ds = 1..Len(ds) /\ Len(ds) \in Nat /\ \A i \in DOMAIN ds : ds[i] \in D \X D
  BY LenProperties, ElementOfSeq
<1>3. IsFiniteSet(DOMAIN ds) /\ \A K \in SUBSET DOMAIN ds : IsFiniteSet(K) /\ Cardinality(K) \in Nat
  <2>1. IsFiniteSet(DOMAIN ds)
    BY <1>2, FS_Interval
  <2> QED BY <2>1, FS_Subset, FS_CardinalityType
<1>4. n \in SUBSET DOMAIN ds
  BY DEF Naming
<1>5. Left(ds, s) \in Nat
  BY <1>1, <1>3, <1>4 DEF Left
<1>6. ASSUME s.todo # <<>> PROVE Left(ds, TryRestoreGroup(ds, s)) < Left(ds, s)
  <2> DEFINE g == Head(s.todo)
             t == TryRestoreGroup(ds, s)
             out == NamedBy(ds, g)
             k == Naming(ds, t.groups)
  <2>1. /\ g \in D /\ Tail(s.todo) \in Seq(D) /\ Len(Tail(s.todo)) = Len(s.todo) - 1
        /\ t \in Walks(D)
        /\ ~ CanRestore(ds, s) => t.groups = s.groups /\ t.todo = Tail(s.todo)
        /\ CanRestore(ds, s) =>
             /\ t.groups = [s.groups EXCEPT ![g] = RestoredRow(s.groups[g])]
             /\ t.todo = DependOn(ds, g) \o Tail(s.todo)
    <3>1. TurnKeeps(D, ds, s, t, g)
      BY <1>6, TurnIs
    <3> HIDE DEF g, t
    <3> QED BY <3>1 DEF TurnKeeps
  <2> HIDE DEF g, t
  <2>2. CASE ~ CanRestore(ds, s)
    <3>1. Left(ds, s) = Len(s.todo) + Cardinality(n) /\ Left(ds, t) = (Len(s.todo) - 1) + Cardinality(n)
      BY <2>1, <2>2 DEF Left
    <3>2. Cardinality(n) \in Nat
      BY <1>3, <1>4
    <3> HIDE DEF n
    <3> QED BY <1>1, <3>1, <3>2 DEF t
  <2>3. CASE CanRestore(ds, s)
    <3>1. s.groups[g].degraded /\ s.groups[g] \in GroupRow
      BY <1>1, <2>1, <2>3 DEF CanRestore, g, Tables
    <3>2. ~ RestoredRow(s.groups[g]).degraded
      BY <3>1, RowsStay
    <3>3. \A x \in D : t.groups[x] = IF x = g THEN RestoredRow(s.groups[g]) ELSE s.groups[x]
      BY <1>1, <2>1, <2>3 DEF Tables
    <3>4. \A i \in DOMAIN ds : ds[i][2] \in D
      BY <1>2
    <3>5. out \subseteq n /\ k = n \ out
      BY <3>1, <3>2, <3>3, <3>4 DEF Naming, NamedBy
    <3>6. Cardinality(k) = Cardinality(n) - Cardinality(out)
      <4>1. out \in SUBSET n /\ IsFiniteSet(n)
        BY <1>3, <1>4, <3>5
      <4> HIDE DEF n, out, k
      <4>2. n \cap out = out
        BY <4>1
      <4> QED BY <3>5, <4>1, <4>2, FS_Difference
    <3>7. Len(DependOn(ds, g)) = Cardinality(out) /\ DependOn(ds, g) \in Seq(D)
      BY Dependants
    <3>8. Len(t.todo) = Cardinality(out) + (Len(s.todo) - 1)
      <4>1. Len(DependOn(ds, g) \o Tail(s.todo)) = Len(DependOn(ds, g)) + Len(Tail(s.todo))
        <5>1. DependOn(ds, g) \in Seq(D) /\ Tail(s.todo) \in Seq(D)
          BY <2>1, <3>7
        <5> QED BY <5>1, ConcatProperties
      <4> HIDE DEF out
      <4> QED BY <2>1, <2>3, <3>7, <4>1
    <3>9. Cardinality(n) \in Nat /\ Cardinality(out) \in Nat
      BY <1>3, <1>4, <3>5
    <3> HIDE DEF n, out, k
    <3>10. Left(ds, s) = Len(s.todo) + Cardinality(n) /\ Left(ds, t) = Len(t.todo) + Cardinality(k)
      BY DEF Left, n, k
    <3> QED BY <1>1, <3>6, <3>8, <3>9, <3>10 DEF t
  <2> QED BY <2>2, <2>3
<1> QED BY <1>5, <1>6

(* What every turn of a walk keeps holds when the list has been tried: the   *)
(* recursion of the walk has a solution, for every turn lowers what is left. *)
LEMMA WalkEnds ==
  ASSUME NEW D, NEW ds \in Seq(D \X D), NEW gs \in Tables(D), NEW todo \in Seq(D),
         NEW I \in SUBSET Walks(D), [groups |-> gs, todo |-> todo] \in I,
         \A s \in I : s.todo # <<>> => TryRestoreGroup(ds, s) \in I
  PROVE  \E s \in I : s.todo = <<>> /\ TryRestore(ds, gs, todo) = s.groups
<1> DEFINE W == Walks(D)
           m == [s \in W |-> Left(ds, s)]
           done == {s \in W : s.todo = <<>>}
           next == [s \in W |-> TryRestoreGroup(ds, s)]
           res == [s \in done |-> s.groups]
           Is(f) == f = [s \in W |-> IF s.todo = <<>> THEN s.groups ELSE f[TryRestoreGroup(ds, s)]]
           Walk == CHOOSE f : Is(f)
<1>1. DOMAIN gs = D
  BY DEF Tables
<1>2. TryRestore(ds, gs, todo) = Walk[[groups |-> gs, todo |-> todo]]
  BY <1>1 DEF TryRestore, Walks, Tables
<1>3. m \in [W -> Nat] /\ \A s \in W : m[s] = Left(ds, s)
  BY TurnsEnd
<1>4. \A s \in W \ done : next[s] = TryRestoreGroup(ds, s) /\ next[s] \in W
  <2>1. ASSUME NEW s \in Walks(D), s.todo # <<>> PROVE TryRestoreGroup(ds, s) \in Walks(D)
    <3>1. TurnKeeps(D, ds, s, TryRestoreGroup(ds, s), Head(s.todo))
      BY <2>1, TurnIs
    <3> QED BY <3>1 DEF TurnKeeps
  <2> QED BY <2>1
<1>5. \A s \in W \ done : next[s] \in W /\ m[next[s]] < m[s]
  <2>1. \A s \in W \ done : Left(ds, TryRestoreGroup(ds, s)) < Left(ds, s)
    BY TurnsEnd
  <2> HIDE DEF m, next
  <2> QED BY <1>3, <1>4, <2>1
<1>6. res \in [done -> Tables(D)] /\ \A s \in done : res[s] = s.groups
  BY DEF Walks
<1>7. done \in SUBSET W /\ \A s \in W : s \in done <=> s.todo = <<>>
  OBVIOUS
<1> HIDE DEF m, done, next, res, W
<1>16. GoesDown(W, m, done, next)
  BY <1>3, <1>5, <1>7 DEF GoesDown
<1>8. PICK f \in [W -> Tables(D)] : Recurses(f, W, done, next, res)
  BY <1>6, <1>16, DescentIsThere
<1>9. Is(f)
  BY <1>4, <1>6, <1>7, <1>8 DEF Recurses
<1>10. Is(Walk)
  <2> HIDE DEF Is
  <2> QED BY <1>9
<1> HIDE DEF Walk
<1>11. \A s \in W : Walk[s] = IF s.todo = <<>> THEN s.groups ELSE Walk[TryRestoreGroup(ds, s)]
  BY <1>10
<1>12. \A s \in W \ done : Walk[s] = Walk[next[s]]
  BY <1>4, <1>7, <1>11
<1> DEFINE begin == [groups |-> gs, todo |-> todo]
<1>13. I \in SUBSET W /\ begin \in I /\ \A s \in I \ done : next[s] \in I
  BY <1>4, <1>7 DEF W
<1> HIDE DEF begin, Is
<1>14. PICK s \in I \cap done : Walk[begin] = Walk[s]
  BY <1>12, <1>13, <1>16, DescentKeeps
<1>15. s.todo = <<>> /\ Walk[s] = s.groups
  BY <1>7, <1>11, <1>13, <1>14
<1> QED BY <1>2, <1>14, <1>15 DEF begin

(* Where everything on the list depends on a group that is not well, nothing *)
(* is restored.                                                              *)
LEMMA RestoresNothing ==
  ASSUME NEW D, NEW ds \in Seq(D \X D), NEW gs \in Tables(D), NEW todo \in Seq(D),
         \A x \in Range(todo) : LeansOnUnwell(ds, gs, x)
  PROVE  TryRestore(ds, gs, todo) = gs
<1> DEFINE I == {s \in Walks(D) : /\ s.groups = gs
                                  /\ \A x \in Range(s.todo) : LeansOnUnwell(ds, gs, x)}
           begin == [groups |-> gs, todo |-> todo]
<1>1. begin \in I
  BY DEF Walks
<1>2. ASSUME NEW s \in I, s.todo # <<>> PROVE TryRestoreGroup(ds, s) \in I
  <2> DEFINE t == TryRestoreGroup(ds, s)
             g == Head(s.todo)
  <2>1. TurnKeeps(D, ds, s, t, g)
    BY <1>2, TurnIs
  <2>2. g = Head(s.todo)
    OBVIOUS
  <2> HIDE DEF t, g
  <2>3. ~ CanRestore(ds, s)
    BY <2>1, <2>2 DEF TurnKeeps, CanRestore
  <2>4. t \in Walks(D) /\ t.groups = gs /\ \A x \in Range(t.todo) : LeansOnUnwell(ds, gs, x)
    BY <2>1, <2>3 DEF TurnKeeps
  <2> QED BY <2>4 DEF t
<1>3. I \in SUBSET Walks(D)
  OBVIOUS
<1>4. \A s \in I : s.todo # <<>> => TryRestoreGroup(ds, s) \in I
  BY <1>2
<1> HIDE DEF I
<1>5. PICK s \in I : s.todo = <<>> /\ TryRestore(ds, gs, todo) = s.groups
  BY <1>1, <1>3, <1>4, WalkEnds
<1> QED BY <1>5 DEF I

(* What a walk is about: groups keep their reasons, those on the list lose   *)
(* what has none, and unhealthy groups keep others degraded.                 *)
RestoreKeeps(ds, D, gs, todo, k) ==
  /\ k \in Tables(D) /\ Recount(gs, k, D)
  /\ \A g \in D : /\ HasSpread(ds, gs, g) => HasSpread(ds, k, g)
                  /\ HasReason(ds, gs, g) \/ g \in Range(todo) => HasReason(ds, k, g)

(* A turn keeps reasons, or puts the group on the list to be tried.          *)
LEMMA TurnKeepsGroups ==
  ASSUME NEW D, NEW ds \in Seq(D \X D), NEW s \in Walks(D), s.todo # <<>>,
         NEW t, t = TryRestoreGroup(ds, s), NEW g \in D
  PROVE  /\ Recount(s.groups, t.groups, D)
         /\ HasSpread(ds, s.groups, g) => HasSpread(ds, t.groups, g)
         /\ HasReason(ds, s.groups, g) \/ g \in Range(s.todo) =>
              HasReason(ds, t.groups, g) \/ g \in Range(t.todo)
<1> DEFINE h == Head(s.todo)
           gs == s.groups
           k == t.groups
<1>1. TurnKeeps(D, ds, s, t, h)
  BY TurnIs
<1>2. h = Head(s.todo) /\ gs = s.groups /\ k = t.groups /\ gs \in Tables(D)
  BY DEF Walks
<1> HIDE DEF h, gs, k
<1>3. CASE ~ CanRestore(ds, s)
  <2>1. k = gs /\ Range(s.todo) = {h} \cup Range(t.todo)
    BY <1>1, <1>2, <1>3 DEF TurnKeeps
  <2>2. HasReason(ds, gs, h)
    BY <1>2, <1>3 DEF CanRestore, HasReason
  <2> QED BY <1>2, <2>1, <2>2 DEF Recount
<1>4. CASE CanRestore(ds, s)
  <2>1. /\ h \in D /\ k = [gs EXCEPT ![h] = RestoredRow(gs[h])]
        /\ t.todo = DependOn(ds, h) \o Tail(s.todo)
        /\ Tail(s.todo) \in Seq(D) /\ Range(s.todo) = {h} \cup Range(Tail(s.todo))
    BY <1>1, <1>2, <1>4 DEF TurnKeeps
  <2>2. Range(t.todo) = Range(DependOn(ds, h)) \cup Range(Tail(s.todo))
    <3>1. DependOn(ds, h) \in Seq(D) /\ Tail(s.todo) \in Seq(D)
      BY <2>1, Dependants
    <3>2. Range(DependOn(ds, h) \o Tail(s.todo)) = Range(DependOn(ds, h)) \cup Range(Tail(s.todo))
      BY <3>1, RangeConcatenation
    <3> QED BY <2>1, <3>2
  <2>3. gs[h] \in GroupRow /\ gs[h].degraded /\ ~ LeansOnUnwell(ds, gs, h)
    BY <1>2, <1>4, <2>1 DEF Tables, CanRestore
  <2>4. \A x \in D : k[x] = IF x = h THEN RestoredRow(gs[h]) ELSE gs[x]
    BY <1>2, <2>1 DEF Tables
  <2>5. /\ ~ k[h].degraded /\ k[h].alive = gs[h].alive /\ k[h].threshold = gs[h].threshold
        /\ gs[h].alive < gs[h].threshold => Unwell(k[h])
    <3>1. k[h] = RestoredRow(gs[h])
      BY <2>1, <2>4
    <3>2. /\ ~ RestoredRow(gs[h]).degraded
          /\ RestoredRow(gs[h]).alive = gs[h].alive /\ RestoredRow(gs[h]).threshold = gs[h].threshold
          /\ gs[h].alive < gs[h].threshold => Unwell(RestoredRow(gs[h]))
      BY <2>3, RowsStay
    <3> QED BY <3>1, <3>2
  <2>6. \A x : DependenciesOf(ds, x) \subseteq D /\ Range(DependOn(ds, x)) \subseteq D
    BY Dependants
  <2>7. \A x, y : y \in Range(DependOn(ds, x)) <=> x \in DependenciesOf(ds, y)
    BY Dependants
  <2>8. Recount(gs, k, D)
    BY <2>4, <2>5 DEF Recount
  <2>9. ASSUME HasSpread(ds, gs, g) PROVE HasSpread(ds, k, g)
    <3> SUFFICES ASSUME k[g].alive < k[g].threshold
                 PROVE  Unwell(k[g]) /\ \A d \in Range(DependOn(ds, g)) : k[d].degraded
      BY DEF HasSpread
    <3>1. gs[g].alive < gs[g].threshold
      BY <2>8 DEF Recount
    <3>2. Unwell(gs[g]) /\ \A d \in Range(DependOn(ds, g)) : gs[d].degraded
      BY <2>9, <3>1 DEF HasSpread
    <3>3. Unwell(k[g])
      BY <2>4, <2>5, <3>1, <3>2
    <3>4. h \notin Range(DependOn(ds, g))
      BY <2>3, <2>7, <3>2 DEF LeansOnUnwell
    <3>5. \A d \in Range(DependOn(ds, g)) : k[d].degraded
      BY <2>4, <2>6, <3>2, <3>4
    <3> QED BY <3>3, <3>5
  <2>10. ASSUME HasReason(ds, gs, g) \/ g \in Range(s.todo)
         PROVE  HasReason(ds, k, g) \/ g \in Range(t.todo)
    <3>1. CASE g = h
      BY <2>5, <3>1 DEF HasReason
    <3>2. CASE g # h /\ g \in Range(s.todo)
      BY <2>1, <2>2, <3>2
    <3>3. CASE g # h /\ HasReason(ds, gs, g)
      <4> SUFFICES ASSUME k[g].degraded, g \notin Range(t.todo) PROVE LeansOnUnwell(ds, k, g)
        BY DEF HasReason
      <4>1. PICK d \in DependenciesOf(ds, g) : Unwell(gs[d])
        BY <2>4, <3>3 DEF HasReason, LeansOnUnwell
      <4>2. d # h
        BY <2>2, <2>7, <4>1
      <4> QED BY <2>4, <2>6, <4>1, <4>2 DEF LeansOnUnwell
    <3> QED BY <2>10, <3>1, <3>2, <3>3
  <2> QED BY <1>2, <2>8, <2>9, <2>10
<1> QED BY <1>3, <1>4

(* So a whole walk keeps what a turn keeps.                                  *)
LEMMA RestoreIs ==
  ASSUME NEW D, NEW ds \in Seq(D \X D), NEW gs \in Tables(D), NEW todo \in Seq(D)
  PROVE  RestoreKeeps(ds, D, gs, todo, TryRestore(ds, gs, todo))
<1> DEFINE k == TryRestore(ds, gs, todo)
           Good(s, g) ==
             /\ Recount(gs, s.groups, D)
             /\ HasSpread(ds, gs, g) => HasSpread(ds, s.groups, g)
             /\ HasReason(ds, gs, g) \/ g \in Range(todo) =>
                  HasReason(ds, s.groups, g) \/ g \in Range(s.todo)
           I(g) == {s \in Walks(D) : Good(s, g)}
           begin == [groups |-> gs, todo |-> todo]
<1>1. begin \in Walks(D) /\ begin.groups = gs /\ begin.todo = todo
  BY DEF Walks
<1>2. Recount(gs, gs, D)
  BY DEF Recount
<1>3. ASSUME NEW g \in D
      PROVE  /\ k \in Tables(D) /\ Recount(gs, k, D)
             /\ HasSpread(ds, gs, g) => HasSpread(ds, k, g)
             /\ HasReason(ds, gs, g) \/ g \in Range(todo) => HasReason(ds, k, g)
  <2>1. begin \in I(g)
    BY <1>1, <1>2
  <2>2. ASSUME NEW s \in I(g), s.todo # <<>> PROVE TryRestoreGroup(ds, s) \in I(g)
    <3> DEFINE t == TryRestoreGroup(ds, s)
    <3>1. TurnKeeps(D, ds, s, t, Head(s.todo))
      BY <2>2, TurnIs
    <3>2. t \in Walks(D)
      BY <3>1 DEF TurnKeeps
    <3>3. /\ Recount(s.groups, t.groups, D)
          /\ HasSpread(ds, s.groups, g) => HasSpread(ds, t.groups, g)
          /\ HasReason(ds, s.groups, g) \/ g \in Range(s.todo) =>
               HasReason(ds, t.groups, g) \/ g \in Range(t.todo)
      BY <2>2, TurnKeepsGroups
    <3> HIDE DEF t
    <3>4. Recount(gs, t.groups, D)
      BY <2>2, <3>3 DEF Recount
    <3>5. Good(t, g)
      BY <2>2, <3>3, <3>4
    <3> QED BY <3>2, <3>5 DEF t
  <2>3. I(g) \in SUBSET Walks(D) /\ \A s \in I(g) : s.todo # <<>> => TryRestoreGroup(ds, s) \in I(g)
    BY <2>2
  <2>4. \A s \in I(g) : s \in Walks(D) /\ Good(s, g)
    OBVIOUS
  <2> HIDE DEF I, Good
  <2>5. PICK s \in I(g) : s.todo = <<>> /\ k = s.groups
    <3> DEFINE J == I(g)
    <3>1. /\ J \in SUBSET Walks(D) /\ begin \in J
          /\ \A s \in J : s.todo # <<>> => TryRestoreGroup(ds, s) \in J
      BY <2>1, <2>3
    <3> HIDE DEF J
    <3>2. \E s \in J : s.todo = <<>> /\ k = s.groups
      BY <3>1, WalkEnds
    <3> QED BY <3>2 DEF J
  <2>6. Range(s.todo) = {}
    BY <2>5 DEF Range
  <2> HIDE DEF k
  <2>7. s \in Walks(D) /\ Good(s, g)
    BY <2>4
  <2> QED BY <2>5, <2>6, <2>7 DEF Good, Walks
<1>4. CASE D = {}
  <2>1. PICK s \in Walks(D) : s.todo = <<>> /\ k = s.groups
    <3> DEFINE J == Walks(D)
    <3>1. J \in SUBSET Walks(D) /\ begin \in J
      BY <1>1
    <3>2. \A s \in J : s.todo # <<>> => TryRestoreGroup(ds, s) \in J
      <4>1. ASSUME NEW s \in Walks(D), s.todo # <<>> PROVE TryRestoreGroup(ds, s) \in Walks(D)
        <5>1. TurnKeeps(D, ds, s, TryRestoreGroup(ds, s), Head(s.todo))
          BY <4>1, TurnIs
        <5> QED BY <5>1 DEF TurnKeeps
      <4> QED BY <4>1
    <3> HIDE DEF J
    <3>3. \E s \in J : s.todo = <<>> /\ k = s.groups
      BY <3>1, <3>2, WalkEnds
    <3> QED BY <3>3 DEF J
  <2>2. k \in Tables(D)
    BY <2>1 DEF Walks
  <2> QED BY <1>4, <2>2 DEF RestoreKeeps, Recount
<1>5. CASE D # {}
  <2> HIDE DEF k
  <2> QED BY <1>3, <1>5 DEF RestoreKeeps, k
<1> QED BY <1>4, <1>5

(* A group that is degraded keeps those that depend on it from being         *)
(* restored: the cascade of a degraded group changes nothing.                *)
LEMMA NextDegrades ==
  ASSUME NEW D, NEW ds \in Seq(D \X D), NEW k \in Tables(D), NEW d \in D
  PROVE  DegradeNext(ds, k, d) = IF k[d].degraded THEN k ELSE Degraded(k, d)
<1> DEFINE m == Degraded(k, d)
<1>1. k[d] \in GroupRow /\ [k[d] EXCEPT !.degraded = TRUE, !.status = "degraded"] \in GroupRow
  <2>1. k[d] \in GroupRow
    BY DEF Tables
  <2> QED BY <2>1, RowsStay
<1>2. m = [k EXCEPT ![d] = [k[d] EXCEPT !.degraded = TRUE, !.status = "degraded"]]
  BY DEF Degraded, Tables, GroupRow
<1>3. m \in Tables(D) /\ m[d].degraded
  BY <1>1, <1>2 DEF Tables, GroupRow
<1>4. \A x \in Range(DependOn(ds, d)) : d \in DependenciesOf(ds, x)
  BY Dependants
<1>5. \A x \in Range(DependOn(ds, d)) : LeansOnUnwell(ds, m, x)
  BY <1>3, <1>4 DEF LeansOnUnwell, Unwell
<1>6. DependOn(ds, d) \in Seq(D)
  BY Dependants
<1> HIDE DEF m
<1>7. TryRestore(ds, m, DependOn(ds, d)) = m
  BY <1>3, <1>5, <1>6, RestoresNothing
<1> QED BY <1>7 DEF DegradeNext, m

(* An unhealthy group degrades all that depend on it, and nothing else.      *)
DegradedRow(row) == [row EXCEPT !.degraded = TRUE, !.status = "degraded"]

DegradeKeeps(ds, D, gs, g, k) ==
  /\ k \in Tables(D)
  /\ \A x \in D : k[x] = gs[x] \/ (k[x] = DegradedRow(gs[x]) /\ x \in Range(DependOn(ds, g)))
  /\ \A x \in Range(DependOn(ds, g)) : k[x].degraded

(* All that depend on it are degraded, each once.                            *)
LEMMA DegradesAll ==
  ASSUME NEW D, NEW ds \in Seq(D \X D), NEW gs \in Tables(D), NEW g \in D,
         gs[g].status = "unhealthy"
  PROVE  DegradeKeeps(ds, D, gs, g, CheckCascadeDegrade(ds, gs, g))
<1> DEFINE order == DependOn(ds, g)
           n == Len(order)
           on == Range(order)
           V == {k \in Tables(D) : \A x \in D :
                   k[x] = gs[x] \/ (k[x] = DegradedRow(gs[x]) /\ x \in on)}
           f == [a \in V \X on |-> DegradeNext(ds, a[1], a[2])]
           Is(x) == x = [s \in SUBSET DOMAIN order |->
                           IF s = {} THEN gs
                           ELSE DegradeNext(ds, x[s \ {Max(s)}], order[Max(s)])]
           h == CHOOSE x : Is(x)
<1>1. order \in Seq(D) /\ on \subseteq D
  BY Dependants
<1>2. n \in Nat /\ DOMAIN order = 1..n /\ order \in [1..n -> on]
  <2>1. n \in Nat /\ DOMAIN order = 1..n /\ order \in [1..n -> D]
    BY <1>1, LenProperties
  <2> HIDE DEF n, order
  <2> QED BY <2>1 DEF Range
<1>3. ASSUME NEW k \in V, NEW d \in on
      PROVE  /\ DegradeNext(ds, k, d) \in V /\ DegradeNext(ds, k, d)[d].degraded
             /\ \A x \in D : k[x].degraded => DegradeNext(ds, k, d)[x].degraded
  <2> DEFINE m == DegradeNext(ds, k, d)
  <2>1. k \in Tables(D) /\ d \in D
    BY <1>1
  <2>2. m = IF k[d].degraded THEN k ELSE Degraded(k, d)
    BY <2>1, NextDegrades
  <2> HIDE DEF m, on
  <2>3. CASE k[d].degraded
    <3>1. m = k
      BY <2>2, <2>3
    <3> QED BY <2>3, <3>1 DEF m
  <2>4. CASE ~ k[d].degraded
    <3>1. m = [k EXCEPT ![d] = DegradedRow(k[d])]
      BY <2>1, <2>2, <2>4 DEF Degraded, DegradedRow, Tables, GroupRow
    <3>2. gs[d] \in GroupRow /\ k[d] \in GroupRow
      BY <2>1 DEF Tables
    <3>3. DegradedRow(k[d]) \in GroupRow
      BY <3>2, RowsStay DEF DegradedRow
    <3>4. DegradedRow(k[d]).degraded /\ DegradedRow(gs[d]).degraded
      BY <3>2 DEF DegradedRow, GroupRow
    <3>5. k[d] = gs[d]
      BY <2>1, <2>4, <3>4
    <3>6. m \in Tables(D)
      BY <2>1, <3>1, <3>3 DEF Tables
    <3>7. \A x \in D : m[x] = IF x = d THEN DegradedRow(gs[d]) ELSE k[x]
      BY <2>1, <3>1, <3>5 DEF Tables
    <3>8. m \in V
      BY <3>6, <3>7
    <3>9. m[d].degraded /\ \A x \in D : k[x].degraded => m[x].degraded
      BY <2>1, <3>4, <3>7
    <3> QED BY <3>8, <3>9 DEF m
  <2> QED BY <2>3, <2>4
<1>4. gs \in V /\ V \subseteq Tables(D)
  <2> HIDE DEF order, on
  <2>1. \A x \in D : gs[x] = gs[x]
    OBVIOUS
  <2>2. gs \in V
    BY <2>1
  <2> QED BY <2>2
<1>5. f \in [V \X on -> V] /\ \A k \in V : \A d \in on : f[<<k, d>>] = DegradeNext(ds, k, d)
  BY <1>3
<1> HIDE DEF f, n, on, V
<1>6. ASSUME NEW s \in SUBSET (1..n), s # {}
      PROVE  Max(s) \in 1..n /\ order[Max(s)] \in on
  <2>1. IsFiniteSet(1..n) /\ 1..n \subseteq Nat
    BY <1>2, FS_Interval
  <2>2. IsFiniteSet(s) /\ s \in SUBSET Nat
    BY <2>1, FS_Subset
  <2>3. Max(s) \in 1..n
    BY <1>6, <2>2, MaxOfFinite
  <2> HIDE DEF order
  <2> QED BY <1>2, <2>3
<1>7. PICK w \in [SUBSET (1..n) -> V] : FoldOf(w, n, gs, order, f)
  <2> HIDE DEF order
  <2> QED BY <1>2, <1>4, <1>5, FoldIsThere
<1>8. Is(w)
  <2> HIDE DEF order
  <2>1. ASSUME NEW s \in SUBSET (1..n), s # {}
        PROVE  w[s] = DegradeNext(ds, w[s \ {Max(s)}], order[Max(s)])
    <3>1. w[s] = f[<<w[s \ {Max(s)}], order[Max(s)]>>] /\ w[s \ {Max(s)}] \in V
      BY <1>7, <2>1 DEF FoldOf
    <3> QED BY <1>5, <1>6, <2>1, <3>1
  <2>2. w[{}] = gs
    BY <1>7 DEF FoldOf
  <2> QED BY <1>2, <2>1, <2>2
<1>9. Is(h)
  <2> HIDE DEF Is
  <2> QED BY <1>8
<1>10. CheckCascadeDegrade(ds, gs, g) = h[DOMAIN order]
  BY DEF CheckCascadeDegrade, FoldLeft, MapThenFoldSet
<1> HIDE DEF order
<1>11. \A s \in SUBSET (1..n) :
        h[s] = IF s = {} THEN gs ELSE DegradeNext(ds, h[s \ {Max(s)}], order[Max(s)])
  <2>1. \A x : Is(x) => \A s \in SUBSET (1..n) :
          x[s] = IF s = {} THEN gs ELSE DegradeNext(ds, x[s \ {Max(s)}], order[Max(s)])
    BY <1>2
  <2> HIDE DEF h, Is
  <2> QED BY <1>9, <2>1
<1> HIDE DEF h, Is
<1>12. FoldWithin(h, n, gs, order, f, V)
  <2>1. h[{}] = gs
    BY <1>11
  <2>2. ASSUME NEW s \in SUBSET (1..n), s # {}, h[s \ {Max(s)}] \in V
        PROVE  h[s] = f[<<h[s \ {Max(s)}], order[Max(s)]>>]
    BY <1>5, <1>6, <1>11, <2>2
  <2> QED BY <2>1, <2>2 DEF FoldWithin
<1>13. PICK v \in [0..n -> V] : v[n] = h[1..n] /\ GoesBy(v, n, gs, order, f)
  BY <1>2, <1>4, <1>5, <1>12, FoldGoes
<1> DEFINE T == {m \in Nat : m <= n => \A i \in 1..m : v[m][order[i]].degraded}
<1>14. 0 \in T
  OBVIOUS
<1>15. ASSUME NEW m \in T PROVE m + 1 \in T
  <2> SUFFICES ASSUME m + 1 <= n, NEW i \in 1..(m+1) PROVE v[m+1][order[i]].degraded
    OBVIOUS
  <2>1. m \in Nat /\ m \in 0..n /\ m + 1 \in 1..n /\ (m + 1) - 1 = m /\ i \in 1..n
    BY <1>2
  <2>2. v[m] \in V /\ order[m+1] \in on /\ order[i] \in on /\ order[i] \in D
    BY <1>1, <1>2, <1>13, <2>1 DEF on
  <2>3. v[m+1] = DegradeNext(ds, v[m], order[m+1])
    BY <1>5, <1>13, <2>1, <2>2 DEF GoesBy
  <2>4. CASE i = m + 1
    BY <1>3, <2>2, <2>3, <2>4
  <2>5. CASE i # m + 1
    <3>1. v[m][order[i]].degraded
      BY <1>2, <2>1, <2>5
    <3> QED BY <1>3, <2>2, <2>3, <3>1
  <2> QED BY <2>4, <2>5
<1>16. T = Nat
  <2>1. T \in SUBSET Nat
    OBVIOUS
  <2> HIDE DEF T
  <2> QED BY <1>14, <1>15, <2>1, NatSetInduction
<1>17. \A i \in 1..n : v[n][order[i]].degraded
  BY <1>2, <1>16
<1>18. v[n] \in V /\ v[n] = CheckCascadeDegrade(ds, gs, g)
  BY <1>2, <1>10, <1>13
<1>19. \A x \in on : v[n][x].degraded
  BY <1>2, <1>17 DEF on, Range
<1> QED BY <1>18, <1>19 DEF DegradeKeeps, V, on, order

(* The cascade of a group: reasons are kept, those that depend on the group  *)
(* lose what has none, and an unhealthy group has all of them degraded.      *)
LEMMA CascadeIs ==
  ASSUME NEW D, NEW ds \in Seq(D \X D), NEW gs \in Tables(D), NEW g \in D
  PROVE  /\ RestoreKeeps(ds, D, gs, DependOn(ds, g), CheckCascadeDegrade(ds, gs, g))
         /\ gs[g].status = "unhealthy" => HasSpread(ds, CheckCascadeDegrade(ds, gs, g), g)
<1> DEFINE on == Range(DependOn(ds, g))
           k == CheckCascadeDegrade(ds, gs, g)
<1>1. CASE gs[g].status # "unhealthy"
  <2>1. DependOn(ds, g) \in Seq(D)
    BY Dependants
  <2> QED BY <1>1, <2>1, RestoreIs DEF CheckCascadeDegrade
<1>2. CASE gs[g].status = "unhealthy"
  <2>1. DegradeKeeps(ds, D, gs, g, k)
    BY <1>2, DegradesAll
  <2>2. /\ \A x : x \in Range(DependOn(ds, g)) <=> g \in DependenciesOf(ds, x)
        /\ \A x : DependenciesOf(ds, x) \subseteq D /\ Range(DependOn(ds, x)) \subseteq D
    BY Dependants
  <2> HIDE DEF k
  <2>3. ASSUME NEW x \in D
        PROVE  /\ k[x] = gs[x] \/ k[x].degraded
               /\ k[x].alive = gs[x].alive /\ k[x].threshold = gs[x].threshold
               /\ Unwell(gs[x]) => Unwell(k[x])
               /\ gs[x].degraded => k[x].degraded
               /\ x \notin on => k[x] = gs[x]
    <3>1. k[x] = gs[x] \/ (k[x] = DegradedRow(gs[x]) /\ x \in on)
      BY <2>1 DEF DegradeKeeps
    <3>2. gs[x] \in GroupRow
      BY DEF Tables
    <3>3. /\ DegradedRow(gs[x]).degraded /\ DegradedRow(gs[x]).alive = gs[x].alive
          /\ DegradedRow(gs[x]).threshold = gs[x].threshold
      BY <3>2 DEF DegradedRow, GroupRow
    <3> QED BY <3>1, <3>3 DEF Unwell
  <2>4. k \in Tables(D) /\ \A x \in on : k[x].degraded
    BY <2>1 DEF DegradeKeeps
  <2>5. Recount(gs, k, D)
    BY <2>3 DEF Recount
  <2>6. Unwell(k[g]) /\ HasSpread(ds, k, g)
    <3>1. Unwell(gs[g])
      BY <1>2 DEF Unwell
    <3>2. Unwell(k[g])
      BY <2>3, <3>1
    <3> QED BY <2>4, <3>2 DEF HasSpread
  <2>7. ASSUME NEW x \in D, HasSpread(ds, gs, x) PROVE HasSpread(ds, k, x)
    <3> SUFFICES ASSUME k[x].alive < k[x].threshold
                 PROVE  Unwell(k[x]) /\ \A d \in Range(DependOn(ds, x)) : k[d].degraded
      BY DEF HasSpread
    <3>1. Unwell(gs[x]) /\ \A d \in Range(DependOn(ds, x)) : gs[d].degraded
      BY <2>3, <2>7 DEF HasSpread
    <3> QED BY <2>2, <2>3, <3>1
  <2>8. ASSUME NEW x \in D, HasReason(ds, gs, x) \/ x \in on PROVE HasReason(ds, k, x)
    <3>1. CASE x \in on
      BY <2>2, <2>6, <3>1 DEF HasReason, LeansOnUnwell
    <3>2. CASE x \notin on
      BY <2>2, <2>3, <2>8, <3>2 DEF HasReason, LeansOnUnwell
    <3> QED BY <3>1, <3>2
  <2>9. RestoreKeeps(ds, D, gs, DependOn(ds, g), k)
    BY <2>4, <2>5, <2>7, <2>8 DEF RestoreKeeps, on
  <2> QED BY <2>6, <2>9 DEF k
<1> QED BY <1>1, <1>2

(* The row of a group is counted anew.  Too few left alive are called        *)
(* unhealthy, so what the cascade is sure of is enough for every group.      *)
LEMMA HealthFollows ==
  ASSUME NEW D, deps \in Seq(D \X D), NEW gs \in Tables(D), NEW g,
         NEW rs, IsFiniteSet(DOMAIN rs)
  PROVE  Follows(deps, D, gs, UpdateGroupHealth(rs, gs, g))
<1>1. CASE g \notin D
  <2>1. UpdateGroupHealth(rs, gs, g) = gs
    BY <1>1 DEF UpdateGroupHealth, Tables
  <2> QED BY <2>1 DEF Follows
<1>2. CASE g \in D
  <2> DEFINE a == Cardinality({c \in Members(rs, g) : rs[c].status \in Alive})
             all == Cardinality(Members(rs, g))
             row == gs[g]
             counted == [row EXCEPT !.alive = a, !.total = all]
             new == [counted EXCEPT !.status = ByCount(counted)]
             m == [gs EXCEPT ![g] = new]
             k == CheckCascadeDegrade(deps, m, g)
             on == Range(DependOn(deps, g))
  <2>1. UpdateGroupHealth(rs, gs, g) = k
    BY <1>2 DEF UpdateGroupHealth, Tables
  <2>2. a \in Nat /\ all \in Nat
    <3>1. Members(rs, g) \in SUBSET DOMAIN rs
      BY DEF Members
    <3>2. {c \in Members(rs, g) : rs[c].status \in Alive} \in SUBSET DOMAIN rs
      BY DEF Members
    <3> QED BY <3>1, <3>2, FS_Subset, FS_CardinalityType
  <2>3. row \in GroupRow
    BY <1>2 DEF Tables
  <2> HIDE DEF a, all, row
  <2>4. /\ new \in GroupRow /\ new.degraded = row.degraded /\ new.threshold = row.threshold
        /\ new.alive < new.threshold => new.status = "unhealthy"
    <3>1. /\ counted \in GroupRow /\ counted.degraded = row.degraded
          /\ counted.threshold = row.threshold /\ counted.alive = a
      BY <2>2, <2>3 DEF GroupRow
    <3> HIDE DEF counted
    <3>2. counted.alive \in Nat /\ counted.threshold \in Nat
      BY <3>1 DEF GroupRow
    <3>3. ByCount(counted) \in GroupStatuses
      BY DEF ByCount, GroupStatuses
    <3>4. counted.alive < counted.threshold => ByCount(counted) = "unhealthy"
      BY <3>2 DEF ByCount
    <3>5. /\ new \in GroupRow /\ new.degraded = counted.degraded
          /\ new.threshold = counted.threshold /\ new.alive = counted.alive
          /\ new.status = ByCount(counted)
      BY <3>1, <3>3 DEF GroupRow
    <3> HIDE DEF new
    <3> QED BY <3>1, <3>4, <3>5
  <2> HIDE DEF new
  <2>5. m \in Tables(D) /\ \A x \in D : m[x] = IF x = g THEN new ELSE gs[x]
    BY <1>2, <2>4 DEF Tables
  <2> HIDE DEF m
  <2>6. /\ RestoreKeeps(deps, D, m, DependOn(deps, g), k)
        /\ m[g].status = "unhealthy" => HasSpread(deps, k, g)
    BY <1>2, <2>5, CascadeIs
  <2>7. /\ \A x : x \in Range(DependOn(deps, g)) <=> g \in DependenciesOf(deps, x)
        /\ \A x : DependenciesOf(deps, x) \subseteq D /\ Range(DependOn(deps, x)) \subseteq D
    BY Dependants
  <2> HIDE DEF k
  <2>8. \A x \in D : m[x].degraded = gs[x].degraded /\ m[x].threshold = gs[x].threshold
    BY <2>4, <2>5 DEF row
  <2>9. ASSUME NEW x \in D, HasReason(deps, gs, x) PROVE HasReason(deps, k, x)
    <3>1. CASE x \in on
      BY <2>6, <3>1 DEF RestoreKeeps
    <3>2. CASE x \notin on
      <4>1. \A d \in DependenciesOf(deps, x) : m[d] = gs[d]
        BY <2>5, <2>7, <3>2
      <4>2. HasReason(deps, m, x)
        BY <2>8, <2>9, <4>1 DEF HasReason, LeansOnUnwell
      <4> QED BY <2>6, <4>2 DEF RestoreKeeps
    <3> QED BY <3>1, <3>2
  <2>10. ASSUME NEW x \in D, HasSpread(deps, gs, x) PROVE HasSpread(deps, k, x)
    <3>1. CASE x # g
      <4>1. m[x] = gs[x]
        BY <2>5, <3>1
      <4>2. \A d \in Range(DependOn(deps, x)) : gs[d].degraded => m[d].degraded
        BY <2>7, <2>8
      <4>3. HasSpread(deps, m, x)
        BY <2>10, <4>1, <4>2 DEF HasSpread
      <4> QED BY <2>6, <4>3 DEF RestoreKeeps
    <3>2. CASE x = g
      <4>1. m[g] = new
        BY <1>2, <2>5
      <4>2. CASE new.alive < new.threshold
        BY <2>4, <2>6, <3>2, <4>1, <4>2
      <4>3. CASE ~ (new.alive < new.threshold)
        <5>1. HasSpread(deps, m, g)
          BY <4>1, <4>3 DEF HasSpread
        <5> QED BY <1>2, <2>6, <3>2, <5>1 DEF RestoreKeeps
      <4> QED BY <4>2, <4>3
    <3> QED BY <3>1, <3>2
  <2>11. k \in Tables(D) /\ \A x \in D : k[x].threshold = gs[x].threshold
    BY <2>6, <2>8 DEF RestoreKeeps, Recount
  <2> QED BY <2>1, <2>9, <2>10, <2>11 DEF Follows
<1> QED BY <1>1, <1>2

(* Groups that are updated one after the other, in any order.                *)
LEMMA UpdatesFollow ==
  ASSUME NEW D, deps \in Seq(D \X D), NEW gs \in Tables(D),
         NEW rs, IsFiniteSet(DOMAIN rs), NEW gset, IsFiniteSet(gset),
         NEW k \in UpdateGroups(rs, gs, gset)
  PROVE  Follows(deps, D, gs, k)
<1> DEFINE n == Cardinality(gset)
           V == {x \in Tables(D) : Follows(deps, D, gs, x)}
           f == [a \in V \X gset |-> UpdateGroupHealth(rs, a[1], a[2])]
<1>1. PICK order \in SetToSeqs(gset) :
        k = FoldLeft(LAMBDA x, g : UpdateGroupHealth(rs, x, g), gs, order)
  BY DEF UpdateGroups
<1>2. n \in Nat /\ order \in [1..n -> gset] /\ DOMAIN order = 1..n
  <2>1. n \in Nat
    BY FS_CardinalityType
  <2> QED BY <2>1 DEF SetToSeqs
<1> DEFINE Is(x) == x = [s \in SUBSET DOMAIN order |->
                           IF s = {} THEN gs
                           ELSE UpdateGroupHealth(rs, x[s \ {Max(s)}], order[Max(s)])]
           h == CHOOSE x : Is(x)
<1>3. ASSUME NEW x \in V, NEW g \in gset PROVE UpdateGroupHealth(rs, x, g) \in V
  <2> DEFINE y == UpdateGroupHealth(rs, x, g)
  <2>1. Follows(deps, D, x, y)
    BY HealthFollows
  <2> HIDE DEF y
  <2>2. Follows(deps, D, gs, y) /\ y \in Tables(D)
    BY <2>1 DEF Follows
  <2> QED BY <2>2 DEF y
<1>4. gs \in V
  BY DEF Follows
<1>5. f \in [V \X gset -> V] /\ \A x \in V : \A g \in gset : f[<<x, g>>] = UpdateGroupHealth(rs, x, g)
  <2> HIDE DEF V
  <2> QED BY <1>3
<1> HIDE DEF f, n, V
<1>6. ASSUME NEW s \in SUBSET (1..n), s # {}
      PROVE  Max(s) \in 1..n /\ order[Max(s)] \in gset
  <2>1. IsFiniteSet(1..n) /\ 1..n \subseteq Nat
    BY <1>2, FS_Interval
  <2>2. IsFiniteSet(s) /\ s \in SUBSET Nat
    BY <2>1, FS_Subset
  <2>3. Max(s) \in 1..n
    BY <1>6, <2>2, MaxOfFinite
  <2> QED BY <1>2, <2>3
<1>7. PICK w \in [SUBSET (1..n) -> V] : FoldOf(w, n, gs, order, f)
  BY <1>2, <1>4, <1>5, FoldIsThere
<1>8. Is(w)
  <2>1. ASSUME NEW s \in SUBSET (1..n), s # {}
        PROVE  w[s] = UpdateGroupHealth(rs, w[s \ {Max(s)}], order[Max(s)])
    <3>1. w[s] = f[<<w[s \ {Max(s)}], order[Max(s)]>>] /\ w[s \ {Max(s)}] \in V
      BY <1>7, <2>1 DEF FoldOf
    <3> QED BY <1>5, <1>6, <2>1, <3>1
  <2>2. w[{}] = gs
    BY <1>7 DEF FoldOf
  <2> QED BY <1>2, <2>1, <2>2
<1>9. Is(h)
  <2> HIDE DEF Is
  <2> QED BY <1>8
<1>10. k = h[DOMAIN order]
  BY <1>1 DEF FoldLeft, MapThenFoldSet
<1>11. \A s \in SUBSET (1..n) :
        h[s] = IF s = {} THEN gs ELSE UpdateGroupHealth(rs, h[s \ {Max(s)}], order[Max(s)])
  <2>1. \A x : Is(x) => \A s \in SUBSET (1..n) :
          x[s] = IF s = {} THEN gs ELSE UpdateGroupHealth(rs, x[s \ {Max(s)}], order[Max(s)])
    BY <1>2
  <2> HIDE DEF h, Is
  <2> QED BY <1>9, <2>1
<1> HIDE DEF h, Is
<1>12. FoldWithin(h, n, gs, order, f, V)
  <2>1. h[{}] = gs
    BY <1>11
  <2>2. ASSUME NEW s \in SUBSET (1..n), s # {}, h[s \ {Max(s)}] \in V
        PROVE  h[s] = f[<<h[s \ {Max(s)}], order[Max(s)]>>]
    BY <1>5, <1>6, <1>11, <2>2
  <2> QED BY <2>1, <2>2 DEF FoldWithin
<1>13. h[1..n] \in V
  BY <1>2, <1>4, <1>5, <1>12, FoldStays
<1> QED BY <1>2, <1>10, <1>13 DEF V

(****************************** locks and queues ****************************)

(* Rows that are kept stay in order, and none comes twice.                   *)
LEMMA KeepIs ==
  ASSUME NEW S, NEW s \in Seq(S), NEW K \in SUBSET (DOMAIN s)
  PROVE  /\ Keep(s, K) \in Seq(S)
         /\ IsInjective(s) => IsInjective(Keep(s, K))
         /\ Range(Keep(s, K)) = {s[i] : i \in K}
<1> DEFINE k == Keep(s, K)
           n == Cardinality(K)
<1>1. Len(s) \in Nat /\ DOMAIN s = 1..Len(s)
  BY LenProperties
<1>2. /\ k \in Seq(S) /\ DOMAIN k = 1..n
      /\ \A i \in 1..n : Nth(K, i) \in K /\ k[i] = s[Nth(K, i)]
      /\ \A i, j \in 1..n : Nth(K, i) = Nth(K, j) => i = j
  <2>1. /\ k \in Seq(S) /\ DOMAIN k = 1..n
        /\ \A i \in DOMAIN k : Nth(K, i) \in K /\ k[i] = s[Nth(K, i)]
        /\ \A i, j \in DOMAIN k : Nth(K, i) = Nth(K, j) => i = j
    BY KeepPositions
  <2> HIDE DEF k, n
  <2> QED BY <2>1
<1>3. \A j \in K : \E i \in 1..n : Nth(K, i) = j
  BY <1>1, NthAreAll
<1> HIDE DEF k, n
<1>4. IsInjective(s) => IsInjective(k)
  BY <1>2 DEF IsInjective
<1>5. Range(k) = {k[i] : i \in 1..n}
  BY <1>2 DEF Range
<1>6. Range(k) = {s[i] : i \in K}
  BY <1>2, <1>3, <1>5
<1> QED BY <1>2, <1>4, <1>6 DEF k

(* The last of a queue.                                                      *)
LEMMA AppendIs ==
  ASSUME NEW S, NEW s \in Seq(S), NEW x \in S
  PROVE  /\ Append(s, x) \in Seq(S)
         /\ Range(Append(s, x)) = Range(s) \cup {x}
         /\ IsInjective(s) /\ x \notin Range(s) => IsInjective(Append(s, x))
<1> DEFINE a == Append(s, x)
           n == Len(s)
<1>1. n \in Nat /\ DOMAIN s = 1..n
  BY LenProperties
<1>2. /\ a \in Seq(S) /\ DOMAIN a = 1..(n + 1)
      /\ \A i \in 1..n : a[i] = s[i]
      /\ a[n + 1] = x
  BY AppendProperties, LenProperties
<1> HIDE DEF a, n
<1>3. \A i \in 1..(n + 1) : i \in 1..n \/ i = n + 1
  BY <1>1
<1>4. 1..n \subseteq 1..(n + 1) /\ n + 1 \in 1..(n + 1)
  BY <1>1
<1>5. Range(a) = Range(s) \cup {x}
  <2>1. Range(s) \cup {x} \subseteq Range(a)
    BY <1>1, <1>2, <1>4 DEF Range
  <2>2. Range(a) \subseteq Range(s) \cup {x}
    BY <1>1, <1>2, <1>3 DEF Range
  <2> QED BY <2>1, <2>2
<1>6. ASSUME IsInjective(s), x \notin Range(s) PROVE IsInjective(a)
  <2>1. \A i \in 1..n : s[i] # x
    BY <1>1, <1>6 DEF Range
  <2>2. \A i, j \in 1..n : s[i] = s[j] => i = j
    BY <1>1, <1>6 DEF IsInjective
  <2> QED BY <1>2, <1>3, <2>1, <2>2 DEF IsInjective
<1> QED BY <1>2, <1>5, <1>6 DEF a

(* The first of a queue.                                                     *)
LEMMA TailIs ==
  ASSUME NEW S, NEW s \in Seq(S), s # <<>>
  PROVE  /\ Head(s) \in S /\ Tail(s) \in Seq(S)
         /\ Range(s) = {Head(s)} \cup Range(Tail(s))
         /\ IsInjective(s) => IsInjective(Tail(s)) /\ Head(s) \notin Range(Tail(s))
<1> DEFINE n == Len(s)
           r == Tail(s)
           x == Head(s)
<1>1. /\ x \in S /\ r \in Seq(S) /\ DOMAIN s = 1..n /\ n \in Nat \ {0} /\ x = s[1]
      /\ DOMAIN r = 1..(n - 1)
      /\ \A i \in 1..(n - 1) : r[i] = s[i + 1]
  BY LenProperties, EmptySeq, HeadTailProperties
<1> HIDE DEF n, r, x
<1>2. \A i \in 1..(n - 1) : i + 1 \in 1..n /\ i + 1 # 1
  BY <1>1
<1>3. ASSUME NEW i \in 1..n, i # 1 PROVE i - 1 \in 1..(n - 1) /\ (i - 1) + 1 = i
  BY <1>1, <1>3
<1>4. 1 \in 1..n
  BY <1>1
<1>5. Range(r) \subseteq Range(s) /\ x \in Range(s)
  BY <1>1, <1>2, <1>4 DEF Range
<1>6. Range(s) \subseteq {x} \cup Range(r)
  <2>1. \A i \in 1..n : s[i] \in {x} \cup Range(r)
    <3> SUFFICES ASSUME NEW i \in 1..n PROVE s[i] \in {x} \cup Range(r)
      OBVIOUS
    <3>1. CASE i = 1
      BY <1>1, <3>1
    <3>2. CASE i # 1
      <4>1. i - 1 \in 1..(n - 1) /\ r[i - 1] = s[i]
        BY <1>1, <1>3, <3>2
      <4> QED BY <1>1, <4>1 DEF Range
    <3> QED BY <3>1, <3>2
  <2> QED BY <1>1, <2>1 DEF Range
<1>7. ASSUME IsInjective(s) PROVE IsInjective(r) /\ x \notin Range(r)
  <2>1. \A i, j \in 1..n : s[i] = s[j] => i = j
    BY <1>1, <1>7 DEF IsInjective
  <2>2. \A i, j \in 1..(n - 1) : r[i] = r[j] => i = j
    <3> SUFFICES ASSUME NEW i \in 1..(n - 1), NEW j \in 1..(n - 1), r[i] = r[j] PROVE i = j
      OBVIOUS
    <3>1. i + 1 = j + 1
      BY <1>1, <1>2, <2>1
    <3> QED BY <1>1, <3>1
  <2>3. \A i \in 1..(n - 1) : r[i] # x
    BY <1>1, <1>2, <1>4, <2>1
  <2> QED BY <1>1, <2>2, <2>3 DEF IsInjective, Range
<1> QED BY <1>1, <1>5, <1>6, <1>7 DEF r, x

(* A lock is held before anybody waits for it, and nobody is twice in line.  *)
LockOK(k) ==
  /\ k \in LockState
  /\ IsInjective(k.queue) /\ k.holder \notin Range(k.queue)
  /\ k.holder = Nobody => k.queue = <<>>

(* A change that takes the lock from nobody but c, and no place in the line. *)
GivenUp(k, x, c) ==
  /\ LockOK(x)
  /\ x.holder # k.holder => k.holder = c
  /\ Range(k.queue) \subseteq Range(x.queue) \cup {x.holder}
  /\ Range(x.queue) \subseteq Range(k.queue)
  /\ x.holder \in Range(k.queue) \cup {k.holder, Nobody}

(* A lock that becomes free goes to the first in its queue, or to nobody.    *)
LEMMA VacatedIs ==
  ASSUME NEW k, LockOK(k)
  PROVE  GivenUp(k, Vacated(k), k.holder)
<1> DEFINE x == Vacated(k)
<1>1. /\ k \in LockState /\ k.queue \in Seq(Callers) /\ IsInjective(k.queue)
      /\ Nobody \notin Callers
  BY HeartbeatAssumption DEF LockOK, LockState
<1>2. CASE k.queue = <<>>
  <2>1. x = [holder |-> Nobody, count |-> 0, queue |-> <<>>]
    BY <1>2 DEF Vacated
  <2>2. x.holder = Nobody /\ x.queue = <<>> /\ x \in LockState /\ Range(<<>>) = {} /\ IsInjective(<<>>)
    BY <2>1 DEF LockState, Range, IsInjective
  <2> HIDE DEF x
  <2> QED BY <1>2, <2>2 DEF LockOK, GivenUp, x
<1>3. CASE k.queue # <<>>
  <2> DEFINE h == Head(k.queue)
             r == Tail(k.queue)
  <2>1. x = [holder |-> h, count |-> 1, queue |-> r]
    BY <1>3 DEF Vacated
  <2>2. /\ h \in Callers /\ r \in Seq(Callers) /\ Range(k.queue) = {h} \cup Range(r)
        /\ IsInjective(r) /\ h \notin Range(r)
    BY <1>1, <1>3, TailIs
  <2> HIDE DEF h, r
  <2>3. x.holder = h /\ x.queue = r /\ x \in LockState
    BY <2>1, <2>2 DEF LockState
  <2> HIDE DEF x
  <2> QED BY <1>1, <2>2, <2>3 DEF LockOK, GivenUp, x
<1> QED BY <1>2, <1>3

(* A release takes the lock only from the caller it is made for.             *)
LEMMA ReleasedIs ==
  ASSUME NEW k, LockOK(k), NEW c
  PROVE  GivenUp(k, Released(k, c), c)
<1>1. k \in LockState /\ k.count \in Nat
  BY DEF LockOK, LockState
<1>2. CASE k.holder # c
  <2>1. Released(k, c) = k
    BY <1>2 DEF Released
  <2> QED BY <2>1 DEF GivenUp
<1>3. CASE k.holder = c /\ k.count > 1
  <2> DEFINE x == [k EXCEPT !.count = @ - 1]
  <2>1. Released(k, c) = x
    BY <1>3 DEF Released
  <2>2. x \in LockState /\ x.holder = k.holder /\ x.queue = k.queue
    BY <1>1, <1>3 DEF LockState
  <2> HIDE DEF x
  <2> QED BY <2>1, <2>2 DEF LockOK, GivenUp
<1>4. CASE k.holder = c /\ ~ (k.count > 1)
  <2>1. Released(k, c) = Vacated(k)
    BY <1>4 DEF Released
  <2> QED BY <1>4, <2>1, VacatedIs
<1> QED BY <1>2, <1>3, <1>4

(* A request puts nobody but the caller in the queue.                        *)
LEMMA AskedIs ==
  ASSUME NEW k, LockOK(k), NEW c \in Callers, bound.entries \in Nat
  PROVE  /\ LockOK(Asked(k, c))
         /\ Asked(k, c).holder \in {k.holder, c}
         /\ Range(Asked(k, c).queue) \subseteq Range(k.queue) \cup {c}
<1> DEFINE x == Asked(k, c)
<1>1. /\ k \in LockState /\ k.count \in Nat /\ k.queue \in Seq(Callers)
      /\ k.holder \in Callers \cup {Nobody} /\ Nobody \notin Callers
  BY HeartbeatAssumption DEF LockOK, LockState
<1>2. CASE k.holder = Nobody
  <2>1. x = [k EXCEPT !.holder = c, !.count = 1]
    BY <1>2 DEF Asked
  <2>2. x \in LockState /\ x.holder = c /\ x.queue = k.queue
    <3>1. x = [holder |-> c, count |-> 1, queue |-> k.queue]
      BY <1>1, <2>1 DEF LockState
    <3> HIDE DEF x
    <3>2. 1 \in Nat /\ c \in Callers \cup {Nobody}
      OBVIOUS
    <3> QED BY <1>1, <3>1, <3>2 DEF LockState
  <2>4. k.queue = <<>>
    BY <1>2 DEF LockOK
  <2>3. Range(<<>>) = {} /\ IsInjective(<<>>)
    BY DEF Range, IsInjective
  <2> HIDE DEF x
  <2> QED BY <1>1, <2>2, <2>3, <2>4 DEF LockOK, x
<1>3. CASE k.holder # Nobody /\ k.holder = c
  <2> DEFINE n == IF k.count < bound.entries THEN k.count + 1 ELSE k.count
  <2>1. x = [k EXCEPT !.count = n]
    BY <1>1, <1>3 DEF Asked, LockState
  <2>2. n \in Nat
    BY <1>1
  <2> HIDE DEF n
  <2>3. x \in LockState /\ x.holder = k.holder /\ x.queue = k.queue
    BY <1>1, <2>1, <2>2 DEF LockState
  <2> HIDE DEF x
  <2> QED BY <2>3 DEF LockOK, x
<1>4. CASE k.holder # Nobody /\ k.holder # c /\ c \in Range(k.queue)
  <2>1. x = k
    BY <1>4 DEF Asked
  <2> QED BY <2>1
<1>5. CASE k.holder # Nobody /\ k.holder # c /\ c \notin Range(k.queue)
  <2> DEFINE q == Append(k.queue, c)
  <2>1. x = [k EXCEPT !.queue = q]
    BY <1>1, <1>5 DEF Asked, LockState
  <2>2. q \in Seq(Callers) /\ Range(q) = Range(k.queue) \cup {c} /\ IsInjective(q)
    BY <1>1, <1>5, AppendIs DEF LockOK
  <2> HIDE DEF q
  <2>3. x \in LockState /\ x.holder = k.holder /\ x.queue = q
    BY <1>1, <2>1, <2>2 DEF LockState
  <2> HIDE DEF x
  <2> QED BY <1>5, <2>2, <2>3 DEF LockOK, x
<1> QED BY <1>2, <1>3, <1>4, <1>5

(* Leaving a queue takes out the caller alone.                               *)
LEMMA UnqueuedIs ==
  ASSUME NEW k, LockOK(k), NEW c, NEW x,
         x = [k EXCEPT !.queue = Without(@, LAMBDA d : d = c)]
  PROVE  /\ LockOK(x) /\ x.holder = k.holder
         /\ Range(x.queue) = Range(k.queue) \ {c}
<1> DEFINE K == {i \in DOMAIN k.queue : ~ (k.queue[i] = c)}
           q == Keep(k.queue, K)
<1>1. k \in LockState /\ k.queue \in Seq(Callers)
  BY DEF LockOK, LockState
<1>2. x = [k EXCEPT !.queue = q]
  BY <1>1 DEF Without, LockState
<1>3. q \in Seq(Callers) /\ (IsInjective(k.queue) => IsInjective(q)) /\ Range(q) = {k.queue[i] : i \in K}
  BY <1>1, KeepIs
<1>4. Range(q) = Range(k.queue) \ {c}
  <2> HIDE DEF q
  <2> QED BY <1>3 DEF Range
<1>5. k.queue = <<>> => q = <<>>
  <2> SUFFICES ASSUME k.queue = <<>> PROVE q = <<>>
    OBVIOUS
  <2>1. K = {}
    OBVIOUS
  <2>2. Cardinality(K) = 0
    BY <2>1, FS_EmptySet
  <2> HIDE DEF K
  <2> QED BY <2>2 DEF Keep
<1> HIDE DEF q
<1>6. x \in LockState /\ x.holder = k.holder /\ x.queue = q
  BY <1>1, <1>2, <1>3 DEF LockState
<1> QED BY <1>3, <1>4, <1>5, <1>6 DEF LockOK

(****************************** the invariant *******************************)

(* The stages of a disposal. *)
Stages == {"list", "release", "tokens", "return", "txs", "freeze", "rows", "disposed"}

RunRow ==
  [mode : Stages \cup {"none", "tick", "thaw"}, marks : BOOLEAN, rest : SUBSET Callers,
   changed : SUBSET (Groups \cup {NoGroup}), refresh : SUBSET (Groups \cup {NoGroup}),
   caller : Callers \cup {Nobody}, todo : SUBSET (Locks \cup FrozenResource), amount : Nat,
   kept : SUBSET (Locks \cup Callers), all : BOOLEAN]

BoundsKept ==
  bound \in Bounds /\ beat \in BOOLEAN /\ passed \subseteq bound.asks /\ crashes \in 0..bound.crashes

CallersKnown ==
  /\ regs \in [DOMAIN regs -> Registration] /\ DOMAIN regs \subseteq Callers /\ IsFiniteSet(DOMAIN regs)
  /\ \A c \in DOMAIN regs : regs[c].age <= regs[c].max /\ regs[c].group \in DOMAIN groups \cup {NoGroup}

GroupsKnown ==
  /\ groups \in Tables(DOMAIN groups) /\ DOMAIN groups \subseteq Groups
  /\ deps \in Seq((DOMAIN groups) \X (DOMAIN groups)) /\ IsInjective(deps)

LocksKept == locks \in [Locks -> LockState] /\ \A l \in Locks : LockOK(locks[l])

TokensKept == used \in [Callers -> 0..bound.tokens] /\ waits \subseteq Callers

TxsKept == txs \in [DOMAIN txs -> Callers] /\ DOMAIN txs \subseteq Txs

WorkKnown ==
  /\ run \in RunRow /\ IsFiniteSet(run.changed) /\ IsFiniteSet(run.refresh)
  /\ run.rest \cup late \subseteq DOMAIN regs

FrozenKnown ==
  /\ frozen \subseteq FrozenResource
  /\ \A row \in frozen : row.caller \in DOMAIN regs /\ regs[row.caller].status = "frozen"

HoldsNot(l) == locks[l].holder /= run.caller /\ run.caller \notin Range(locks[l].queue)

(* What a disposal has got done at each of its stages, but for what the      *)
(* caller got meanwhile.                                                     *)
Disposing ==
  run.mode \in Stages =>
    LET r == regs[run.caller]
    IN /\ run.caller \in DOMAIN regs /\ r.status \in {"lost", "frozen"}
       /\ run.mode \in {"freeze", "rows"} => r.strategy = "freeze"
       /\ run.mode \in {"list", "release", "tokens", "return", "txs"} => r.strategy /= "freeze"
       /\ run.mode \in {"tokens", "return", "txs"} => r.strategy = "release_all"
       /\ run.mode = "rows" => r.status = "frozen"
       /\ run.mode = "release" =>
            run.todo \subseteq Locks
              /\ \A l \in Locks : locks[l].holder = run.caller => l \in run.todo \cup run.kept
       /\ run.mode \in {"tokens", "return", "txs"} \/ (run.mode = "disposed" /\ r.strategy /= "freeze") =>
            \A l \in Locks \ run.kept : HoldsNot(l)
       /\ run.mode = "return" => run.caller \in run.kept \/ used[run.caller] <= run.amount
       /\ run.mode = "txs" \/ (run.mode = "disposed" /\ r.strategy = "release_all") =>
            run.caller \in run.kept \/ used[run.caller] = 0
       /\ run.mode = "disposed" /\ r.strategy = "release_all" => OpenTxs(run.caller) = {}

(* What is let go of is one caller's, and with "all" nothing is left out.    *)
Thawing ==
  run.mode = "thaw" =>
    /\ \A row \in run.todo : row \in FrozenResource /\ row.caller = run.caller
    /\ run.all => \A row \in frozen : row.caller = run.caller => row \in run.todo

HeartbeatInv ==
  /\ BoundsKept /\ CallersKnown /\ GroupsKnown /\ LocksKept /\ TokensKept /\ TxsKept
  /\ WorkKnown /\ FrozenKnown /\ Disposing /\ Thawing

(* What a step leaves alone keeps its part of the invariant.                 *)
LEMMA Untouched ==
  ASSUME HeartbeatInv
  PROVE  /\ UNCHANGED <<bound, beat, passed, crashes>> => BoundsKept'
         /\ UNCHANGED locks => LocksKept'
         /\ UNCHANGED <<bound, used, waits>> => TokensKept'
         /\ UNCHANGED txs => TxsKept'
         /\ UNCHANGED <<groups, deps>> => GroupsKnown'
         /\ UNCHANGED regs /\ DOMAIN groups \subseteq DOMAIN groups' => CallersKnown'
         /\ UNCHANGED <<frozen, regs>> => FrozenKnown'
         /\ UNCHANGED <<run, late>> /\ DOMAIN regs \subseteq DOMAIN regs' => WorkKnown'
         /\ run'.mode \notin Stages => Disposing'
         /\ run'.mode # "thaw" => Thawing'
         /\ UNCHANGED <<run, regs, foreign>> => Disposing'
         /\ UNCHANGED <<run, frozen>> => Thawing'
<1>1. UNCHANGED <<bound, beat, passed, crashes>> => BoundsKept'
  BY DEF HeartbeatInv, BoundsKept
<1>2. UNCHANGED locks => LocksKept'
  BY DEF HeartbeatInv, LocksKept
<1>3. UNCHANGED <<bound, used, waits>> => TokensKept'
  BY DEF HeartbeatInv, TokensKept
<1>4. UNCHANGED txs => TxsKept'
  BY DEF HeartbeatInv, TxsKept
<1>5. UNCHANGED <<groups, deps>> => GroupsKnown'
  BY DEF HeartbeatInv, GroupsKnown
<1>6. UNCHANGED regs /\ DOMAIN groups \subseteq DOMAIN groups' => CallersKnown'
  BY DEF HeartbeatInv, CallersKnown
<1>7. UNCHANGED <<frozen, regs>> => FrozenKnown'
  BY DEF HeartbeatInv, FrozenKnown
<1>8. UNCHANGED <<run, late>> /\ DOMAIN regs \subseteq DOMAIN regs' => WorkKnown'
  BY DEF HeartbeatInv, WorkKnown
<1>9. run'.mode \notin Stages => Disposing'
  BY DEF Disposing
<1>10. run'.mode # "thaw" => Thawing'
  BY DEF Thawing
<1>11. UNCHANGED <<run, regs, foreign>> => Disposing'
  <2> SUFFICES ASSUME UNCHANGED <<run, regs, foreign>> PROVE Disposing'
    OBVIOUS
  <2> QED BY DEF HeartbeatInv, Disposing, HoldsNot, OpenTxs, foreign
<1>12. UNCHANGED <<run, frozen>> => Thawing'
  BY DEF HeartbeatInv, Thawing
<1> QED
  BY <1>1, <1>2, <1>3, <1>4, <1>5, <1>6, <1>7, <1>8, <1>9, <1>10, <1>11, <1>12

(* Nobody is being disposed of when the mutex is free.                       *)
LEMMA NoRunIs ==
  /\ NoRun \in RunRow /\ NoRun.mode = "none" /\ {"none", "thaw", "tick"} \cap Stages = {}
  /\ NoRun.rest = {} /\ NoRun.changed = {} /\ NoRun.refresh = {} /\ IsFiniteSet({})
BY FS_EmptySet DEF NoRun, RunRow, Stages

(* What a behaviour keeps to is of the right kind.                           *)
LEMMA BoundsAre ==
  ASSUME BoundsKept
  PROVE  /\ bound.entries \in Nat /\ bound.tokens \in Nat /\ bound.crashes \in Nat
         /\ bound.requests \subseteq Request /\ bound.asks \subseteq Callers \X Locks
         /\ bound.groups \subseteq Groups \X (Nat \ {0}) /\ bound.deps \subseteq Groups \X Groups
         /\ bound.users \subseteq Callers /\ bound.txs \subseteq Txs \X Callers
BY HeartbeatAssumption DEF HeartbeatAssumption, BoundsKept, BoundSet

(* The invariant holds at first, with whatever transactions are open.        *)
LEMMA StartIs == HeartbeatInit => HeartbeatInv
<1> SUFFICES ASSUME HeartbeatInit PROVE HeartbeatInv
  OBVIOUS
<1> USE DEF HeartbeatInit
<1>1. /\ regs = <<>> /\ groups = <<>> /\ deps = <<>> /\ frozen = {} /\ run = NoRun /\ late = {}
      /\ DOMAIN <<>> = {} /\ IsFiniteSet({}) /\ Range(<<>>) = {}
  BY FS_EmptySet DEF EmptyTables, Range
<1>2. BoundsKept
  <2>1. bound \in BoundSet
    BY HeartbeatAssumption DEF HeartbeatAssumption
  <2>2. bound.crashes \in Nat
    BY <2>1 DEF BoundSet
  <2>3. 0 \in 0..bound.crashes
    BY <2>2
  <2> QED BY <2>3 DEF BoundsKept
<1>3. CallersKnown
  BY <1>1 DEF CallersKnown
<1>4. GroupsKnown
  BY <1>1 DEF GroupsKnown, Tables, IsInjective
<1>5. TxsKept
  <2>1. ASSUME NEW t \in {o[1] : o \in bound.txs}
        PROVE  t \in Txs /\ (CHOOSE c \in Callers : <<t, c>> \in bound.txs) \in Callers
    <3>1. PICK o \in bound.txs : t = o[1]
      BY <2>1
    <3>2. o \in Txs \X Callers
      BY <1>2, BoundsAre
    <3>3. o = <<t, o[2]>> /\ o[2] \in Callers /\ t \in Txs
      BY <3>1, <3>2
    <3>4. \E c \in Callers : <<t, c>> \in bound.txs
      BY <3>1, <3>3
    <3> QED BY <3>3, <3>4
  <2> DEFINE T == {o[1] : o \in bound.txs}
             f == [t \in T |-> CHOOSE c \in Callers : <<t, c>> \in bound.txs]
  <2>2. txs = f
    OBVIOUS
  <2>3. f \in [T -> Callers] /\ T \subseteq Txs
    BY <2>1
  <2> HIDE DEF f, T
  <2>4. DOMAIN f = T
    BY <2>3
  <2> QED BY <2>2, <2>3, <2>4 DEF TxsKept
<1>6. LocksKept
  <2>1. ASSUME NEW h \in Callers \cup {Nobody}, NEW n \in Nat
        PROVE  LockOK([holder |-> h, count |-> n, queue |-> <<>>])
    <3>1. <<>> \in Seq(Callers) /\ IsInjective(<<>>) /\ Range(<<>>) = {}
      BY <1>1 DEF IsInjective
    <3>2. [holder |-> h, count |-> n, queue |-> <<>>] \in LockState
      BY <3>1 DEF LockState
    <3> QED BY <3>1, <3>2 DEF LockOK
  <2> DEFINE owners(l) == {c \in Callers : \E t \in OpenTxs(c) : l \in TxLocks[t]}
  <2>2. locks = [l \in Locks |->
                  IF owners(l) = {} THEN [holder |-> Nobody, count |-> 0, queue |-> <<>>]
                  ELSE [holder |-> CHOOSE c \in owners(l) : TRUE, count |-> 1, queue |-> <<>>]]
    OBVIOUS
  <2>3. \A l \in Locks : owners(l) # {} => (CHOOSE c \in owners(l) : TRUE) \in Callers
    <3> SUFFICES ASSUME NEW l \in Locks, owners(l) # {}
                 PROVE  (CHOOSE c \in owners(l) : TRUE) \in Callers
      OBVIOUS
    <3>1. (CHOOSE c \in owners(l) : TRUE) \in owners(l)
      <4> HIDE DEF owners
      <4> QED OBVIOUS
    <3> QED BY <3>1
  <2> HIDE DEF owners
  <2>4. \A l \in Locks : LockOK(locks[l])
    <3> SUFFICES ASSUME NEW l \in Locks PROVE LockOK(locks[l])
      OBVIOUS
    <3>1. CASE owners(l) = {}
      <4>1. LockOK([holder |-> Nobody, count |-> 0, queue |-> <<>>])
        BY <2>1
      <4> QED BY <2>2, <3>1, <4>1
    <3>2. CASE owners(l) # {}
      <4>1. LockOK([holder |-> CHOOSE c \in owners(l) : TRUE, count |-> 1, queue |-> <<>>])
        BY <2>1, <2>3, <3>2
      <4> QED BY <2>2, <3>2, <4>1
    <3> QED BY <3>1, <3>2
  <2>5. DOMAIN locks = Locks /\ \A l \in Locks : locks[l] \in LockState
    BY <2>2, <2>4 DEF LockOK
  <2>6. locks = [l \in Locks |-> locks[l]]
    BY <2>2
  <2>7. locks \in [Locks -> LockState]
    BY <2>5, <2>6
  <2> QED BY <2>4, <2>7 DEF LocksKept
<1>7. TokensKept
  <2>1. bound.tokens \in Nat
    BY <1>2, BoundsAre
  <2> QED BY <2>1 DEF TokensKept
<1>8. WorkKnown
  BY <1>1, NoRunIs DEF WorkKnown
<1>9. FrozenKnown
  BY <1>1 DEF FrozenKnown
<1>10. Disposing /\ Thawing
  BY <1>1, NoRunIs DEF Disposing, Thawing
<1> QED BY <1>2, <1>3, <1>4, <1>5, <1>6, <1>7, <1>8, <1>9, <1>10 DEF HeartbeatInv

(* The requests that change the tables while nobody is being disposed of.    *)
LEMMA TablesChange ==
  ASSUME HeartbeatInv, Free,
         UNCHANGED <<bound, beat, run, late, foreign, passed, crashes>>,
         GroupsKnown', CallersKnown', FrozenKnown', DOMAIN regs \subseteq DOMAIN regs'
  PROVE  HeartbeatInv'
<1>1. run' = NoRun /\ NoRun.mode \notin Stages /\ NoRun.mode # "thaw"
  BY NoRunIs DEF Free
<1>2. BoundsKept' /\ LocksKept' /\ TokensKept' /\ TxsKept'
  BY Untouched DEF foreign
<1>3. WorkKnown' /\ Disposing' /\ Thawing'
  BY <1>1, Untouched
<1> QED BY <1>2, <1>3 DEF HeartbeatInv

(* A sequence of members of T is a sequence over T.                          *)
LEMMA SeqWithin ==
  ASSUME NEW S, NEW s \in Seq(S), NEW T, \A i \in DOMAIN s : s[i] \in T
  PROVE  s \in Seq(T)
<1>1. DOMAIN s = 1..Len(s) /\ Len(s) \in Nat /\ s \in [1..Len(s) -> S]
  BY LenProperties
<1>2. s \in [1..Len(s) -> T]
  BY <1>1
<1> QED BY <1>1, <1>2

(* Nothing happens to the groups but what follows from the dependencies.     *)
Steady == deps' = deps /\ Follows(deps, DOMAIN groups, groups, groups')

(* Groups that are left alone follow.                                        *)
LEMMA SteadyGroups ==
  ASSUME GroupsKnown
  PROVE  /\ UNCHANGED <<groups, deps>> => Steady
         /\ Steady => GroupsKnown' /\ DOMAIN groups' = DOMAIN groups
<1>1. UNCHANGED <<groups, deps>> => Steady
  BY DEF GroupsKnown, Steady, Follows
<1>2. ASSUME Steady PROVE GroupsKnown' /\ DOMAIN groups' = DOMAIN groups
  <2>1. groups' \in Tables(DOMAIN groups) /\ deps' = deps
    BY <1>2 DEF Steady, Follows
  <2>2. DOMAIN groups' = DOMAIN groups
    BY <2>1 DEF Tables
  <2> QED BY <2>1, <2>2 DEF GroupsKnown
<1> QED BY <1>1, <1>2

(* A new group has no callers and depends on none.                           *)
LEMMA CreateGroupKeeps ==
  ASSUME HeartbeatInv, NEW g \in Groups, NEW n \in Nat \ {0}, CreateGroup(g, n)
  PROVE  HeartbeatInv'
<1> DEFINE D == DOMAIN groups
           E == D \cup {g}
           row == [threshold |-> n, status |-> "healthy", alive |-> 0, total |-> 0, degraded |-> FALSE]
<1>1. GroupsKnown /\ CallersKnown
  BY DEF HeartbeatInv
<1>2. groups' = [x \in E |-> IF x \in D THEN groups[x] ELSE row] /\ deps' = deps
  BY DEF CreateGroup, CreateHeartbeatGroup
<1>3. row \in GroupRow
  BY DEF GroupRow, GroupStatuses
<1> HIDE DEF row
<1>4. groups' \in [E -> GroupRow] /\ DOMAIN groups' = E
  BY <1>1, <1>2, <1>3 DEF GroupsKnown, Tables
<1>5. deps' \in Seq(E \X E)
  <2>1. deps \in Seq(D \X D)
    BY <1>1 DEF GroupsKnown
  <2>2. \A i \in DOMAIN deps : deps[i] \in E \X E
    <3>1. \A i \in DOMAIN deps : deps[i] \in D \X D
      BY <2>1, ElementOfSeq, LenProperties
    <3> QED BY <3>1
  <2> HIDE DEF E
  <2> QED BY <1>2, <2>1, <2>2, SeqWithin
<1>6. GroupsKnown'
  BY <1>1, <1>2, <1>4, <1>5 DEF GroupsKnown, Tables
<1>7. CallersKnown' /\ FrozenKnown'
  <2>1. UNCHANGED <<regs, frozen>>
    BY DEF CreateGroup
  <2> QED BY <1>4, <2>1, Untouched
<1> QED BY <1>6, <1>7, TablesChange DEF CreateGroup

(* A group that goes takes every dependency on it along.                     *)
LEMMA DeleteGroupKeeps ==
  ASSUME HeartbeatInv, NEW g \in DOMAIN groups, DeleteGroup(g)
  PROVE  HeartbeatInv'
<1> DEFINE D == DOMAIN groups
           E == D \ {g}
           K == {i \in DOMAIN deps : ~ (g \in Range(deps[i]))}
<1>1. GroupsKnown /\ CallersKnown
  BY DEF HeartbeatInv
<1>2. groups' = [x \in E |-> groups[x]] /\ deps' = Keep(deps, K)
  BY DEF DeleteGroup, Without
<1>3. groups' \in Tables(E) /\ DOMAIN groups' = E
  BY <1>1, <1>2 DEF GroupsKnown, Tables
<1>4. deps \in Seq(D \X D) /\ IsInjective(deps)
  BY <1>1 DEF GroupsKnown
<1>5. /\ Keep(deps, K) \in Seq(D \X D) /\ IsInjective(Keep(deps, K))
      /\ Range(Keep(deps, K)) = {deps[i] : i \in K}
  BY <1>4, KeepIs
<1>6. \A i \in K : deps[i] \in E \X E
  <2> SUFFICES ASSUME NEW i \in K PROVE deps[i] \in E \X E
    OBVIOUS
  <2>1. deps[i] \in D \X D
    BY <1>4, ElementOfSeq, LenProperties
  <2>2. PICK a \in D, b \in D : deps[i] = <<a, b>>
    BY <2>1
  <2>3. g # a /\ g # b
    <3>1. g \notin Range(<<a, b>>)
      BY <2>2
    <3>2. DOMAIN <<a, b>> = {1, 2} /\ <<a, b>>[1] = a /\ <<a, b>>[2] = b
      OBVIOUS
    <3> QED BY <3>1, <3>2 DEF Range
  <2> QED BY <2>2, <2>3
<1>7. deps' \in Seq(E \X E) /\ IsInjective(deps')
  <2> DEFINE k == Keep(deps, K)
  <2>1. k \in Seq(D \X D) /\ IsInjective(k) /\ Range(k) = {deps[i] : i \in K}
    BY <1>5
  <2> HIDE DEF k, K
  <2>2. ASSUME NEW i \in DOMAIN k PROVE k[i] \in E \X E
    <3>1. k[i] \in Range(k)
      BY DEF Range
    <3>2. PICK j \in K : k[i] = deps[j]
      BY <2>1, <3>1
    <3> QED BY <1>6, <3>2
  <2>3. k \in Seq(E \X E)
    BY <2>1, <2>2, SeqWithin
  <2> QED BY <1>2, <2>1, <2>3 DEF k
<1>8. GroupsKnown'
  BY <1>1, <1>3, <1>7 DEF GroupsKnown
<1>9. CallersKnown'
  <2>1. regs' = regs /\ \A c \in DOMAIN regs : regs[c].group # g
    BY DEF DeleteGroup, Members
  <2> QED BY <1>1, <1>3, <2>1 DEF CallersKnown
<1>10. FrozenKnown' /\ DOMAIN regs \subseteq DOMAIN regs'
  BY Untouched DEF DeleteGroup
<1> QED BY <1>8, <1>9, <1>10, TablesChange DEF DeleteGroup

(* A new dependency: the group degrades if what it depends on is not well.   *)
DependencyKeeps(ds) ==
  /\ ds \in Seq((DOMAIN groups) \X (DOMAIN groups)) /\ IsInjective(ds)
  /\ groups' \in Tables(DOMAIN groups) /\ Recount(groups, groups', DOMAIN groups)
  /\ \A g \in DOMAIN groups : HasReason(deps, groups, g) => HasReason(ds, groups', g)

(* Dependencies change while nobody is being disposed of.                    *)
LEMMA DependencyChange ==
  ASSUME HeartbeatInv, Free, DependencyKeeps(deps'),
         UNCHANGED <<bound, beat, run, late, foreign, passed, crashes, regs, frozen>>
  PROVE  HeartbeatInv'
<1>1. GroupsKnown
  BY DEF HeartbeatInv
<1>2. DOMAIN groups' = DOMAIN groups
  BY DEF DependencyKeeps, Tables
<1>3. GroupsKnown'
  BY <1>1, <1>2 DEF GroupsKnown, DependencyKeeps
<1>4. CallersKnown' /\ FrozenKnown'
  BY <1>2, Untouched
<1> QED BY <1>3, <1>4, TablesChange

(* A new dependency degrades, and takes no reason away.                      *)
LEMMA AddDependencyKeeps ==
  ASSUME HeartbeatInv, NEW g, NEW on, AddGroupDependency(g, on)
  PROVE  HeartbeatInv' /\ DependencyKeeps(deps')
<1> DEFINE D == DOMAIN groups
           ds == deps'
<1>1. groups \in Tables(D) /\ deps \in Seq(D \X D) /\ IsInjective(deps)
  BY DEF HeartbeatInv, GroupsKnown
<1>2. g \in D /\ on \in D
  BY DEF AddGroupDependency
<1>3. /\ ds \in Seq(D \X D) /\ IsInjective(ds)
      /\ Range(deps) \subseteq Range(ds)
  <2>1. CASE <<g, on>> \in Range(deps)
    <3>1. deps' = deps
      BY <2>1 DEF AddGroupDependency, CreateGroupDependency
    <3> QED BY <1>1, <3>1
  <2>2. CASE <<g, on>> \notin Range(deps)
    <3>1. deps' = Append(deps, <<g, on>>)
      BY <2>2 DEF AddGroupDependency, CreateGroupDependency
    <3>2. <<g, on>> \in D \X D
      BY <1>2
    <3> QED BY <1>1, <2>2, <3>1, <3>2, AppendIs
  <2> QED BY <2>1, <2>2
<1>4. ASSUME NEW x \in D, HasReason(deps, groups, x) PROVE HasReason(ds, groups, x)
  <2>1. DependenciesOf(deps, x) \subseteq DependenciesOf(ds, x)
    BY <1>3 DEF DependenciesOf
  <2> QED BY <1>4, <2>1 DEF HasReason, LeansOnUnwell
<1>5. /\ groups' \in Tables(D) /\ Recount(groups, groups', D)
      /\ \A x \in D : HasReason(ds, groups, x) => HasReason(ds, groups', x)
  <2> HIDE DEF ds
  <2>1. CASE Unwell(groups[on])
    <3>1. groups' = CheckCascadeDegrade(ds, groups, on)
      BY <2>1 DEF AddGroupDependency, ds
    <3>2. RestoreKeeps(ds, D, groups, DependOn(ds, on), groups')
      BY <1>1, <1>2, <1>3, <3>1, CascadeIs
    <3> QED BY <3>2 DEF RestoreKeeps
  <2>2. CASE ~ Unwell(groups[on])
    <3>1. groups' = groups
      BY <2>2 DEF AddGroupDependency
    <3> QED BY <1>1, <3>1 DEF Recount
  <2> QED BY <2>1, <2>2
<1>6. DependencyKeeps(ds)
  BY <1>3, <1>4, <1>5 DEF DependencyKeeps
<1> QED BY <1>6, DependencyChange DEF AddGroupDependency

(* A group that loses a dependency is restored if nothing else holds it down. *)
LEMMA RemoveDependencyKeeps ==
  ASSUME HeartbeatInv, NEW g, NEW on, RemoveGroupDependency(g, on)
  PROVE  HeartbeatInv' /\ DependencyKeeps(deps')
<1> DEFINE D == DOMAIN groups
           K == {i \in DOMAIN deps : ~ (deps[i] = <<g, on>>)}
           ds == deps'
<1>1. groups \in Tables(D) /\ deps \in Seq(D \X D) /\ IsInjective(deps)
  BY DEF HeartbeatInv, GroupsKnown
<1>2. /\ ds \in Seq(D \X D) /\ IsInjective(ds)
      /\ Range(ds) = {deps[i] : i \in K}
  <2>1. ds = Keep(deps, K)
    BY DEF RemoveGroupDependency, Without
  <2> QED BY <1>1, <2>1, KeepIs
<1>3. ASSUME NEW x \in D, x # g PROVE DependenciesOf(ds, x) = DependenciesOf(deps, x)
  <2>1. ASSUME NEW e, e[1] = x PROVE e \in Range(ds) <=> e \in Range(deps)
    <3>1. e # <<g, on>>
      BY <1>3, <2>1
    <3>2. e \in Range(deps) <=> \E i \in DOMAIN deps : deps[i] = e
      BY DEF Range
    <3>3. e \in Range(ds) <=> \E i \in DOMAIN deps : deps[i] # <<g, on>> /\ deps[i] = e
      BY <1>2
    <3> QED BY <3>1, <3>2, <3>3
  <2> HIDE DEF ds
  <2>2. \A e \in Range(ds) : e[1] = x => e \in Range(deps)
    BY <2>1
  <2>3. \A e \in Range(deps) : e[1] = x => e \in Range(ds)
    BY <2>1
  <2> QED BY <2>2, <2>3 DEF DependenciesOf
<1>4. /\ groups' \in Tables(D) /\ Recount(groups, groups', D)
      /\ \A x \in D : HasReason(deps, groups, x) => HasReason(ds, groups', x)
  <2> HIDE DEF ds, K
  <2>1. CASE g \in D /\ groups[g].degraded
    <3>1. groups' = TryRestore(ds, groups, <<g>>)
      BY <2>1 DEF RemoveGroupDependency, ds
    <3>2. <<g>> \in Seq(D) /\ g \in Range(<<g>>)
      BY <2>1 DEF Range
    <3>3. RestoreKeeps(ds, D, groups, <<g>>, groups')
      BY <1>1, <1>2, <3>1, <3>2, RestoreIs
    <3>4. \A x \in D : HasReason(deps, groups, x) => x = g \/ HasReason(ds, groups, x)
      BY <1>3 DEF HasReason, LeansOnUnwell
    <3> QED BY <3>2, <3>3, <3>4 DEF RestoreKeeps
  <2>2. CASE ~ (g \in D /\ groups[g].degraded)
    <3>1. groups' = groups
      BY <2>2 DEF RemoveGroupDependency
    <3>2. \A x \in D : HasReason(deps, groups, x) => HasReason(ds, groups, x)
      BY <1>3, <2>2 DEF HasReason, LeansOnUnwell
    <3> QED BY <1>1, <3>1, <3>2 DEF Recount
  <2> QED BY <2>1, <2>2
<1>5. DependencyKeeps(ds)
  BY <1>2, <1>4 DEF DependencyKeeps
<1> QED BY <1>5, DependencyChange DEF RemoveGroupDependency

(* The row of one caller is rewritten, within its group.                     *)
LEMMA RowRewritten ==
  ASSUME CallersKnown, NEW c \in DOMAIN regs, NEW row \in Registration,
         row.age <= row.max, row.group = regs[c].group,
         regs' = [regs EXCEPT ![c] = row], DOMAIN groups' = DOMAIN groups
  PROVE  /\ CallersKnown' /\ DOMAIN regs' = DOMAIN regs
         /\ \A d \in DOMAIN regs : regs'[d] = IF d = c THEN row ELSE regs[d]
         /\ FrozenKnown /\ UNCHANGED frozen /\ (regs[c].status = "frozen" => row.status = "frozen")
              => FrozenKnown'
<1>1. DOMAIN regs' = DOMAIN regs /\ \A d \in DOMAIN regs : regs'[d] = IF d = c THEN row ELSE regs[d]
  BY DEF CallersKnown
<1>2. regs' \in [DOMAIN regs' -> Registration]
  BY <1>1 DEF CallersKnown
<1>3. \A d \in DOMAIN regs' : regs'[d].age <= regs'[d].max /\ regs'[d].group \in DOMAIN groups' \cup {NoGroup}
  BY <1>1 DEF CallersKnown
<1>4. CallersKnown'
  BY <1>1, <1>2, <1>3 DEF CallersKnown
<1>5. ASSUME FrozenKnown, UNCHANGED frozen, regs[c].status = "frozen" => row.status = "frozen"
      PROVE  FrozenKnown'
  BY <1>1, <1>5 DEF FrozenKnown
<1> QED BY <1>1, <1>4, <1>5

(* The row of a registered caller.                                           *)
LEMMA CallerRow ==
  ASSUME CallersKnown, NEW c \in DOMAIN regs
  PROVE  /\ regs[c] \in Registration /\ c \in Callers
         /\ regs[c].age \in Nat /\ regs[c].max \in Nat /\ regs[c].max # 0 /\ regs[c].age <= regs[c].max
         /\ regs[c].group \in Groups \cup {NoGroup} /\ regs[c].group \in DOMAIN groups \cup {NoGroup}
         /\ regs[c].status \in Statuses /\ regs[c].strategy \in Strategies
<1>1. regs[c] \in Registration
  BY DEF CallersKnown
<1> QED BY <1>1 DEF CallersKnown, Registration

(* The tables are as they should be, and the groups follow. *)
TablesKept ==
  /\ Steady /\ GroupsKnown' /\ CallersKnown' /\ FrozenKnown' /\ DOMAIN regs \subseteq DOMAIN regs'

(* A caller registers, anew or for the first time; nothing of it is frozen.  *)
(* The rows of the groups may be written or not.                             *)
LEMMA RegistrationWritten ==
  ASSUME HeartbeatInv, NEW r \in Request, MayRegister(r), regs' = Registered(r),
         \/ groups' = groups
         \/ groups' = UpdateGroupLeft(regs', r)
         \/ groups' = UpdateGroupHealth(regs', UpdateGroupLeft(regs', r), r.group),
         UNCHANGED <<deps, frozen>>
  PROVE  TablesKept
<1> DEFINE D == DOMAIN groups
           c == r.caller
           row == [group |-> r.group, max |-> r.max, strategy |-> r.strategy, age |-> 0,
                   status |-> "healthy"]
           old == IF c \in DOMAIN regs THEN regs[c].group ELSE r.group
           gs == IF old = r.group THEN groups ELSE UpdateGroupHealth(regs', groups, old)
<1>1. GroupsKnown /\ CallersKnown /\ FrozenKnown
  BY DEF HeartbeatInv
<1>2. /\ c \in Callers /\ row \in Registration /\ row.age <= row.max
      /\ row.group \in D \cup {NoGroup}
  BY DEF Request, Registration, Statuses, MayRegister
<1>3. groups \in Tables(D) /\ deps \in Seq(D \X D)
  BY <1>1 DEF GroupsKnown
<1>4. regs' = [x \in DOMAIN regs \cup {c} |-> IF x /= c THEN regs[x] ELSE row]
  BY DEF Registered
<1>5. groups' = groups \/ groups' = gs \/ groups' = UpdateGroupHealth(regs', gs, r.group)
  BY DEF UpdateGroupLeft
<1> HIDE DEF row, c, gs
<1>6. DOMAIN regs' = DOMAIN regs \cup {c} /\ IsFiniteSet(DOMAIN regs')
  BY <1>1, <1>4, FS_AddElement DEF CallersKnown
<1>7. Follows(deps, D, groups, gs) /\ gs \in Tables(D)
  <2>1. Follows(deps, D, groups, groups)
    BY <1>3 DEF Follows
  <2>2. Follows(deps, D, groups, UpdateGroupHealth(regs', groups, old))
    BY <1>3, <1>6, HealthFollows
  <2>3. Follows(deps, D, groups, gs)
    BY <2>1, <2>2 DEF gs
  <2> QED BY <2>3 DEF Follows
<1>8. Steady
  <2>1. Follows(deps, D, gs, UpdateGroupHealth(regs', gs, r.group))
    BY <1>3, <1>6, <1>7, HealthFollows
  <2>2. Follows(deps, D, groups, UpdateGroupHealth(regs', gs, r.group))
    BY <1>7, <2>1, <1>3, FollowsIsOrder
  <2>3. Follows(deps, D, groups, groups)
    BY <1>3 DEF Follows
  <2> QED BY <1>5, <1>7, <2>2, <2>3 DEF Steady
<1>9. GroupsKnown' /\ DOMAIN groups' = D
  BY <1>1, <1>8, SteadyGroups
<1>10. CallersKnown'
  <2>1. regs' \in [DOMAIN regs' -> Registration] /\ DOMAIN regs' \subseteq Callers
    BY <1>1, <1>2, <1>4, <1>6 DEF CallersKnown
  <2>2. \A x \in DOMAIN regs' : regs'[x].age <= regs'[x].max /\ regs'[x].group \in D \cup {NoGroup}
    BY <1>1, <1>2, <1>4, <1>6 DEF CallersKnown
  <2> QED BY <1>6, <1>9, <2>1, <2>2 DEF CallersKnown
<1>11. FrozenKnown'
  <2>1. c \in DOMAIN regs => regs[c].status # "frozen"
    BY DEF MayRegister, c
  <2> QED BY <1>1, <1>4, <1>6, <2>1 DEF FrozenKnown
<1> QED BY <1>6, <1>8, <1>9, <1>10, <1>11 DEF TablesKept

LEMMA RegisterHeartbeatKeeps ==
  ASSUME HeartbeatInv, NEW r \in Request, RegisterHeartbeat(r)
  PROVE  HeartbeatInv' /\ Steady
<1>1. /\ MayRegister(r) /\ regs' = Registered(r)
      /\ groups' = UpdateGroupHealth(regs', UpdateGroupLeft(regs', r), r.group)
      /\ UNCHANGED <<bound, beat, deps, frozen, run, late, foreign, passed, crashes>>
  BY DEF RegisterHeartbeat
<1>2. TablesKept
  BY <1>1, RegistrationWritten
<1> QED BY <1>1, <1>2, TablesChange DEF MayRegister, TablesKept

(* A caller reports; one that is frozen cannot.                              *)
LEMMA ReportWritten ==
  ASSUME HeartbeatInv, NEW c \in DOMAIN regs, MayReport(c), regs' = Reported(c),
         groups' = groups \/ groups' = UpdateGroupHealth(regs', groups, regs[c].group),
         UNCHANGED <<deps, frozen>>
  PROVE  TablesKept
<1> DEFINE D == DOMAIN groups
           s == IF regs[c].status = "lost" THEN "recovered" ELSE "healthy"
           row == [regs[c] EXCEPT !.age = 0, !.status = s]
<1>1. GroupsKnown /\ CallersKnown /\ FrozenKnown
  BY DEF HeartbeatInv
<1>2. /\ row \in Registration /\ row.age <= row.max /\ row.group = regs[c].group
  <2>1. regs[c] \in Registration /\ s \in Statuses
    BY <1>1, CallerRow DEF Statuses
  <2> HIDE DEF s
  <2>2. row \in Registration /\ row.age = 0 /\ row.max = regs[c].max /\ row.group = regs[c].group
    BY <2>1 DEF Registration
  <2>3. regs[c].max \in Nat
    BY <1>1, CallerRow
  <2> HIDE DEF row
  <2> QED BY <2>2, <2>3
<1>3. groups \in Tables(D) /\ deps \in Seq(D \X D)
  BY <1>1 DEF GroupsKnown
<1>4. regs' = [regs EXCEPT ![c] = row]
  <2>1. regs[c] \in Registration /\ regs \in [DOMAIN regs -> Registration]
    BY <1>1, CallerRow DEF CallersKnown
  <2>2. regs' = [regs EXCEPT ![c].age = 0, ![c].status = IF @ = "lost" THEN "recovered" ELSE "healthy"]
    BY DEF Reported
  <2> QED BY <2>1, <2>2 DEF Registration
<1>5. DOMAIN regs' = DOMAIN regs /\ IsFiniteSet(DOMAIN regs')
  BY <1>1, <1>4 DEF CallersKnown
<1>6. Steady
  <2>1. Follows(deps, D, groups, UpdateGroupHealth(regs', groups, regs[c].group))
    BY <1>3, <1>5, HealthFollows
  <2>2. Follows(deps, D, groups, groups)
    BY <1>3 DEF Follows
  <2> QED BY <2>1, <2>2 DEF Steady
<1>7. GroupsKnown' /\ DOMAIN groups' = D
  BY <1>1, <1>6, SteadyGroups
<1>8. CallersKnown' /\ FrozenKnown'
  <2>1. regs[c].status # "frozen"
    BY DEF MayReport
  <2> HIDE DEF row
  <2> QED BY <1>1, <1>2, <1>4, <1>7, <2>1, RowRewritten
<1> QED BY <1>5, <1>6, <1>7, <1>8 DEF TablesKept

LEMMA ReportHeartbeatKeeps ==
  ASSUME HeartbeatInv, NEW c \in DOMAIN regs, ReportHeartbeat(c)
  PROVE  HeartbeatInv' /\ Steady
<1>1. /\ MayReport(c) /\ regs' = Reported(c)
      /\ groups' = UpdateGroupHealth(regs', groups, regs[c].group)
      /\ UNCHANGED <<bound, beat, deps, frozen, run, late, foreign, passed, crashes>>
  BY DEF ReportHeartbeat
<1>2. TablesKept
  BY <1>1, ReportWritten
<1> QED BY <1>1, <1>2, TablesChange DEF MayReport, TablesKept

(* The mutex is taken for a tick, or for one caller at a start.              *)
LEMMA TickBegins ==
  ASSUME HeartbeatInv, \/ CheckAllCallers
                       \/ \E c \in late : CheckAndHandleCaller(c)
  PROVE  HeartbeatInv' /\ Steady
<1>1. GroupsKnown /\ CallersKnown /\ WorkKnown /\ BoundsKept
  BY DEF HeartbeatInv
<1>2. /\ UNCHANGED <<bound, own, foreign, passed, crashes>>
      /\ beat' \in BOOLEAN /\ late' \subseteq late
  BY <1>1 DEF CheckAllCallers, CheckAndHandleCaller, BoundsKept
<1>3. NoRun \in RunRow /\ DOMAIN regs \subseteq Callers /\ late \subseteq DOMAIN regs
  BY <1>1, NoRunIs DEF CallersKnown, WorkKnown
<1>4. /\ run' \in RunRow /\ run'.mode = "tick" /\ run'.rest \subseteq DOMAIN regs
      /\ run'.changed = {} /\ run'.refresh = {}
  <2>1. CASE CheckAllCallers
    <3> DEFINE rest == {c \in DOMAIN regs : regs[c].status /= "frozen"}
    <3>1. run' = [NoRun EXCEPT !.mode = "tick", !.rest = rest]
      BY <2>1 DEF CheckAllCallers
    <3>2. rest \in SUBSET Callers /\ rest \subseteq DOMAIN regs
      BY <1>3
    <3> HIDE DEF rest
    <3> QED BY <1>3, <3>1, <3>2, NoRunIs DEF RunRow
  <2>2. CASE \E c \in late : CheckAndHandleCaller(c)
    <3>1. PICK c \in late : CheckAndHandleCaller(c)
      BY <2>2
    <3>2. {c} \in SUBSET Callers /\ {c} \subseteq DOMAIN regs
      BY <1>3
    <3>3. run' = [NoRun EXCEPT !.mode = "tick", !.marks = FALSE, !.rest = {c}]
      BY <3>1 DEF CheckAndHandleCaller
    <3> QED BY <1>3, <3>2, <3>3, NoRunIs DEF RunRow
  <2> QED BY <2>1, <2>2
<1>5. WorkKnown'
  <2>1. run'.rest \cup late' \subseteq DOMAIN regs' /\ IsFiniteSet({})
    BY <1>1, <1>2, <1>4, FS_EmptySet DEF WorkKnown, own
  <2> QED BY <1>4, <2>1 DEF WorkKnown
<1>6. BoundsKept' /\ TokensKept' /\ LocksKept' /\ TxsKept' /\ GroupsKnown' /\ CallersKnown' /\ FrozenKnown'
  <2>1. BoundsKept'
    BY <1>1, <1>2 DEF BoundsKept
  <2> QED BY <1>2, <2>1, Untouched DEF own, foreign
<1>7. Disposing' /\ Thawing'
  <2>1. "tick" \notin Stages /\ "tick" # "thaw"
    BY NoRunIs
  <2> QED BY <1>4, <2>1, Untouched
<1>8. Steady
  BY <1>1, <1>2, SteadyGroups DEF own
<1> QED BY <1>5, <1>6, <1>7, <1>8 DEF HeartbeatInv

(* A check never thaws a caller.                                             *)
LEMMA StatusesAre ==
  ASSUME NEW r \in Registration
  PROVE  /\ NewStatus(r) \in Statuses
         /\ r.status = "frozen" => NewStatus(r) = "frozen"
BY DEF Registration, Statuses, Alive, NewStatus

(* One of the callers is checked, and lost if it was silent too long.        *)
LEMMA CheckCallerKeeps ==
  ASSUME HeartbeatInv, NEW c \in Callers, CheckCaller(c)
  PROVE  HeartbeatInv' /\ Steady
<1> DEFINE r == regs[c]
           s == NewStatus(r)
           lost == s = "lost" /\ r.status /= "lost"
           row == [r EXCEPT !.status = s]
           mode == IF ~lost THEN "tick" ELSE IF r.strategy = "freeze" THEN "freeze" ELSE "list"
           caller == IF lost THEN c ELSE run.caller
           rest == run.rest \ {c}
           changed == IF run.marks /\ s /= r.status THEN run.changed \cup {r.group} ELSE run.changed
           refresh == IF run.marks /\ s = r.status /\ s \in {"lost", "recovered"}
                      THEN run.refresh \cup {r.group} ELSE run.refresh
<1>1. GroupsKnown /\ CallersKnown /\ WorkKnown /\ FrozenKnown
  BY DEF HeartbeatInv
<1>2. /\ run \in RunRow /\ run.mode = "tick" /\ c \in DOMAIN regs
      /\ IsFiniteSet(run.changed) /\ IsFiniteSet(run.refresh) /\ run.rest \cup late \subseteq DOMAIN regs
  BY <1>1 DEF WorkKnown, CheckCaller
<1>3. r \in Registration /\ r.group \in Groups \cup {NoGroup}
  BY <1>1, <1>2, CallerRow
<1>4. s \in Statuses /\ (r.status = "frozen" => s = "frozen")
  BY <1>3, StatusesAre
<1>5. /\ run' = [run EXCEPT !.rest = rest, !.mode = mode, !.caller = caller,
                            !.changed = changed, !.refresh = refresh]
      /\ regs' = [regs EXCEPT ![c] = row]
      /\ UNCHANGED <<bound, beat, groups, deps, frozen, late, foreign, passed, crashes>>
  <2>1. /\ regs' = [regs EXCEPT ![c].status = s]
        /\ UNCHANGED <<bound, beat, groups, deps, frozen, late, foreign, passed, crashes>>
    BY DEF CheckCaller
  <2>2. run' = [run EXCEPT !.rest = @ \ {c}, !.mode = mode, !.caller = IF lost THEN c ELSE @,
             !.changed = IF run.marks /\ s /= r.status THEN @ \cup {r.group} ELSE @,
             !.refresh = IF run.marks /\ s = r.status /\ s \in {"lost", "recovered"}
                         THEN @ \cup {r.group} ELSE @]
    BY DEF CheckCaller
  <2> HIDE DEF s, lost, mode
  <2>3. run' = [run EXCEPT !.rest = rest, !.mode = mode, !.caller = caller,
                           !.changed = changed, !.refresh = refresh]
    BY <1>2, <2>2 DEF RunRow
  <2> QED BY <2>1, <2>3
<1> HIDE DEF s, r
<1>6. /\ mode \in {"tick", "freeze", "list"} /\ caller \in Callers \cup {Nobody}
      /\ rest \in SUBSET Callers /\ rest \cup late \subseteq DOMAIN regs
      /\ changed \in SUBSET (Groups \cup {NoGroup}) /\ IsFiniteSet(changed)
      /\ refresh \in SUBSET (Groups \cup {NoGroup}) /\ IsFiniteSet(refresh)
  <2>1. run.rest \in SUBSET Callers /\ run.caller \in Callers \cup {Nobody}
        /\ run.changed \in SUBSET (Groups \cup {NoGroup}) /\ run.refresh \in SUBSET (Groups \cup {NoGroup})
    BY <1>2 DEF RunRow
  <2>2. IsFiniteSet(run.changed \cup {r.group}) /\ IsFiniteSet(run.refresh \cup {r.group})
    BY <1>2, FS_AddElement
  <2> QED BY <1>2, <1>3, <2>1, <2>2
<1>7. row \in Registration /\ row.age <= row.max /\ row.group = regs[c].group /\ row.status = s
      /\ row.strategy = r.strategy
  <2>1. r \in Registration /\ r.age \in Nat /\ r.max \in Nat /\ r.age <= r.max
    BY <1>1, <1>2, CallerRow DEF r
  <2>2. /\ row \in Registration /\ row.age = r.age /\ row.max = r.max /\ row.group = r.group
        /\ row.status = s /\ row.strategy = r.strategy
    BY <1>4, <2>1 DEF Registration
  <2> HIDE DEF row
  <2> QED BY <2>1, <2>2 DEF r
<1> DEFINE isLost == lost
<1>8. /\ mode = "freeze" => isLost /\ r.strategy = "freeze"
      /\ mode = "list" => isLost /\ r.strategy # "freeze"
      /\ isLost => s = "lost" /\ caller = c
  OBVIOUS
<1> HIDE DEF row, mode, caller, rest, changed, refresh, isLost, lost
<1>9. /\ CallersKnown' /\ FrozenKnown' /\ DOMAIN regs' = DOMAIN regs
      /\ regs'[c] = row
  BY <1>1, <1>2, <1>4, <1>5, <1>7, RowRewritten DEF r
<1>10. /\ run' \in RunRow /\ run'.mode = mode /\ run'.caller = caller /\ run'.rest = rest
       /\ run'.changed = changed /\ run'.refresh = refresh
  <2>1. mode \in Stages \cup {"none", "tick", "thaw"}
    BY <1>6 DEF Stages
  <2> QED BY <1>2, <1>5, <1>6, <2>1 DEF RunRow
<1>11. WorkKnown'
  BY <1>5, <1>6, <1>9, <1>10 DEF WorkKnown
<1>12. Disposing'
  <2>1. CASE mode = "tick"
    BY <1>10, <2>1, NoRunIs, Untouched
  <2>2. CASE mode \in {"freeze", "list"}
    <3>1. /\ run'.caller = c /\ c \in DOMAIN regs' /\ regs'[c].status = "lost"
          /\ run'.mode = "freeze" => regs'[c].strategy = "freeze"
          /\ run'.mode = "list" => regs'[c].strategy # "freeze"
      BY <1>2, <1>7, <1>8, <1>9, <1>10, <2>2
    <3> QED BY <1>10, <2>2, <3>1 DEF Disposing
  <2> QED BY <1>6, <2>1, <2>2
<1>13. BoundsKept' /\ LocksKept' /\ TokensKept' /\ TxsKept' /\ GroupsKnown' /\ Thawing'
  <2>1. run'.mode # "thaw"
    BY <1>6, <1>10
  <2> QED BY <1>5, <2>1, Untouched DEF foreign
<1>14. Steady
  BY <1>1, <1>5, SteadyGroups
<1> QED BY <1>9, <1>11, <1>12, <1>13, <1>14 DEF HeartbeatInv

(* The end of a tick.  The groups of the callers it changed are updated.     *)
LEMMA CheckDoneKeeps ==
  ASSUME HeartbeatInv, CheckDone
  PROVE  HeartbeatInv' /\ Steady
<1> DEFINE D == DOMAIN groups
<1>1. GroupsKnown /\ CallersKnown /\ WorkKnown
  BY DEF HeartbeatInv
<1>2. run' = NoRun /\ UNCHANGED <<bound, beat, regs, deps, frozen, late, foreign, passed, crashes>>
  BY DEF CheckDone
<1>3. Steady
  <2>1. /\ groups \in Tables(D) /\ deps \in Seq(D \X D) /\ IsFiniteSet(DOMAIN regs)
        /\ IsFiniteSet(run.changed) /\ IsFiniteSet(run.refresh)
    BY <1>1 DEF GroupsKnown, CallersKnown, WorkKnown
  <2>2. PICK gs \in UpdateGroups(regs, groups, run.changed) :
          groups' \in UpdateGroups(regs, gs, run.refresh \ run.changed)
    BY DEF CheckDone
  <2>3. IsFiniteSet(run.refresh \ run.changed)
    BY <2>1, FS_Difference
  <2>4. Follows(deps, D, groups, gs) /\ gs \in Tables(D)
    <3>1. Follows(deps, D, groups, gs)
      BY <2>1, UpdatesFollow
    <3> QED BY <3>1 DEF Follows
  <2>5. Follows(deps, D, gs, groups')
    BY <2>1, <2>2, <2>3, <2>4, UpdatesFollow
  <2>6. Follows(deps, D, groups, groups')
    BY <2>1, <2>4, <2>5, FollowsIsOrder
  <2> QED BY <1>2, <2>6 DEF Steady
<1>4. GroupsKnown' /\ DOMAIN groups' = D
  BY <1>1, <1>3, SteadyGroups
<1>5. WorkKnown'
  BY <1>1, <1>2, NoRunIs DEF WorkKnown
<1>6. Disposing' /\ Thawing'
  <2>1. run'.mode \notin Stages /\ run'.mode # "thaw"
    BY <1>2, NoRunIs
  <2> QED BY <2>1, Untouched
<1>7. BoundsKept' /\ LocksKept' /\ TokensKept' /\ TxsKept' /\ CallersKnown' /\ FrozenKnown'
  BY <1>2, <1>4, Untouched DEF foreign
<1> QED BY <1>3, <1>4, <1>5, <1>6, <1>7 DEF HeartbeatInv

(* Time passes for a caller; nothing but its age changes.                    *)
LEMMA SilenceKeeps ==
  ASSUME HeartbeatInv, NEW c \in DOMAIN regs, Silence(c)
  PROVE  HeartbeatInv' /\ Steady
<1> DEFINE row == [regs[c] EXCEPT !.age = @ + 1]
<1>1. GroupsKnown /\ CallersKnown /\ FrozenKnown /\ Disposing
  BY DEF HeartbeatInv
<1>2. UNCHANGED <<bound, beat, groups, deps, frozen, run, late, foreign, passed, crashes>>
  BY DEF Silence
<1>3. /\ regs[c] \in Registration /\ regs[c].age \in Nat /\ regs[c].max \in Nat
      /\ regs[c].age < regs[c].max
  BY <1>1, CallerRow DEF Silence
<1>4. /\ row \in Registration /\ row.age = regs[c].age + 1 /\ row.max = regs[c].max
      /\ row.group = regs[c].group /\ row.status = regs[c].status /\ row.strategy = regs[c].strategy
  BY <1>3 DEF Registration
<1>5. regs' = [regs EXCEPT ![c] = row]
  BY <1>3 DEF Silence, Registration
<1> HIDE DEF row
<1>6. row.age <= row.max
  BY <1>3, <1>4
<1>7. /\ CallersKnown' /\ FrozenKnown' /\ DOMAIN regs' = DOMAIN regs
      /\ \A d \in DOMAIN regs : regs'[d] = IF d = c THEN row ELSE regs[d]
  BY <1>1, <1>2, <1>4, <1>5, <1>6, RowRewritten
<1>8. Disposing'
  <2>1. \A d \in DOMAIN regs : regs'[d].status = regs[d].status /\ regs'[d].strategy = regs[d].strategy
    BY <1>4, <1>7
  <2> SUFFICES ASSUME run.mode \in Stages PROVE Disposing'
    BY <1>2 DEF Disposing
  <2>2. run.caller \in DOMAIN regs
    BY <1>1 DEF Disposing
  <2>3. /\ regs'[run.caller].status = regs[run.caller].status
        /\ regs'[run.caller].strategy = regs[run.caller].strategy
    BY <2>1, <2>2
  <2> QED BY <1>1, <1>2, <1>7, <2>2, <2>3 DEF Disposing, HoldsNot, OpenTxs, foreign
<1>9. BoundsKept' /\ LocksKept' /\ TokensKept' /\ TxsKept' /\ GroupsKnown' /\ Thawing' /\ WorkKnown'
  BY <1>2, <1>7, Untouched DEF foreign
<1>10. Steady
  BY <1>1, <1>2, SteadyGroups
<1> QED BY <1>7, <1>8, <1>9, <1>10 DEF HeartbeatInv

(* What every step of a disposal and of a release leaves alone.              *)
LEMMA WorkGoesOn ==
  ASSUME HeartbeatInv, AllOthers, DOMAIN regs' = DOMAIN regs,
         run' \in RunRow, run'.changed = run.changed, run'.refresh = run.refresh,
         run'.rest = run.rest
  PROVE  BoundsKept' /\ GroupsKnown' /\ WorkKnown' /\ Steady
<1>1. BoundsKept' /\ GroupsKnown'
  BY Untouched DEF AllOthers
<1>2. WorkKnown'
  BY DEF HeartbeatInv, WorkKnown, AllOthers
<1>3. Steady
  BY SteadyGroups DEF HeartbeatInv, AllOthers
<1> QED BY <1>1, <1>2, <1>3

(* The stage is changed, and the list begins anew or is emptied.             *)
LEMMA StageChanges ==
  ASSUME HeartbeatInv, NEW m \in Stages, NEW todo \in SUBSET Locks, NEW n \in Nat,
         run' = [run EXCEPT !.mode = m, !.todo = todo, !.amount = n]
  PROVE  /\ run' \in RunRow /\ run'.mode = m /\ run'.todo = todo /\ run'.amount = n
         /\ run'.changed = run.changed /\ run'.refresh = run.refresh /\ run'.rest = run.rest
         /\ run'.caller = run.caller /\ run'.kept = run.kept
<1>1. run \in RunRow
  BY DEF HeartbeatInv, WorkKnown
<1>2. m \in Stages \cup {"none", "tick", "thaw"} /\ todo \in SUBSET (Locks \cup FrozenResource)
  OBVIOUS
<1> QED BY <1>1, <1>2 DEF RunRow

(* A step of a disposal keeps everything but, perhaps, the stage.            *)
LEMMA DisposedOf ==
  ASSUME HeartbeatInv, AllOthers, regs' = regs, frozen' = frozen,
         run' \in RunRow, run'.mode \in Stages,
         run'.changed = run.changed, run'.refresh = run.refresh, run'.rest = run.rest,
         LocksKept', TokensKept', TxsKept', Disposing'
  PROVE  HeartbeatInv' /\ Steady
<1>1. BoundsKept' /\ GroupsKnown' /\ WorkKnown' /\ Steady
  BY WorkGoesOn
<1>2. CallersKnown' /\ FrozenKnown'
  BY Untouched DEF AllOthers
<1>3. Thawing'
  <2>1. run'.mode # "thaw"
    BY DEF Stages
  <2> QED BY <2>1, Untouched
<1> QED BY <1>1, <1>2, <1>3 DEF HeartbeatInv

(* The work of the holder of the mutex.                                      *)
LEMMA SameRun ==
  ASSUME HeartbeatInv
  PROVE  /\ run \in RunRow /\ run.todo \in SUBSET (Locks \cup FrozenResource) /\ run.amount \in Nat
         /\ \A m, s : [run EXCEPT !.mode = m, !.todo = s] =
                        [run EXCEPT !.mode = m, !.todo = s, !.amount = run.amount]
<1>1. run \in RunRow
  BY DEF HeartbeatInv, WorkKnown
<1> QED BY <1>1 DEF RunRow

(* The locks of the caller are listed: all that it holds are on the list.    *)
LEMMA ListLeasesKeeps ==
  ASSUME HeartbeatInv, ListLeases
  PROVE  HeartbeatInv' /\ Steady
<1> DEFINE todo == ListActiveLeases(run.caller)
<1>1. /\ run.mode = "list" /\ AllOthers /\ UNCHANGED <<regs, frozen, foreign>>
      /\ run' = [run EXCEPT !.mode = "release", !.todo = todo]
  BY DEF ListLeases
<1>2. todo \in SUBSET Locks /\ \A l \in Locks : locks[l].holder = run.caller => l \in todo
  BY DEF ListActiveLeases
<1> HIDE DEF todo
<1>3. run' = [run EXCEPT !.mode = "release", !.todo = todo, !.amount = run.amount] /\ run.amount \in Nat
  BY <1>1, SameRun
<1>4. "release" \in Stages /\ run.mode \in Stages
  BY <1>1 DEF Stages
<1>5. /\ run'.mode = "release" /\ run'.todo = todo /\ run'.caller = run.caller /\ run' \in RunRow
      /\ run'.changed = run.changed /\ run'.refresh = run.refresh /\ run'.rest = run.rest
  BY <1>2, <1>3, <1>4, StageChanges
<1>6. Disposing'
  <2>1. /\ run.caller \in DOMAIN regs /\ regs[run.caller].status \in {"lost", "frozen"}
        /\ regs[run.caller].strategy # "freeze"
    BY <1>1, <1>4 DEF HeartbeatInv, Disposing
  <2> QED BY <1>1, <1>2, <1>5, <2>1 DEF Disposing, foreign
<1>7. LocksKept' /\ TokensKept' /\ TxsKept'
  BY <1>1, Untouched DEF foreign, AllOthers
<1> QED BY <1>1, <1>4, <1>5, <1>6, <1>7, DisposedOf

(* A lock that was listed is released, unless it has passed on.              *)
LEMMA ReleaseLocksKeeps ==
  ASSUME HeartbeatInv, NEW l \in Locks, ReleaseLocksOnly(l)
  PROVE  /\ HeartbeatInv' /\ Steady
         /\ \A x \in Locks : GivenUp(locks[x], locks'[x], run.caller)
<1> DEFINE c == run.caller
           new == Released(locks[l], c)
           todo == run.todo \ {l}
           kept == IF locks'[l].holder = c THEN run.kept \cup {l} ELSE run.kept
<1>1. /\ run.mode = "release" /\ AllOthers /\ UNCHANGED <<regs, frozen, used, waits, txs>>
      /\ locks' = [locks EXCEPT ![l] = new]
  BY DEF ReleaseLocksOnly, ReleaseLock
<1>2. run \in RunRow /\ LocksKept
  BY DEF HeartbeatInv, WorkKnown
<1>3. run' = [run EXCEPT !.todo = todo, !.kept = kept]
  <2>1. run' = [run EXCEPT !.todo = @ \ {l}, !.kept = IF locks'[l].holder = run.caller THEN @ \cup {l} ELSE @]
    BY DEF ReleaseLocksOnly
  <2> QED BY <1>2, <2>1 DEF RunRow
<1>4. GivenUp(locks[l], new, c)
  BY <1>2, ReleasedIs DEF LocksKept
<1> HIDE DEF new
<1>5. /\ \A x \in Locks : locks'[x] = IF x = l THEN new ELSE locks[x]
      /\ LocksKept'
  <2>1. new \in LockState
    BY <1>4 DEF GivenUp, LockOK
  <2>2. \A x \in Locks : locks'[x] = IF x = l THEN new ELSE locks[x]
    BY <1>1, <1>2 DEF LocksKept
  <2>3. locks' \in [Locks -> LockState]
    BY <1>1, <1>2, <2>1 DEF LocksKept
  <2> QED BY <1>2, <1>4, <2>2, <2>3 DEF LocksKept, GivenUp
<1>6. kept \in SUBSET (Locks \cup Callers) /\ todo \in SUBSET (Locks \cup FrozenResource)
  BY <1>2 DEF RunRow
<1> HIDE DEF kept, todo
<1>7. /\ run' \in RunRow /\ run'.mode = "release" /\ run'.todo = todo /\ run'.caller = c /\ run'.kept = kept
      /\ run'.changed = run.changed /\ run'.refresh = run.refresh /\ run'.rest = run.rest
  BY <1>1, <1>2, <1>3, <1>6 DEF RunRow
<1>8. Disposing'
  <2>1. /\ c \in DOMAIN regs /\ regs[c].status \in {"lost", "frozen"} /\ regs[c].strategy # "freeze"
        /\ run.todo \subseteq Locks
        /\ \A x \in Locks : locks[x].holder = c => x \in run.todo \cup run.kept
    BY <1>1 DEF HeartbeatInv, Disposing, Stages
  <2>2. todo \subseteq Locks /\ \A x \in Locks : locks'[x].holder = c => x \in todo \cup kept
    BY <1>5, <2>1 DEF todo, kept
  <2> HIDE DEF c
  <2> QED BY <1>1, <1>7, <2>1, <2>2 DEF Disposing
<1>9. BoundsKept' /\ GroupsKnown' /\ WorkKnown' /\ Steady
  BY <1>1, <1>7, WorkGoesOn
<1>10. CallersKnown' /\ FrozenKnown' /\ TokensKept' /\ TxsKept' /\ Thawing'
  <2>1. run'.mode # "thaw"
    BY <1>7
  <2> QED BY <1>1, <2>1, Untouched DEF AllOthers
<1>11. \A x \in Locks : GivenUp(locks[x], locks'[x], c)
  <2>1. \A x \in Locks : GivenUp(locks[x], locks[x], c)
    BY <1>2 DEF LocksKept, GivenUp
  <2> QED BY <1>4, <1>5, <2>1
<1> QED BY <1>5, <1>8, <1>9, <1>10, <1>11 DEF HeartbeatInv

(* The caller leaves the queues.                                             *)
LEMMA CancelWaitKeeps ==
  ASSUME HeartbeatInv, CancelWaitForHolder
  PROVE  /\ HeartbeatInv' /\ Steady
         /\ \A l \in Locks : /\ locks'[l].holder = locks[l].holder
                             /\ Range(locks'[l].queue) = Range(locks[l].queue) \ {run.caller}
<1> DEFINE c == run.caller
<1>1. /\ run.mode = "release" /\ run.todo = {} /\ AllOthers
      /\ UNCHANGED <<regs, frozen, used, waits, txs>>
      /\ run' = [run EXCEPT !.mode = AfterLocks, !.todo = {}]
  BY DEF CancelWaitForHolder, GoOn
<1>2. locks' = [l \in Locks |-> [locks[l] EXCEPT !.queue = Without(@, LAMBDA d : d = c)]]
  BY DEF CancelWaitForHolder
<1>3. LocksKept
  BY DEF HeartbeatInv
<1>4. ASSUME NEW l \in Locks
      PROVE  /\ LockOK(locks'[l]) /\ locks'[l].holder = locks[l].holder
             /\ Range(locks'[l].queue) = Range(locks[l].queue) \ {c}
  <2> DEFINE k == locks[l]
             x == [k EXCEPT !.queue = Without(@, LAMBDA d : d = c)]
  <2>1. LockOK(k)
    BY <1>3 DEF LocksKept
  <2>2. locks'[l] = x
    BY <1>2
  <2>3. LockOK(x) /\ x.holder = k.holder /\ Range(x.queue) = Range(k.queue) \ {c}
    BY <2>1, UnqueuedIs
  <2> HIDE DEF x
  <2> QED BY <2>2, <2>3
<1>5. LocksKept'
  <2>1. DOMAIN locks' = Locks /\ locks' = [l \in Locks |-> locks'[l]]
    BY <1>2
  <2>2. \A l \in Locks : locks'[l] \in LockState
    BY <1>4 DEF LockOK
  <2>3. locks' \in [Locks -> LockState]
    BY <2>1, <2>2
  <2> QED BY <1>4, <2>3 DEF LocksKept
<1>6. AfterLocks \in {"tokens", "disposed"} /\ AfterLocks \in Stages /\ run.mode \in Stages
  BY <1>1 DEF AfterLocks, Stages
<1>7. run' = [run EXCEPT !.mode = AfterLocks, !.todo = {}, !.amount = run.amount] /\ run.amount \in Nat
  BY <1>1, SameRun
<1>8. /\ run'.mode = AfterLocks /\ run'.caller = c /\ run'.kept = run.kept /\ run' \in RunRow
      /\ run'.changed = run.changed /\ run'.refresh = run.refresh /\ run'.rest = run.rest
  BY <1>6, <1>7, StageChanges
<1>9. Disposing'
  <2>1. /\ c \in DOMAIN regs /\ regs[c].status \in {"lost", "frozen"} /\ regs[c].strategy # "freeze"
        /\ \A x \in Locks : locks[x].holder = c => x \in run.kept
    BY <1>1 DEF HeartbeatInv, Disposing, Stages
  <2>2. \A l \in Locks \ run.kept : locks'[l].holder # c /\ c \notin Range(locks'[l].queue)
    BY <1>4, <2>1
  <2>3. /\ run'.mode = "tokens" => regs[c].strategy = "release_all"
        /\ run'.mode = "disposed" => regs[c].strategy # "release_all"
    BY <1>8 DEF AfterLocks
  <2> HIDE DEF c
  <2>4. \A l \in Locks \ run.kept : HoldsNot(l)'
    BY <1>8, <2>2 DEF HoldsNot, c
  <2> QED BY <1>1, <1>6, <1>8, <2>1, <2>3, <2>4 DEF Disposing
<1>10. TokensKept' /\ TxsKept'
  BY <1>1, Untouched DEF AllOthers
<1>11. HeartbeatInv' /\ Steady
  BY <1>1, <1>5, <1>6, <1>8, <1>9, <1>10, DisposedOf
<1> QED BY <1>4, <1>11

(* Who does not hold a lock, and does not wait, gets it from nobody.         *)
LEMMA StaysOut ==
  ASSUME NEW k, NEW x, NEW c, GivenUp(k, x, c), NEW d \in Callers,
         k.holder # d, d \notin Range(k.queue)
  PROVE  x.holder # d /\ d \notin Range(x.queue)
BY HeartbeatAssumption DEF GivenUp, HeartbeatAssumption

(* What the release of a transaction gives up.                               *)
LEMMA TxIsReleased ==
  ASSUME HeartbeatInv, NEW t \in DOMAIN txs, NEW c, ReleaseTx(t, c)
  PROVE  /\ LocksKept' /\ TxsKept' /\ TxLocks[t] \subseteq Locks
         /\ \A l \in Locks : GivenUp(locks[l], locks'[l], c)
         /\ \A l \in Locks \ TxLocks[t] : locks'[l] = locks[l]
         /\ \A d : OpenTxs(d)' \subseteq OpenTxs(d)
<1>1. LocksKept /\ TxsKept
  BY DEF HeartbeatInv
<1>2. /\ txs' = [x \in DOMAIN txs \ {t} |-> txs[x]]
      /\ locks' = [l \in Locks |-> IF l \in TxLocks[t] THEN Released(locks[l], c) ELSE locks[l]]
  BY DEF ReleaseTx
<1>3. \A l \in Locks : GivenUp(locks[l], locks'[l], c)
  <2> SUFFICES ASSUME NEW l \in Locks PROVE GivenUp(locks[l], locks'[l], c)
    OBVIOUS
  <2>1. LockOK(locks[l])
    BY <1>1 DEF LocksKept
  <2>2. CASE l \in TxLocks[t]
    BY <1>2, <2>1, <2>2, ReleasedIs
  <2>3. CASE l \notin TxLocks[t]
    BY <1>2, <2>1, <2>3 DEF GivenUp
  <2> QED BY <2>2, <2>3
<1>4. LocksKept'
  <2>1. DOMAIN locks' = Locks /\ locks' = [l \in Locks |-> locks'[l]]
    BY <1>2
  <2>2. \A l \in Locks : LockOK(locks'[l]) /\ locks'[l] \in LockState
    BY <1>3 DEF GivenUp, LockOK
  <2>3. locks' \in [Locks -> LockState]
    BY <2>1, <2>2
  <2> QED BY <2>2, <2>3 DEF LocksKept
<1>5. TxsKept'
  BY <1>1, <1>2 DEF TxsKept
<1>6. TxLocks[t] \subseteq Locks
  BY <1>1, HeartbeatAssumption DEF TxsKept, HeartbeatAssumption
<1>7. \A d : OpenTxs(d)' \subseteq OpenTxs(d)
  BY <1>2 DEF OpenTxs
<1>8. \A l \in Locks \ TxLocks[t] : locks'[l] = locks[l]
  BY <1>2
<1> QED BY <1>3, <1>4, <1>5, <1>6, <1>7, <1>8

(* Returning as much as is used, or more, leaves none in use.                *)
LEMMA TokensAreReturned ==
  ASSUME HeartbeatInv, NEW c \in Callers, NEW n \in Nat, used' = ReturnTokens(used, c, n)
  PROVE  /\ used' \in [Callers -> 0..bound.tokens]
         /\ used[c] <= n => used'[c] = 0
         /\ \A d \in Callers : used'[d] <= used[d]
<1>1. bound.tokens \in Nat
  BY BoundsAre DEF HeartbeatInv
<1>2. used \in [Callers -> 0..bound.tokens]
  BY DEF HeartbeatInv, TokensKept
<1> DEFINE m == IF n > used[c] THEN 0 ELSE used[c] - n
<1>3. used[c] \in 0..bound.tokens
  BY <1>2
<1>4. m \in 0..bound.tokens /\ (used[c] <= n => m = 0) /\ m <= used[c]
  BY <1>1, <1>3
<1>5. used' = [used EXCEPT ![c] = m]
  BY <1>2 DEF ReturnTokens
<1> HIDE DEF m
<1>6. \A d \in Callers : used[d] \in 0..bound.tokens
  BY <1>2
<1>7. \A d \in Callers : used[d] <= used[d]
  BY <1>1, <1>6
<1> QED BY <1>2, <1>4, <1>5, <1>7

(* What the caller uses is read.                                             *)
LEMMA ReadBindingKeeps ==
  ASSUME HeartbeatInv, ReadBinding
  PROVE  HeartbeatInv' /\ Steady
<1> DEFINE c == run.caller
           n == used[c]
<1>1. /\ run.mode = "tokens" /\ AllOthers /\ UNCHANGED <<regs, frozen, foreign>>
      /\ run' = [run EXCEPT !.mode = "return", !.amount = n]
  BY DEF ReadBinding
<1>2. /\ c \in DOMAIN regs /\ regs[c].status \in {"lost", "frozen"} /\ regs[c].strategy = "release_all"
      /\ \A l \in Locks \ run.kept : HoldsNot(l)
  BY <1>1 DEF HeartbeatInv, Disposing, Stages
<1>3. run \in RunRow /\ c \in Callers
  BY <1>2 DEF HeartbeatInv, WorkKnown, CallersKnown
<1>4. n \in Nat /\ n <= n
  <2>1. bound.tokens \in Nat /\ n \in 0..bound.tokens
    BY <1>3, BoundsAre DEF HeartbeatInv, TokensKept
  <2> HIDE DEF n
  <2> QED BY <2>1
<1> HIDE DEF n
<1>5. /\ run' \in RunRow /\ run'.mode = "return" /\ run'.amount = n /\ run'.caller = c
      /\ run'.kept = run.kept /\ "return" \in Stages
      /\ run'.changed = run.changed /\ run'.refresh = run.refresh /\ run'.rest = run.rest
  BY <1>1, <1>3, <1>4 DEF RunRow, Stages
<1>6. Disposing'
  <2>1. \A l \in Locks \ run'.kept : HoldsNot(l)'
    BY <1>1, <1>2, <1>5 DEF HoldsNot, foreign
  <2>2. used'[run'.caller] <= run'.amount
    BY <1>1, <1>4, <1>5 DEF n, foreign
  <2>3. regs' = regs
    BY <1>1
  <2> QED BY <1>2, <1>5, <2>1, <2>2, <2>3 DEF Disposing
<1>7. LocksKept' /\ TokensKept' /\ TxsKept' /\ regs' = regs /\ frozen' = frozen
  BY <1>1, Untouched DEF foreign, AllOthers
<1> QED BY <1>1, <1>5, <1>6, <1>7, DisposedOf

(* What was read is given back.                                              *)
LEMMA ReturnAllTokensKeeps ==
  ASSUME HeartbeatInv, ReturnAllTokens
  PROVE  HeartbeatInv' /\ Steady
<1> DEFINE c == run.caller
<1>1. /\ run.mode = "return" /\ AllOthers /\ UNCHANGED <<regs, frozen, locks, txs>>
      /\ run' = [run EXCEPT !.mode = "txs", !.amount = 0]
      /\ used' = ReturnTokens(used, c, run.amount) /\ waits' = waits \ {c}
  BY DEF ReturnAllTokens
<1>2. /\ c \in DOMAIN regs /\ regs[c].status \in {"lost", "frozen"} /\ regs[c].strategy = "release_all"
      /\ \A l \in Locks \ run.kept : HoldsNot(l)
      /\ c \in run.kept \/ used[c] <= run.amount
  BY <1>1 DEF HeartbeatInv, Disposing, Stages
<1>3. run \in RunRow /\ c \in Callers /\ run.amount \in Nat
  BY <1>2, SameRun DEF HeartbeatInv, CallersKnown
<1>4. used' \in [Callers -> 0..bound.tokens] /\ (used[c] <= run.amount => used'[c] = 0)
  BY <1>1, <1>3, TokensAreReturned
<1>5. /\ run' \in RunRow /\ run'.mode = "txs" /\ run'.caller = c
      /\ run'.kept = run.kept /\ "txs" \in Stages
      /\ run'.changed = run.changed /\ run'.refresh = run.refresh /\ run'.rest = run.rest
  BY <1>1, <1>3 DEF RunRow, Stages
<1>6. Disposing'
  <2>1. \A l \in Locks \ run'.kept : HoldsNot(l)'
    BY <1>1, <1>2, <1>5 DEF HoldsNot
  <2>2. run'.caller \in run'.kept \/ used'[run'.caller] = 0
    BY <1>2, <1>4, <1>5
  <2>3. regs' = regs
    BY <1>1
  <2> QED BY <1>2, <1>5, <2>1, <2>2, <2>3 DEF Disposing
<1>7. TokensKept'
  BY <1>1, <1>4 DEF TokensKept, AllOthers, HeartbeatInv
<1>8. LocksKept' /\ TxsKept' /\ regs' = regs /\ frozen' = frozen
  BY <1>1, Untouched
<1> QED BY <1>1, <1>5, <1>6, <1>7, <1>8, DisposedOf

(* The transactions of the caller are cancelled one by one.                  *)
LEMMA CancelTxsKeeps ==
  ASSUME HeartbeatInv, CancelOrchestrationTxs
  PROVE  /\ HeartbeatInv' /\ Steady
         /\ UNCHANGED locks \/ \A l \in Locks : GivenUp(locks[l], locks'[l], run.caller)
<1> DEFINE c == run.caller
<1>1. run.mode = "txs" /\ AllOthers /\ UNCHANGED <<regs, frozen>>
  BY DEF CancelOrchestrationTxs
<1>2. /\ c \in DOMAIN regs /\ regs[c].status \in {"lost", "frozen"} /\ regs[c].strategy = "release_all"
      /\ \A l \in Locks \ run.kept : HoldsNot(l)
      /\ c \in run.kept \/ used[c] = 0
  BY <1>1 DEF HeartbeatInv, Disposing, Stages
<1>3. run \in RunRow /\ c \in Callers
  BY <1>2 DEF HeartbeatInv, WorkKnown, CallersKnown
<1>4. ASSUME NEW t \in OpenTxs(c), ReleaseTx(t, c), UNCHANGED <<used, waits>>,
             run' = [run EXCEPT !.kept = @ \cup {l \in TxLocks[t] : locks'[l].holder = c}]
      PROVE  HeartbeatInv' /\ Steady /\ \A l \in Locks : GivenUp(locks[l], locks'[l], c)
  <2> DEFINE kept == run.kept \cup {l \in TxLocks[t] : locks'[l].holder = c}
  <2>1. /\ LocksKept' /\ TxsKept' /\ TxLocks[t] \subseteq Locks
        /\ \A l \in Locks : GivenUp(locks[l], locks'[l], c)
    BY <1>4, TxIsReleased DEF OpenTxs
  <2>2. run' = [run EXCEPT !.kept = kept] /\ kept \in SUBSET (Locks \cup Callers) /\ run.kept \subseteq kept
    BY <1>3, <1>4, <2>1 DEF RunRow
  <2> HIDE DEF kept
  <2>3. /\ run' \in RunRow /\ run'.mode = "txs" /\ run'.caller = c
        /\ run'.kept = kept /\ "txs" \in Stages
        /\ run'.changed = run.changed /\ run'.refresh = run.refresh /\ run'.rest = run.rest
    BY <1>1, <1>3, <2>2 DEF RunRow, Stages
  <2>4. Disposing'
    <3>1. \A l \in Locks \ run'.kept : HoldsNot(l)'
      <4> SUFFICES ASSUME NEW l \in Locks, l \notin kept PROVE HoldsNot(l)'
        BY <2>3
      <4>1. locks[l].holder # c /\ c \notin Range(locks[l].queue)
        BY <1>2, <2>2 DEF HoldsNot
      <4>2. locks'[l].holder # c /\ c \notin Range(locks'[l].queue)
        BY <1>3, <2>1, <4>1, StaysOut
      <4> QED BY <2>3, <4>2 DEF HoldsNot
    <3>2. run'.caller \in run'.kept \/ used'[run'.caller] = 0
      BY <1>2, <1>4, <2>2, <2>3
    <3>3. regs' = regs
      BY <1>1
    <3> QED BY <1>2, <2>3, <3>1, <3>2, <3>3 DEF Disposing
  <2>5. TokensKept' /\ regs' = regs /\ frozen' = frozen
    BY <1>1, <1>4, Untouched DEF AllOthers
  <2>6. HeartbeatInv' /\ Steady
    BY <1>1, <2>1, <2>3, <2>4, <2>5, DisposedOf
  <2> QED BY <2>1, <2>6
<1>5. ASSUME OpenTxs(c) = {}, GoOn("disposed"), UNCHANGED foreign
      PROVE  HeartbeatInv' /\ Steady /\ UNCHANGED locks
  <2>1. /\ run' \in RunRow /\ run'.mode = "disposed" /\ run'.caller = c
        /\ run'.kept = run.kept /\ "disposed" \in Stages
        /\ run'.changed = run.changed /\ run'.refresh = run.refresh /\ run'.rest = run.rest
    BY <1>3, <1>5 DEF RunRow, Stages, GoOn
  <2>2. Disposing'
    <3>1. \A l \in Locks \ run'.kept : HoldsNot(l)'
      BY <1>2, <1>5, <2>1 DEF HoldsNot, foreign
    <3>2. run'.caller \in run'.kept \/ used'[run'.caller] = 0
      BY <1>2, <1>5, <2>1 DEF foreign
    <3>3. regs' = regs /\ OpenTxs(run.caller)' = {}
      BY <1>1, <1>5, <2>1 DEF foreign, OpenTxs
    <3> QED BY <1>2, <2>1, <3>1, <3>2, <3>3 DEF Disposing
  <2>3. LocksKept' /\ TokensKept' /\ TxsKept' /\ regs' = regs /\ frozen' = frozen /\ UNCHANGED locks
    BY <1>1, <1>5, Untouched DEF foreign, AllOthers
  <2> QED BY <1>1, <2>1, <2>2, <2>3, DisposedOf
<1> QED BY <1>4, <1>5 DEF CancelOrchestrationTxs

(* The caller is frozen first, then what it has is written down.             *)
LEMMA FreezeCallerKeeps ==
  ASSUME HeartbeatInv, FreezeCaller
  PROVE  HeartbeatInv' /\ Steady
<1> DEFINE c == run.caller
           row == [regs[c] EXCEPT !.status = "frozen"]
<1>1. /\ run.mode = "freeze" /\ AllOthers /\ UNCHANGED <<frozen, foreign>>
      /\ GoOn("rows") /\ regs' = [regs EXCEPT ![c].status = "frozen"]
  BY DEF FreezeCaller
<1>2. c \in DOMAIN regs /\ regs[c].strategy = "freeze"
  BY <1>1 DEF HeartbeatInv, Disposing, Stages
<1>3. run \in RunRow /\ CallersKnown /\ FrozenKnown
  BY DEF HeartbeatInv, WorkKnown
<1>4. /\ row \in Registration /\ row.age <= row.max /\ row.group = regs[c].group
      /\ row.status = "frozen" /\ row.strategy = "freeze"
  <2>1. regs[c] \in Registration /\ regs[c].age <= regs[c].max
    BY <1>2, <1>3, CallerRow
  <2>2. /\ row \in Registration /\ row.age = regs[c].age /\ row.max = regs[c].max
        /\ row.group = regs[c].group /\ row.status = "frozen" /\ row.strategy = regs[c].strategy
    BY <2>1 DEF Registration, Statuses
  <2> HIDE DEF row
  <2> QED BY <1>2, <2>1, <2>2
<1>5. regs' = [regs EXCEPT ![c] = row]
  BY <1>1
<1> HIDE DEF row
<1>6. /\ CallersKnown' /\ FrozenKnown' /\ DOMAIN regs' = DOMAIN regs /\ regs'[c] = row
  BY <1>1, <1>2, <1>3, <1>4, <1>5, RowRewritten DEF AllOthers
<1>7. /\ run' \in RunRow /\ run'.mode = "rows" /\ run'.caller = c /\ "rows" \in Stages
      /\ run'.changed = run.changed /\ run'.refresh = run.refresh /\ run'.rest = run.rest
  BY <1>1, <1>3 DEF RunRow, Stages, GoOn
<1>8. Disposing'
  BY <1>2, <1>4, <1>6, <1>7 DEF Disposing
<1>9. BoundsKept' /\ GroupsKnown' /\ WorkKnown' /\ Steady
  BY <1>1, <1>6, <1>7, WorkGoesOn
<1>10. LocksKept' /\ TokensKept' /\ TxsKept' /\ Thawing'
  BY <1>1, <1>7, Untouched DEF foreign, AllOthers
<1> QED BY <1>6, <1>8, <1>9, <1>10 DEF HeartbeatInv

(* What the caller has is written down; the caller is frozen already.        *)
LEMMA FreezeResourcesKeeps ==
  ASSUME HeartbeatInv, FreezeResources
  PROVE  HeartbeatInv' /\ Steady
<1> DEFINE c == run.caller
           new == Resource(c, "lock", ListActiveLeases(c))
                    \cup Resource(c, "tokens", {x \in {c} : used[x] > 0})
                    \cup Resource(c, "orchestration_tx", OpenTxs(c))
<1>1. /\ run.mode = "rows" /\ AllOthers /\ UNCHANGED <<regs, foreign>>
      /\ GoOn("disposed") /\ frozen' = frozen \cup new
  BY DEF FreezeResources
<1>2. /\ c \in DOMAIN regs /\ regs[c].strategy = "freeze" /\ regs[c].status = "frozen"
  BY <1>1 DEF HeartbeatInv, Disposing, Stages
<1>3. run \in RunRow /\ FrozenKnown /\ c \in Callers /\ DOMAIN txs \subseteq Txs
  BY <1>2 DEF HeartbeatInv, WorkKnown, CallersKnown, TxsKept
<1>4. new \subseteq FrozenResource /\ \A row \in new : row.caller = c
  <2>1. ListActiveLeases(c) \subseteq Locks /\ OpenTxs(c) \subseteq Txs
    BY <1>3 DEF ListActiveLeases, OpenTxs
  <2> QED BY <1>3, <2>1 DEF Resource, FrozenResource
<1> HIDE DEF new
<1>5. FrozenKnown'
  BY <1>1, <1>2, <1>3, <1>4 DEF FrozenKnown
<1>6. /\ run' \in RunRow /\ run'.mode = "disposed" /\ run'.caller = c /\ "disposed" \in Stages
      /\ run'.changed = run.changed /\ run'.refresh = run.refresh /\ run'.rest = run.rest
  BY <1>1, <1>3 DEF RunRow, Stages, GoOn
<1>7. Disposing'
  <2>1. regs' = regs
    BY <1>1
  <2> QED BY <1>2, <1>6, <2>1 DEF Disposing
<1>8. BoundsKept' /\ GroupsKnown' /\ WorkKnown' /\ Steady
  BY <1>1, <1>6, WorkGoesOn
<1>9. CallersKnown' /\ LocksKept' /\ TokensKept' /\ TxsKept' /\ Thawing'
  BY <1>1, <1>6, Untouched DEF foreign, AllOthers
<1> QED BY <1>5, <1>7, <1>8, <1>9 DEF HeartbeatInv

(* The disposal is over: the group is updated, and the check goes on.        *)
LEMMA ConnectionLostKeeps ==
  ASSUME HeartbeatInv, HandleConnectionLost
  PROVE  HeartbeatInv' /\ Steady
<1> DEFINE D == DOMAIN groups
<1>1. GroupsKnown /\ CallersKnown /\ WorkKnown
  BY DEF HeartbeatInv
<1>2. /\ run' = [run EXCEPT !.mode = "tick", !.caller = Nobody, !.kept = {}]
      /\ UNCHANGED <<bound, beat, regs, deps, frozen, late, foreign, passed, crashes>>
  BY DEF HandleConnectionLost
<1>3. Steady
  <2>1. groups \in Tables(D) /\ deps \in Seq(D \X D) /\ IsFiniteSet(DOMAIN regs)
    BY <1>1 DEF GroupsKnown, CallersKnown
  <2> QED BY <1>2, <2>1, HealthFollows DEF Steady, HandleConnectionLost
<1>4. GroupsKnown' /\ DOMAIN groups' = D
  BY <1>1, <1>3, SteadyGroups
<1>5. /\ run' \in RunRow /\ run'.mode = "tick" /\ run'.rest = run.rest
      /\ run'.changed = run.changed /\ run'.refresh = run.refresh
  BY <1>1, <1>2 DEF RunRow, WorkKnown
<1>6. WorkKnown'
  BY <1>1, <1>2, <1>5 DEF WorkKnown
<1>7. Disposing' /\ Thawing'
  BY <1>5, NoRunIs, Untouched
<1>8. BoundsKept' /\ LocksKept' /\ TokensKept' /\ TxsKept' /\ CallersKnown' /\ FrozenKnown'
  BY <1>2, <1>4, Untouched DEF foreign
<1> QED BY <1>3, <1>4, <1>6, <1>7, <1>8 DEF HeartbeatInv

(***************************** letting go again *****************************)

(* An operator begins to let go of frozen resources.                         *)
LEMMA ThawBegins ==
  ASSUME HeartbeatInv,
         \/ \E row \in frozen : ReleaseFrozenResource(row)
         \/ \E c \in DOMAIN regs : ReleaseAllFrozenResources(c)
  PROVE  HeartbeatInv' /\ Steady
<1>1. /\ UNCHANGED <<bound, beat, own, late, foreign, passed, crashes>>
      /\ frozen \subseteq FrozenResource /\ DOMAIN regs \subseteq Callers /\ late \subseteq DOMAIN regs
      /\ \A row \in frozen : row.caller \in Callers
  BY DEF HeartbeatInv, FrozenKnown, CallersKnown, WorkKnown, ReleaseFrozenResource,
         ReleaseAllFrozenResources
<1>2. NoRun \in RunRow /\ NoRun.all = FALSE
  BY NoRunIs DEF NoRun
<1>3. /\ run' \in RunRow /\ run'.mode = "thaw" /\ run'.todo \subseteq frozen
      /\ \A row \in run'.todo : row.caller = run'.caller
      /\ run'.all => run'.todo = {row \in frozen : row.caller = run'.caller}
      /\ run'.rest = {} /\ run'.changed = {} /\ run'.refresh = {}
  <2>1. CASE \E row \in frozen : ReleaseFrozenResource(row)
    <3>1. PICK row \in frozen : ReleaseFrozenResource(row)
      BY <2>1
    <3>2. run' = [NoRun EXCEPT !.mode = "thaw", !.caller = row.caller, !.todo = {row}]
      BY <3>1 DEF ReleaseFrozenResource
    <3>3. {row} \in SUBSET (Locks \cup FrozenResource) /\ row.caller \in Callers
      BY <1>1
    <3>4. /\ run' \in RunRow /\ run'.mode = "thaw" /\ run'.caller = row.caller /\ run'.todo = {row}
          /\ run'.all = FALSE
      BY <1>2, <3>2, <3>3 DEF RunRow
    <3>5. run'.rest = {} /\ run'.changed = {} /\ run'.refresh = {}
      BY <1>2, <3>2, NoRunIs DEF RunRow
    <3> QED BY <3>4, <3>5
  <2>2. CASE \E c \in DOMAIN regs : ReleaseAllFrozenResources(c)
    <3>1. PICK c \in DOMAIN regs : ReleaseAllFrozenResources(c)
      BY <2>2
    <3> DEFINE todo == {row \in frozen : row.caller = c}
    <3>2. run' = [NoRun EXCEPT !.mode = "thaw", !.caller = c, !.all = TRUE, !.todo = todo]
      BY <3>1 DEF ReleaseAllFrozenResources
    <3>3. c \in Callers /\ todo \in SUBSET (Locks \cup FrozenResource)
      BY <1>1
    <3>4. todo \subseteq frozen /\ \A row \in todo : row.caller = c
      OBVIOUS
    <3>5. /\ run' \in RunRow /\ run'.mode = "thaw" /\ run'.caller = c /\ run'.todo = todo
      <4> HIDE DEF todo
      <4> QED BY <1>2, <3>2, <3>3 DEF RunRow
    <3>6. run'.rest = {} /\ run'.changed = {} /\ run'.refresh = {}
      <4> HIDE DEF todo
      <4> QED BY <1>2, <3>2, NoRunIs DEF RunRow
    <3> QED BY <3>4, <3>5, <3>6
  <2> QED BY <2>1, <2>2
<1>4. Thawing'
  BY <1>1, <1>2, <1>3 DEF Thawing, own
<1>5. WorkKnown'
  BY <1>1, <1>3, FS_EmptySet DEF WorkKnown, own
<1>6. /\ BoundsKept' /\ LocksKept' /\ TokensKept' /\ TxsKept' /\ GroupsKnown' /\ CallersKnown'
      /\ FrozenKnown' /\ Disposing'
  BY <1>1, <1>3, NoRunIs, Untouched DEF own, foreign
<1>7. Steady
  BY <1>1, SteadyGroups DEF HeartbeatInv, own
<1> QED BY <1>4, <1>5, <1>6, <1>7 DEF HeartbeatInv

(* One of them is let go of; the lock may long be another's.                 *)
LEMMA ThawNextKeeps ==
  ASSUME HeartbeatInv, NEW row \in frozen, ThawNext(row)
  PROVE  /\ HeartbeatInv' /\ Steady
         /\ row.caller = run.caller /\ regs[run.caller].status = "frozen"
         /\ UNCHANGED locks \/ \A l \in Locks : GivenUp(locks[l], locks'[l], run.caller)
<1> DEFINE c == row.caller
           todo == run.todo \ {row}
<1>1. /\ run.mode = "thaw" /\ row \in run.todo /\ frozen' = frozen \ {row}
      /\ AllOthers /\ regs' = regs
  BY DEF ThawNext
<1>2. run \in RunRow /\ FrozenKnown /\ LocksKept /\ TxsKept
  BY DEF HeartbeatInv, WorkKnown
<1>3. /\ c = run.caller /\ regs[c].status = "frozen" /\ c \in Callers
      /\ \A x \in run.todo : x \in FrozenResource /\ x.caller = c
      /\ run.all => \A x \in frozen : x.caller = c => x \in run.todo
  <2>1. \A x \in run.todo : x \in FrozenResource /\ x.caller = run.caller
    BY <1>1 DEF HeartbeatInv, Thawing
  <2>2. run.all => \A x \in frozen : x.caller = run.caller => x \in run.todo
    BY <1>1 DEF HeartbeatInv, Thawing
  <2> QED BY <1>1, <1>2, <2>1, <2>2 DEF FrozenKnown, FrozenResource
<1>4. run' = [run EXCEPT !.todo = todo] /\ todo \in SUBSET (Locks \cup FrozenResource)
  BY <1>2 DEF ThawNext, RunRow
<1>5. /\ run' \in RunRow /\ run'.mode = "thaw" /\ run'.caller = c /\ run'.todo = todo
      /\ run'.all = run.all
      /\ run'.changed = run.changed /\ run'.refresh = run.refresh /\ run'.rest = run.rest
  <2> HIDE DEF todo, c
  <2> QED BY <1>1, <1>2, <1>3, <1>4 DEF RunRow
<1>6. Thawing'
  BY <1>1, <1>3, <1>5 DEF Thawing
<1>7. FrozenKnown'
  BY <1>1, <1>2 DEF FrozenKnown
<1>8. ASSUME ReleaseLock(row.key, c), UNCHANGED <<used, waits, txs>>
      PROVE  LocksKept' /\ TokensKept' /\ TxsKept' /\ \A l \in Locks : GivenUp(locks[l], locks'[l], c)
  <2> DEFINE k == row.key
  <2>1. locks' = [locks EXCEPT ![k] = Released(locks[k], c)]
    BY <1>8 DEF ReleaseLock
  <2>2. \A l \in Locks : GivenUp(locks[l], locks'[l], c)
    <3> SUFFICES ASSUME NEW l \in Locks PROVE GivenUp(locks[l], locks'[l], c)
      OBVIOUS
    <3>1. LockOK(locks[l])
      BY <1>2 DEF LocksKept
    <3>2. CASE l = k
      <4>1. locks'[l] = Released(locks[l], c)
        BY <1>2, <2>1, <3>2 DEF LocksKept
      <4> QED BY <3>1, <4>1, ReleasedIs
    <3>3. CASE l # k
      <4>1. locks'[l] = locks[l]
        BY <1>2, <2>1, <3>3 DEF LocksKept
      <4> QED BY <3>1, <4>1 DEF GivenUp
    <3> QED BY <3>2, <3>3
  <2>3. DOMAIN locks' = Locks /\ locks' = [l \in Locks |-> locks'[l]]
    BY <1>2, <2>1 DEF LocksKept
  <2>4. \A l \in Locks : LockOK(locks'[l]) /\ locks'[l] \in LockState
    BY <2>2 DEF GivenUp, LockOK
  <2>5. LocksKept'
    <3>1. locks' \in [Locks -> LockState]
      BY <2>3, <2>4
    <3> QED BY <2>4, <3>1 DEF LocksKept
  <2>6. TokensKept' /\ TxsKept'
    BY <1>1, <1>8, Untouched DEF AllOthers
  <2> QED BY <2>2, <2>5, <2>6
<1>9. ASSUME used' = ReturnTokens(used, c, used[c]), UNCHANGED <<locks, waits, txs>>
      PROVE  LocksKept' /\ TokensKept' /\ TxsKept' /\ UNCHANGED locks
  <2>1. used[c] \in Nat
    <3>1. bound.tokens \in Nat /\ used[c] \in 0..bound.tokens
      BY <1>3, BoundsAre DEF HeartbeatInv, TokensKept
    <3> QED BY <3>1
  <2>2. used' \in [Callers -> 0..bound.tokens]
    BY <1>3, <1>9, <2>1, TokensAreReturned
  <2>3. TokensKept'
    BY <1>1, <1>9, <2>2 DEF TokensKept, AllOthers, HeartbeatInv
  <2> QED BY <1>9, <2>3, Untouched
<1>10. ASSUME IF row.key \in OpenTxs(c) THEN ReleaseTx(row.key, c) ELSE UNCHANGED <<locks, txs>>,
              UNCHANGED <<used, waits>>
       PROVE  /\ LocksKept' /\ TokensKept' /\ TxsKept'
              /\ UNCHANGED locks \/ \A l \in Locks : GivenUp(locks[l], locks'[l], c)
  <2>1. TokensKept'
    BY <1>1, <1>10, Untouched DEF AllOthers
  <2>2. CASE row.key \in OpenTxs(c)
    <3>1. row.key \in DOMAIN txs /\ ReleaseTx(row.key, c)
      BY <1>10, <2>2 DEF OpenTxs
    <3> QED BY <2>1, <3>1, TxIsReleased
  <2>3. CASE row.key \notin OpenTxs(c)
    BY <1>10, <2>1, <2>3, Untouched
  <2> QED BY <2>2, <2>3
<1>11. /\ LocksKept' /\ TokensKept' /\ TxsKept'
       /\ UNCHANGED locks \/ \A l \in Locks : GivenUp(locks[l], locks'[l], c)
  BY <1>8, <1>9, <1>10 DEF ThawNext
<1>12. BoundsKept' /\ GroupsKnown' /\ WorkKnown' /\ Steady
  BY <1>1, <1>5, WorkGoesOn
<1>13. CallersKnown' /\ Disposing'
  BY <1>1, <1>5, NoRunIs, Untouched DEF AllOthers
<1> QED BY <1>3, <1>6, <1>7, <1>11, <1>12, <1>13 DEF HeartbeatInv

(* The caller has recovered when nothing of it is frozen any more.           *)
LEMMA ThawDoneKeeps ==
  ASSUME HeartbeatInv, ThawDone
  PROVE  HeartbeatInv' /\ Steady
<1> DEFINE c == run.caller
<1>1. /\ run.mode = "thaw" /\ run.todo = {} /\ run' = NoRun /\ AllOthers /\ UNCHANGED <<frozen, foreign>>
      /\ regs' = [d \in DOMAIN regs |->
                    IF d = c /\ (run.all \/ \A row \in frozen : row.caller /= d)
                    THEN [regs[d] EXCEPT !.status = "recovered"] ELSE regs[d]]
  BY DEF ThawDone
<1>2. CallersKnown /\ FrozenKnown
  BY DEF HeartbeatInv
<1>3. run.all => \A row \in frozen : row.caller # c
  BY <1>1 DEF HeartbeatInv, Thawing
<1>4. ASSUME NEW d \in DOMAIN regs
      PROVE  /\ regs'[d] \in Registration /\ regs'[d].age <= regs'[d].max /\ regs'[d].group = regs[d].group
             /\ \A row \in frozen : row.caller = d => regs'[d] = regs[d]
  <2>1. regs[d] \in Registration /\ regs[d].age <= regs[d].max
    BY <1>2, CallerRow
  <2> DEFINE new == [regs[d] EXCEPT !.status = "recovered"]
  <2>2. /\ new \in Registration /\ new.age = regs[d].age /\ new.max = regs[d].max
        /\ new.group = regs[d].group
    BY <2>1 DEF Registration, Statuses
  <2>3. regs'[d] = IF d = c /\ (run.all \/ \A row \in frozen : row.caller /= d) THEN new ELSE regs[d]
    BY <1>1
  <2> HIDE DEF new
  <2> QED BY <1>3, <2>1, <2>2, <2>3
<1>5. DOMAIN regs' = DOMAIN regs /\ regs' = [d \in DOMAIN regs |-> regs'[d]]
  BY <1>1
<1>6. regs' \in [DOMAIN regs' -> Registration]
  BY <1>4, <1>5
<1>7. CallersKnown'
  BY <1>1, <1>2, <1>4, <1>5, <1>6 DEF CallersKnown, AllOthers
<1>8. FrozenKnown'
  <2>1. ASSUME NEW row \in frozen
        PROVE  row.caller \in DOMAIN regs' /\ regs'[row.caller].status = "frozen"
    <3>1. row.caller \in DOMAIN regs /\ regs[row.caller].status = "frozen"
      BY <1>2 DEF FrozenKnown
    <3>2. regs'[row.caller] = regs[row.caller]
      BY <1>4, <3>1
    <3> QED BY <1>5, <3>1, <3>2
  <2>2. frozen' = frozen /\ frozen \subseteq FrozenResource
    BY <1>1, <1>2 DEF FrozenKnown
  <2> QED BY <2>1, <2>2 DEF FrozenKnown
<1>9. WorkKnown'
  BY <1>1, <1>5, NoRunIs DEF WorkKnown, HeartbeatInv, AllOthers
<1>10. BoundsKept' /\ LocksKept' /\ TokensKept' /\ TxsKept' /\ GroupsKnown' /\ Disposing' /\ Thawing'
  BY <1>1, NoRunIs, Untouched DEF AllOthers, foreign
<1>11. Steady
  BY <1>1, SteadyGroups DEF HeartbeatInv, AllOthers
<1> QED BY <1>7, <1>8, <1>9, <1>10, <1>11 DEF HeartbeatInv

(****************************** other requests ******************************)

(* Between two calls of the holder of the mutex its work stays as it is, but *)
(* what the caller got is remembered.                                        *)
LEMMA MeanwhileIs ==
  ASSUME HeartbeatInv, NEW gained \in SUBSET (Locks \cup Callers), Meanwhile(gained),
         passed' \subseteq passed
  PROVE  /\ BoundsKept' /\ GroupsKnown' /\ CallersKnown' /\ FrozenKnown' /\ WorkKnown' /\ Thawing'
         /\ Steady /\ UNCHANGED <<bound, regs>>
         /\ run'.mode = run.mode /\ run'.todo = run.todo /\ run'.caller = run.caller
         /\ run'.amount = run.amount
         /\ run.mode \in Stages => run'.kept = run.kept \cup gained
<1>1. /\ UNCHANGED <<bound, beat, own, late, crashes>>
      /\ run' = IF run.mode \in {"none", "tick"} THEN run ELSE [run EXCEPT !.kept = @ \cup gained]
  BY DEF Meanwhile
<1>2. run \in RunRow
  BY DEF HeartbeatInv, WorkKnown
<1>3. /\ run' \in RunRow /\ run'.mode = run.mode /\ run'.todo = run.todo /\ run'.caller = run.caller
      /\ run'.amount = run.amount /\ run'.all = run.all
      /\ run'.changed = run.changed /\ run'.refresh = run.refresh /\ run'.rest = run.rest
      /\ run.mode \notin {"none", "tick"} => run'.kept = run.kept \cup gained
  <2>1. run.kept \cup gained \in SUBSET (Locks \cup Callers)
    BY <1>2 DEF RunRow
  <2> QED BY <1>1, <1>2, <2>1 DEF RunRow
<1>4. run.mode \in Stages => run'.kept = run.kept \cup gained
  BY <1>3 DEF Stages
<1>5. BoundsKept'
  BY <1>1 DEF BoundsKept, HeartbeatInv
<1>6. WorkKnown'
  BY <1>1, <1>3 DEF WorkKnown, HeartbeatInv, own
<1>7. Thawing'
  BY <1>1, <1>3 DEF Thawing, HeartbeatInv, own
<1>8. GroupsKnown' /\ CallersKnown' /\ FrozenKnown'
  BY <1>1, Untouched DEF own
<1>9. Steady
  BY <1>1, SteadyGroups DEF HeartbeatInv, own
<1> QED BY <1>1, <1>3, <1>4, <1>5, <1>6, <1>7, <1>8, <1>9 DEF own

(* So what a disposal has got done stays done.                               *)
LEMMA DisposalStays ==
  ASSUME HeartbeatInv, NEW gained \in SUBSET (Locks \cup Callers), Meanwhile(gained),
         passed' \subseteq passed, LocksKept', TokensKept', TxsKept',
         \A l \in Locks \ gained : run.caller \in Callers =>
            /\ locks[l].holder # run.caller => locks'[l].holder # run.caller
            /\ HoldsNot(l) => run.caller \notin Range(locks'[l].queue),
         run.caller \in Callers \ gained => used'[run.caller] = used[run.caller],
         OpenTxs(run.caller)' \subseteq OpenTxs(run.caller)
  PROVE  HeartbeatInv' /\ Steady /\ run'.mode = run.mode /\ run'.todo = run.todo
<1>1. /\ BoundsKept' /\ GroupsKnown' /\ CallersKnown' /\ FrozenKnown' /\ WorkKnown' /\ Thawing'
      /\ Steady /\ regs' = regs
      /\ run'.mode = run.mode /\ run'.todo = run.todo /\ run'.caller = run.caller
      /\ run'.amount = run.amount
      /\ run.mode \in Stages => run'.kept = run.kept \cup gained
  BY MeanwhileIs
<1>2. Disposing'
  <2> SUFFICES ASSUME run.mode \in Stages PROVE Disposing'
    BY <1>1 DEF Disposing
  <2> DEFINE c == run.caller
             r == regs[c]
             kept == run'.kept
  <2>1. kept = run.kept \cup gained
    BY <1>1
  <2>2. /\ c \in DOMAIN regs /\ r.status \in {"lost", "frozen"}
        /\ run.mode \in {"freeze", "rows"} => r.strategy = "freeze"
        /\ run.mode \in {"list", "release", "tokens", "return", "txs"} => r.strategy /= "freeze"
        /\ run.mode \in {"tokens", "return", "txs"} => r.strategy = "release_all"
        /\ run.mode = "rows" => r.status = "frozen"
        /\ run.mode = "release" =>
             run.todo \subseteq Locks
               /\ \A l \in Locks : locks[l].holder = c => l \in run.todo \cup run.kept
        /\ run.mode \in {"tokens", "return", "txs"} \/ (run.mode = "disposed" /\ r.strategy /= "freeze") =>
             \A l \in Locks \ run.kept : HoldsNot(l)
        /\ run.mode = "return" => c \in run.kept \/ used[c] <= run.amount
        /\ run.mode = "txs" \/ (run.mode = "disposed" /\ r.strategy = "release_all") =>
             c \in run.kept \/ used[c] = 0
        /\ run.mode = "disposed" /\ r.strategy = "release_all" => OpenTxs(c) = {}
    BY DEF HeartbeatInv, Disposing
  <2>3. c \in Callers
    BY <2>2 DEF HeartbeatInv, CallersKnown
  <2>4. ASSUME run.mode = "release"
        PROVE  \A l \in Locks : locks'[l].holder = c => l \in run.todo \cup kept
    BY <2>1, <2>2, <2>3, <2>4
  <2>5. ASSUME NEW l \in Locks \ kept, HoldsNot(l) PROVE HoldsNot(l)'
    <3>1. l \in Locks \ gained
      BY <2>1
    <3>2. locks'[l].holder # c /\ c \notin Range(locks'[l].queue)
      BY <2>3, <2>5, <3>1 DEF HoldsNot
    <3> QED BY <1>1, <3>2 DEF HoldsNot
  <2>6. c \in kept \/ (c \notin run.kept /\ used'[c] = used[c])
    BY <2>1, <2>3
  <2>7. \A l \in Locks \ kept : l \in Locks \ run.kept
    BY <2>1
  <2>8. run'.mode = "return" => c \in kept \/ used'[c] <= run'.amount
    BY <1>1, <2>2, <2>6
  <2>9. run'.mode = "txs" \/ (run'.mode = "disposed" /\ r.strategy = "release_all") =>
          c \in kept \/ used'[c] = 0
    BY <1>1, <2>2, <2>6
  <2>10. run'.mode \in {"tokens", "return", "txs"} \/ (run'.mode = "disposed" /\ r.strategy /= "freeze") =>
           \A l \in Locks \ kept : HoldsNot(l)'
    BY <1>1, <2>2, <2>5, <2>7
  <2>11. run'.mode = "disposed" /\ r.strategy = "release_all" => OpenTxs(c)' = {}
    BY <1>1, <2>2
  <2>12. run'.caller = c /\ regs'[c] = r /\ c \in DOMAIN regs'
    BY <1>1, <2>2
  <2> HIDE DEF kept, c, r
  <2> QED BY <1>1, <2>2, <2>4, <2>8, <2>9, <2>10, <2>11, <2>12 DEF Disposing, c, r, kept
<1> QED BY <1>1, <1>2 DEF HeartbeatInv

(* A request that passed the look at the group asks for its lock.            *)
LEMMA AcquireLockKeeps ==
  ASSUME HeartbeatInv, NEW c, NEW l, AcquireLock(c, l)
  PROVE  HeartbeatInv' /\ Steady /\ run'.mode = run.mode /\ run'.todo = run.todo
<1> DEFINE gained == IF c = run.caller THEN {l} ELSE {}
<1>1. /\ <<c, l>> \in passed /\ passed' = passed \ {<<c, l>>} /\ Meanwhile(gained)
      /\ locks' = [locks EXCEPT ![l] = Asked(@, c)] /\ UNCHANGED <<used, waits, txs>>
  BY DEF AcquireLock
<1>2. /\ BoundsKept /\ locks \in [Locks -> LockState] /\ \A x \in Locks : LockOK(locks[x])
      /\ bound.entries \in Nat
  BY BoundsAre DEF HeartbeatInv, LocksKept
<1>3. c \in Callers /\ l \in Locks
  <2>1. <<c, l>> \in Callers \X Locks
    BY <1>1, <1>2, BoundsAre DEF BoundsKept
  <2> QED BY <2>1
<1>4. gained \in SUBSET (Locks \cup Callers)
  BY <1>3
<1> DEFINE new == Asked(locks[l], c)
<1>5. /\ LockOK(new) /\ new.holder \in {locks[l].holder, c}
      /\ Range(new.queue) \subseteq Range(locks[l].queue) \cup {c}
  BY <1>2, <1>3, AskedIs
<1>6. locks' = [locks EXCEPT ![l] = new]
  BY <1>1
<1>7. LocksKept'
  <2>1. new \in LockState
    BY <1>5 DEF LockOK
  <2> HIDE DEF new
  <2>2. locks' \in [Locks -> LockState]
    BY <1>2, <1>3, <1>6, <2>1
  <2>3. ASSUME NEW x \in Locks PROVE LockOK(locks'[x])
    BY <1>2, <1>3, <1>5, <1>6
  <2>4. \A x \in Locks : LockOK(locks[x])'
    BY <2>3 DEF LockOK
  <2> QED BY <2>2, <2>4 DEF LocksKept
<1>8. TokensKept' /\ TxsKept' /\ OpenTxs(run.caller)' \subseteq OpenTxs(run.caller)
  <2>1. UNCHANGED bound
    BY <1>1 DEF Meanwhile
  <2>2. TokensKept' /\ TxsKept'
    BY <1>1, <2>1, Untouched
  <2>3. /\ BoundsKept' /\ run'.caller = run.caller
    BY <1>1, <1>4, MeanwhileIs
  <2> QED BY <1>1, <2>2, <2>3 DEF OpenTxs
<1>9. ASSUME NEW x \in Locks \ gained
      PROVE  /\ locks[x].holder # run.caller => locks'[x].holder # run.caller
             /\ HoldsNot(x) => run.caller \notin Range(locks'[x].queue)
  <2> HIDE DEF new
  <2>1. CASE x = l
    <3>1. c # run.caller /\ locks'[x] = new
      BY <1>2, <1>3, <1>6, <1>9, <2>1
    <3> QED BY <1>5, <2>1, <3>1 DEF HoldsNot
  <2>2. CASE x # l
    BY <1>2, <1>6, <2>2 DEF HoldsNot
  <2> QED BY <2>1, <2>2
<1>10. passed' \subseteq passed /\ (run.caller \in Callers \ gained => used'[run.caller] = used[run.caller])
  BY <1>1
<1> HIDE DEF gained, new
<1> QED BY <1>1, <1>4, <1>7, <1>8, <1>9, <1>10, DisposalStays

(* A holder lets go of its lock.                                             *)
LEMMA LockPassesKeeps ==
  ASSUME HeartbeatInv, NEW l \in Locks, LockPasses(l)
  PROVE  HeartbeatInv' /\ Steady /\ run'.mode = run.mode /\ run'.todo = run.todo
<1> DEFINE gained == IF locks'[l].holder = run.caller THEN {l} ELSE {}
           new == Vacated(locks[l])
<1>1. /\ passed' = passed /\ Meanwhile(gained)
      /\ locks' = [locks EXCEPT ![l] = new] /\ UNCHANGED <<used, waits, txs>>
  BY DEF LockPasses
<1>2. locks \in [Locks -> LockState] /\ \A x \in Locks : LockOK(locks[x])
  BY DEF HeartbeatInv, LocksKept
<1>3. gained \in SUBSET (Locks \cup Callers)
  OBVIOUS
<1>4. LockOK(new) /\ Range(new.queue) \subseteq Range(locks[l].queue)
  BY <1>2, VacatedIs DEF GivenUp
<1>5. LocksKept'
  <2>1. new \in LockState
    BY <1>4 DEF LockOK
  <2> HIDE DEF new
  <2>2. locks' \in [Locks -> LockState]
    BY <1>1, <1>2, <2>1
  <2>3. ASSUME NEW x \in Locks PROVE LockOK(locks'[x])
    BY <1>1, <1>2, <1>4
  <2>4. \A x \in Locks : LockOK(locks[x])'
    BY <2>3 DEF LockOK
  <2> QED BY <2>2, <2>4 DEF LocksKept
<1>6. TokensKept' /\ TxsKept' /\ OpenTxs(run.caller)' \subseteq OpenTxs(run.caller)
  <2>1. UNCHANGED bound
    BY <1>1 DEF Meanwhile
  <2>2. TokensKept' /\ TxsKept'
    BY <1>1, <2>1, Untouched
  <2>3. run'.caller = run.caller
    BY <1>1, <1>3, MeanwhileIs
  <2> QED BY <1>1, <2>2, <2>3 DEF OpenTxs
<1>7. ASSUME NEW x \in Locks \ gained
      PROVE  /\ locks[x].holder # run.caller => locks'[x].holder # run.caller
             /\ HoldsNot(x) => run.caller \notin Range(locks'[x].queue)
  <2> HIDE DEF new
  <2>1. CASE x = l
    BY <1>1, <1>2, <1>4, <1>7, <2>1 DEF HoldsNot
  <2>2. CASE x # l
    BY <1>1, <1>2, <2>2 DEF HoldsNot
  <2> QED BY <2>1, <2>2
<1>8. passed' \subseteq passed /\ (run.caller \in Callers \ gained => used'[run.caller] = used[run.caller])
  BY <1>1
<1> HIDE DEF gained, new
<1> QED BY <1>1, <1>3, <1>5, <1>6, <1>7, <1>8, DisposalStays

(* A caller uses tokens, or waits for some.                                  *)
LEMMA RequestTokensKeeps ==
  ASSUME HeartbeatInv, NEW c \in bound.users, RequestTokens(c)
  PROVE  HeartbeatInv' /\ Steady /\ run'.mode = run.mode /\ run'.todo = run.todo
<1> DEFINE gained == IF c = run.caller THEN {c} ELSE {}
<1>1. passed' = passed /\ Meanwhile(gained) /\ UNCHANGED <<locks, txs>>
  BY DEF RequestTokens
<1>2. /\ BoundsKept /\ bound.tokens \in Nat /\ c \in Callers
      /\ used \in [Callers -> 0..bound.tokens] /\ waits \subseteq Callers
  BY BoundsAre DEF HeartbeatInv, TokensKept
<1>3. gained \in SUBSET (Locks \cup Callers)
  BY <1>2
<1>4. \/ used[c] < bound.tokens /\ used' = [used EXCEPT ![c] = @ + 1] /\ UNCHANGED waits
      \/ waits' = waits \cup {c} /\ UNCHANGED used
  BY DEF RequestTokens
<1>5. UNCHANGED bound
  BY <1>1 DEF Meanwhile
<1>6. used' \in [Callers -> 0..bound.tokens] /\ waits' \subseteq Callers
  <2>1. used[c] \in 0..bound.tokens
    BY <1>2
  <2>2. used[c] < bound.tokens => used[c] + 1 \in 0..bound.tokens
    BY <1>2, <2>1
  <2> QED BY <1>2, <1>4, <2>2
<1>7. TokensKept' /\ LocksKept' /\ TxsKept'
  BY <1>1, <1>5, <1>6, Untouched DEF TokensKept
<1>8. OpenTxs(run.caller)' \subseteq OpenTxs(run.caller)
  <2>1. run'.caller = run.caller
    BY <1>1, <1>3, MeanwhileIs
  <2> QED BY <1>1, <2>1 DEF OpenTxs
<1>9. run.caller \in Callers \ gained => used'[run.caller] = used[run.caller]
  BY <1>2, <1>4
<1>10. \A x \in Locks \ gained : run.caller \in Callers =>
         /\ locks[x].holder # run.caller => locks'[x].holder # run.caller
         /\ HoldsNot(x) => run.caller \notin Range(locks'[x].queue)
  BY <1>1 DEF HoldsNot
<1>11. passed' \subseteq passed
  BY <1>1
<1> HIDE DEF gained
<1> QED BY <1>1, <1>3, <1>7, <1>8, <1>9, <1>10, <1>11, DisposalStays

(* A transaction times out.                                                  *)
LEMMA TxTimeoutKeeps ==
  ASSUME HeartbeatInv, NEW t \in DOMAIN txs, TxTimeout(t)
  PROVE  HeartbeatInv' /\ Steady /\ run'.mode = run.mode /\ run'.todo = run.todo
<1> DEFINE gained == {l \in TxLocks[t] : locks'[l].holder = run.caller}
<1>1. ReleaseTx(t, txs[t]) /\ Meanwhile(gained) /\ UNCHANGED <<passed, used, waits>>
  BY DEF TxTimeout
<1>2. /\ LocksKept' /\ TxsKept' /\ TxLocks[t] \subseteq Locks
      /\ \A l \in Locks : GivenUp(locks[l], locks'[l], txs[t])
      /\ \A l \in Locks \ TxLocks[t] : locks'[l] = locks[l]
      /\ \A d : OpenTxs(d)' \subseteq OpenTxs(d)
  BY <1>1, TxIsReleased
<1>3. gained \in SUBSET (Locks \cup Callers)
  BY <1>2
<1>4. TokensKept'
  BY <1>1, Untouched DEF Meanwhile
<1>5. ASSUME NEW x \in Locks \ gained
      PROVE  /\ locks[x].holder # run.caller => locks'[x].holder # run.caller
             /\ HoldsNot(x) => run.caller \notin Range(locks'[x].queue)
  <2>1. CASE x \in TxLocks[t]
    BY <1>2, <1>5, <2>1 DEF HoldsNot, GivenUp
  <2>2. CASE x \notin TxLocks[t]
    BY <1>2, <2>2 DEF HoldsNot
  <2> QED BY <2>1, <2>2
<1>6. OpenTxs(run.caller)' \subseteq OpenTxs(run.caller)
  <2>1. run'.caller = run.caller
    BY <1>1, <1>3, MeanwhileIs
  <2>2. OpenTxs(run.caller)' = {x \in DOMAIN txs' : txs'[x] = run.caller}
    BY <2>1 DEF OpenTxs
  <2> QED BY <1>2, <2>1 DEF OpenTxs
<1>7. passed' \subseteq passed /\ (run.caller \in Callers \ gained => used'[run.caller] = used[run.caller])
  BY <1>1
<1> HIDE DEF gained
<1> QED BY <1>1, <1>2, <1>3, <1>4, <1>5, <1>6, <1>7, DisposalStays

(* A look at the group of a caller.                                          *)
LEMMA LookKeeps ==
  ASSUME HeartbeatInv, NEW ask \in bound.asks, IsGroupDegraded(ask[1], ask[2])
  PROVE  HeartbeatInv' /\ Steady
<1>1. /\ passed' = passed \cup {<<ask[1], ask[2]>>}
      /\ UNCHANGED <<bound, beat, own, run, late, foreign, crashes>>
  BY DEF IsGroupDegraded
<1>2. ask = <<ask[1], ask[2]>>
  <2>1. ask \in Callers \X Locks
    BY BoundsAre DEF HeartbeatInv
  <2> QED BY <2>1
<1>3. BoundsKept'
  BY <1>1, <1>2 DEF BoundsKept, HeartbeatInv
<1>4. /\ LocksKept' /\ TokensKept' /\ TxsKept' /\ GroupsKnown' /\ CallersKnown' /\ FrozenKnown'
      /\ WorkKnown' /\ Disposing' /\ Thawing'
  BY <1>1, Untouched DEF own, foreign
<1>5. Steady
  BY <1>1, SteadyGroups DEF HeartbeatInv, own
<1> QED BY <1>3, <1>4, <1>5 DEF HeartbeatInv

(* The process stops and starts, whatever rows it has written.               *)
LEMMA StopKeeps ==
  ASSUME HeartbeatInv, StopAndStart, TablesKept
  PROVE  HeartbeatInv' /\ Steady /\ UNCHANGED locks
<1>1. /\ crashes < bound.crashes /\ crashes' = crashes + 1 /\ run' = NoRun /\ passed' = {}
      /\ late' \subseteq DOMAIN regs' /\ UNCHANGED <<bound, beat, foreign>>
  BY DEF StopAndStart
<1>2. BoundsKept'
  <2>1. /\ bound \in Bounds /\ beat \in BOOLEAN /\ crashes \in 0..bound.crashes /\ bound.crashes \in Nat
    BY BoundsAre DEF HeartbeatInv, BoundsKept
  <2>2. crashes' \in 0..bound.crashes
    BY <1>1, <2>1
  <2> QED BY <1>1, <2>1, <2>2 DEF BoundsKept
<1>3. WorkKnown'
  BY <1>1, NoRunIs DEF WorkKnown
<1>4. LocksKept' /\ TokensKept' /\ TxsKept' /\ Disposing' /\ Thawing'
  BY <1>1, NoRunIs, Untouched DEF foreign
<1> QED BY <1>1, <1>2, <1>3, <1>4 DEF HeartbeatInv, TablesKept, foreign

(* The tables stay as they are, or a registration or a report is cut short.  *)
LEMMA CrashKeeps ==
  ASSUME HeartbeatInv,
         \/ Crash
         \/ \E r \in bound.requests : CrashInRegister(r)
         \/ \E c \in DOMAIN regs : CrashInReport(c)
  PROVE  HeartbeatInv' /\ Steady /\ UNCHANGED locks
<1>1. CASE Crash
  <2>1. UNCHANGED <<regs, groups, deps, frozen>> /\ StopAndStart
    BY <1>1 DEF Crash, StopAndStart
  <2>2. Steady
    BY <2>1, SteadyGroups DEF HeartbeatInv
  <2>3. GroupsKnown' /\ CallersKnown' /\ FrozenKnown'
    BY <2>1, Untouched
  <2>4. TablesKept
    BY <2>1, <2>2, <2>3 DEF TablesKept
  <2> QED BY <2>1, <2>4, StopKeeps
<1>2. ASSUME NEW r \in bound.requests, CrashInRegister(r)
      PROVE  HeartbeatInv' /\ Steady /\ UNCHANGED locks
  <2>1. r \in Request
    BY BoundsAre DEF HeartbeatInv
  <2>2. /\ MayRegister(r) /\ regs' = Registered(r) /\ StopAndStart
        /\ groups' = groups \/ groups' = UpdateGroupLeft(regs', r)
        /\ UNCHANGED <<deps, frozen>>
    BY <1>2 DEF CrashInRegister, StopAndStart
  <2>3. TablesKept
    BY <2>1, <2>2, RegistrationWritten
  <2> QED BY <2>2, <2>3, StopKeeps
<1>3. ASSUME NEW c \in DOMAIN regs, CrashInReport(c)
      PROVE  HeartbeatInv' /\ Steady /\ UNCHANGED locks
  <2>1. /\ MayReport(c) /\ regs' = Reported(c) /\ StopAndStart
        /\ groups' = groups /\ UNCHANGED <<deps, frozen>>
    BY <1>3 DEF CrashInReport, StopAndStart
  <2>2. TablesKept
    BY <2>1, ReportWritten
  <2> QED BY <2>1, <2>2, StopKeeps
<1> QED BY <1>1, <1>2, <1>3

(****************************** every step **********************************)

(* What a step may do to the groups, and what one to the locks.              *)
GroupsStep == Steady \/ DependencyKeeps(deps') \/ PostGroup \/ DeleteGroupRequest

GoneFromTheLost(l) ==
  /\ locks'[l].holder /= locks[l].holder =>
       locks[l].holder = run.caller /\ regs[run.caller].status \notin Alive
  /\ Range(locks[l].queue) \subseteq
       Range(locks'[l].queue) \cup {locks'[l].holder, run.caller}

LocksStep ==
  \/ UNCHANGED locks
  \/ run'.mode = run.mode /\ run'.todo = run.todo
  \/ \A l \in Locks : GoneFromTheLost(l)

(* What is given up for a caller that is being disposed of goes from nobody  *)
(* else.                                                                     *)
LEMMA GivenUpIsGone ==
  ASSUME regs[run.caller].status \in {"lost", "frozen"},
         NEW l \in Locks, GivenUp(locks[l], locks'[l], run.caller)
  PROVE  GoneFromTheLost(l)
<1>1. regs[run.caller].status \notin Alive
  BY DEF Alive
<1> QED BY <1>1 DEF GivenUp, GoneFromTheLost

(* Whoever is being disposed of is lost or frozen.                           *)
LEMMA CallerIsLost ==
  ASSUME HeartbeatInv, run.mode \in Stages
  PROVE  regs[run.caller].status \in {"lost", "frozen"}
BY DEF HeartbeatInv, Disposing

(* The requests of the HTTP interface.                                       *)
LEMMA RequestsKeep ==
  ASSUME HeartbeatInv,
         \/ PostGroup \/ DeleteGroupRequest \/ PostDependency \/ DeleteDependency
         \/ PostRegister \/ PostReport \/ PostThaw \/ PostThawAll \/ PostLock
  PROVE  HeartbeatInv' /\ GroupsStep /\ UNCHANGED locks
<1> USE DEF GroupsStep
<1>1. /\ bound.groups \subseteq Groups \X (Nat \ {0}) /\ bound.requests \subseteq Request
  BY BoundsAre DEF HeartbeatInv
<1>2. CASE PostGroup
  <2>1. PICK g \in bound.groups : CreateGroup(g[1], g[2])
    BY <1>2 DEF PostGroup
  <2>2. g[1] \in Groups /\ g[2] \in Nat \ {0}
    BY <1>1
  <2> QED BY <1>2, <2>1, <2>2, CreateGroupKeeps DEF CreateGroup, foreign
<1>3. CASE DeleteGroupRequest
  <2>1. PICK g \in DOMAIN groups : DeleteGroup(g)
    BY <1>3 DEF DeleteGroupRequest
  <2> QED BY <1>3, <2>1, DeleteGroupKeeps DEF DeleteGroup, foreign
<1>4. CASE PostDependency
  BY <1>4, AddDependencyKeeps DEF PostDependency, AddGroupDependency, foreign
<1>5. CASE DeleteDependency
  <2>1. PICK d \in Range(deps) : RemoveGroupDependency(d[1], d[2])
    BY <1>5 DEF DeleteDependency
  <2>2. UNCHANGED foreign
    BY <2>1 DEF RemoveGroupDependency
  <2> QED BY <2>1, <2>2, RemoveDependencyKeeps DEF foreign
<1>6. CASE PostRegister
  <2>1. PICK r \in bound.requests : RegisterHeartbeat(r)
    BY <1>6 DEF PostRegister
  <2>2. r \in Request
    BY <1>1
  <2>3. UNCHANGED locks
    BY <2>1 DEF RegisterHeartbeat, foreign
  <2> QED BY <2>1, <2>2, <2>3, RegisterHeartbeatKeeps
<1>7. CASE PostReport
  BY <1>7, ReportHeartbeatKeeps DEF PostReport, ReportHeartbeat, foreign
<1>8. CASE PostThaw
  BY <1>8, ThawBegins DEF PostThaw, ReleaseFrozenResource, foreign
<1>9. CASE PostThawAll
  BY <1>9, ThawBegins DEF PostThawAll, ReleaseAllFrozenResources, foreign
<1>10. CASE PostLock
  BY <1>10, LookKeeps DEF PostLock, IsGroupDegraded, foreign
<1> QED BY <1>2, <1>3, <1>4, <1>5, <1>6, <1>7, <1>8, <1>9, <1>10

(* Every step of a disposal.                                                 *)
LEMMA DisposeKeeps ==
  ASSUME HeartbeatInv, Dispose
  PROVE  HeartbeatInv' /\ Steady /\ LocksStep
<1> USE DEF LocksStep
<1>1. CASE ListLeases
  BY <1>1, ListLeasesKeeps DEF ListLeases, foreign
<1>2. CASE \E l \in Locks : ReleaseLocksOnly(l)
  <2>1. PICK l \in Locks : ReleaseLocksOnly(l)
    BY <1>2
  <2>2. HeartbeatInv' /\ Steady /\ \A x \in Locks : GivenUp(locks[x], locks'[x], run.caller)
    BY <2>1, ReleaseLocksKeeps
  <2>3. regs[run.caller].status \in {"lost", "frozen"}
    BY <2>1, CallerIsLost DEF ReleaseLocksOnly, Stages
  <2> QED BY <2>2, <2>3, GivenUpIsGone
<1>3. CASE CancelWaitForHolder
  <2>1. /\ HeartbeatInv' /\ Steady
        /\ \A l \in Locks : /\ locks'[l].holder = locks[l].holder
                            /\ Range(locks'[l].queue) = Range(locks[l].queue) \ {run.caller}
    BY <1>3, CancelWaitKeeps
  <2>2. \A l \in Locks : GoneFromTheLost(l)
    BY <2>1 DEF GoneFromTheLost
  <2> QED BY <2>1, <2>2
<1>4. CASE ReadBinding
  BY <1>4, ReadBindingKeeps DEF ReadBinding, foreign
<1>5. CASE ReturnAllTokens
  BY <1>5, ReturnAllTokensKeeps DEF ReturnAllTokens, foreign
<1>6. CASE CancelOrchestrationTxs
  <2>1. /\ HeartbeatInv' /\ Steady
        /\ UNCHANGED locks \/ \A l \in Locks : GivenUp(locks[l], locks'[l], run.caller)
    BY <1>6, CancelTxsKeeps
  <2>2. regs[run.caller].status \in {"lost", "frozen"}
    BY <1>6, CallerIsLost DEF CancelOrchestrationTxs, Stages
  <2> QED BY <2>1, <2>2, GivenUpIsGone
<1>7. CASE FreezeCaller
  BY <1>7, FreezeCallerKeeps DEF FreezeCaller, foreign
<1>8. CASE FreezeResources
  BY <1>8, FreezeResourcesKeeps DEF FreezeResources, foreign
<1>9. CASE HandleConnectionLost
  BY <1>9, ConnectionLostKeeps DEF HandleConnectionLost, foreign
<1> QED BY <1>1, <1>2, <1>3, <1>4, <1>5, <1>6, <1>7, <1>8, <1>9 DEF Dispose

(* Every step of whoever holds the mutex.                                    *)
LEMMA MutexHolderKeeps ==
  ASSUME HeartbeatInv, MutexHolder
  PROVE  HeartbeatInv' /\ Steady /\ LocksStep
<1> USE DEF LocksStep
<1>1. CASE \E c \in Callers : CheckCaller(c)
  BY <1>1, CheckCallerKeeps DEF CheckCaller, foreign
<1>2. CASE CheckDone
  BY <1>2, CheckDoneKeeps DEF CheckDone, foreign
<1>3. CASE Dispose
  BY <1>3, DisposeKeeps
<1>4. CASE \E row \in frozen : ThawNext(row)
  <2>1. PICK row \in frozen : ThawNext(row)
    BY <1>4
  <2>2. /\ HeartbeatInv' /\ Steady /\ regs[run.caller].status = "frozen"
        /\ UNCHANGED locks \/ \A l \in Locks : GivenUp(locks[l], locks'[l], run.caller)
    BY <2>1, ThawNextKeeps
  <2> QED BY <2>2, GivenUpIsGone
<1>5. CASE ThawDone
  BY <1>5, ThawDoneKeeps DEF ThawDone, foreign
<1> QED BY <1>1, <1>2, <1>3, <1>4, <1>5 DEF MutexHolder

(* Every step.                                                               *)
LEMMA StepKeeps ==
  ASSUME HeartbeatInv, [HeartbeatNext]_heartbeatVars
  PROVE  HeartbeatInv' /\ GroupsStep /\ LocksStep
<1>1. CASE \/ PostGroup \/ DeleteGroupRequest \/ PostDependency \/ DeleteDependency
           \/ PostRegister \/ PostReport \/ PostThaw \/ PostThawAll \/ PostLock
  BY <1>1, RequestsKeep DEF LocksStep
<1>2. CASE CheckAllCallers
  BY <1>2, TickBegins DEF CheckAllCallers, foreign, LocksStep, GroupsStep
<1>3. CASE \E c \in late : CheckAndHandleCaller(c)
  BY <1>3, TickBegins DEF CheckAndHandleCaller, foreign, LocksStep, GroupsStep
<1>4. CASE MutexHolder
  BY <1>4, MutexHolderKeeps DEF GroupsStep
<1>5. CASE OthersGoOn
  <2>1. HeartbeatInv' /\ Steady /\ run'.mode = run.mode /\ run'.todo = run.todo
    BY <1>5, AcquireLockKeeps, LockPassesKeeps, RequestTokensKeeps, TxTimeoutKeeps DEF OthersGoOn
  <2> QED BY <2>1 DEF LocksStep, GroupsStep
<1>6. CASE \E c \in DOMAIN regs : Silence(c)
  BY <1>6, SilenceKeeps DEF Silence, foreign, LocksStep, GroupsStep
<1>7. CASE \/ Crash
           \/ \E r \in bound.requests : CrashInRegister(r)
           \/ \E c \in DOMAIN regs : CrashInReport(c)
  BY <1>7, CrashKeeps DEF LocksStep, GroupsStep
<1>8. CASE UNCHANGED heartbeatVars
  <2>1. UNCHANGED <<bound, beat, regs, groups, deps, frozen, run, late, locks, used, waits, txs, passed, crashes>>
    BY <1>8 DEF heartbeatVars, own, foreign
  <2>2. HeartbeatInv'
    BY <2>1, Untouched DEF HeartbeatInv, foreign
  <2>3. Steady
    BY <2>1, SteadyGroups DEF HeartbeatInv
  <2> QED BY <2>1, <2>2, <2>3 DEF LocksStep, GroupsStep
<1> QED BY <1>1, <1>2, <1>3, <1>4, <1>5, <1>6, <1>7, <1>8 DEF HeartbeatNext

(* The rows stay well formed, and a disposal has always got done what its    *)
(* stage says, whatever other requests do between two of its calls and       *)
(* wherever the process stops.                                               *)
THEOREM HeartbeatInvariant == HeartbeatSpec => []HeartbeatInv
<1>1. HeartbeatInit => HeartbeatInv
  BY StartIs
<1>2. HeartbeatInv /\ [HeartbeatNext]_heartbeatVars => HeartbeatInv'
  BY StepKeeps
<1> QED BY <1>1, <1>2, PTL DEF HeartbeatSpec

(* The invariant is enough for what the runs check.                          *)
LEMMA InvIsSound == HeartbeatInv => DisposalIsSound
<1> SUFFICES ASSUME HeartbeatInv PROVE DisposalIsSound
  OBVIOUS
<1>1. HeartbeatTypes
  <2>1. /\ bound \in Bounds /\ beat \in BOOLEAN /\ passed \subseteq bound.asks /\ crashes \in 0..bound.crashes
    BY DEF HeartbeatInv, BoundsKept
  <2>2. /\ DOMAIN regs \subseteq Callers
        /\ \A c \in DOMAIN regs : regs[c] \in Registration /\ regs[c].age <= regs[c].max
        /\ \A c \in DOMAIN regs : regs[c].group \in DOMAIN groups \cup {NoGroup}
    BY DEF HeartbeatInv, CallersKnown
  <2>3. /\ DOMAIN groups \subseteq Groups /\ \A g \in DOMAIN groups : groups[g] \in GroupRow
        /\ IsInjective(deps) /\ Range(deps) \subseteq (DOMAIN groups) \X (DOMAIN groups)
    BY DEF HeartbeatInv, GroupsKnown, Tables, Range
  <2>4. frozen \subseteq FrozenResource /\ run.rest \cup late \subseteq DOMAIN regs
    BY DEF HeartbeatInv, FrozenKnown, WorkKnown
  <2>5. run.mode \in {"none", "tick", "list", "release", "tokens", "return", "txs", "freeze",
                      "rows", "disposed", "thaw"}
    BY DEF HeartbeatInv, WorkKnown, RunRow, Stages
  <2>6. /\ locks \in [Locks -> LockState]
        /\ \A l \in Locks : IsInjective(locks[l].queue) /\ locks[l].holder \notin Range(locks[l].queue)
    BY DEF HeartbeatInv, LocksKept, LockOK
  <2>7. used \in [Callers -> 0..bound.tokens] /\ waits \subseteq Callers
    BY DEF HeartbeatInv, TokensKept
  <2> QED BY <2>1, <2>2, <2>3, <2>4, <2>5, <2>6, <2>7 DEF HeartbeatTypes
<1>2. FrozenRowsMeanFrozen
  BY DEF HeartbeatInv, FrozenKnown, FrozenRowsMeanFrozen
<1>3. DisposalIsComplete
  BY DEF HeartbeatInv, Disposing, Stages, HoldsNot, DisposalIsComplete
<1> QED BY <1>1, <1>2, <1>3 DEF DisposalIsSound

(* While anything of a caller is frozen the caller is, and when a lost caller *)
(* has been disposed of it holds and waits for nothing, but for what it got  *)
(* meanwhile and locks it had entered twice: handleConnectionLost leaves     *)
(* nothing out, for any callers, locks, transactions and groups.             *)
THEOREM DisposalSound == HeartbeatSpec => []DisposalIsSound
BY HeartbeatInvariant, InvIsSound, PTL

(* Releasing by a list made earlier takes locks only from the caller the list *)
(* was made for, lost or frozen as it is, and a place in a queue from nobody *)
(* else, though the locks may have passed to others since.                   *)
THEOREM OnlyTheLostLoses == HeartbeatSpec => OnlyTheLostLose
<1> DEFINE Loss == run'.mode /= run.mode \/ run'.todo /= run.todo =>
       \A l \in Locks :
         /\ locks'[l].holder /= locks[l].holder =>
              locks[l].holder = run.caller /\ regs[run.caller].status \notin Alive
         /\ Range(locks[l].queue) \subseteq
              Range(locks'[l].queue) \cup {locks'[l].holder, run.caller}
<1>1. HeartbeatInv /\ [HeartbeatNext]_heartbeatVars => [Loss]_heartbeatVars
  <2> SUFFICES ASSUME HeartbeatInv, [HeartbeatNext]_heartbeatVars PROVE Loss
    OBVIOUS
  <2>1. LocksStep
    BY StepKeeps
  <2>2. UNCHANGED locks => \A l \in Locks : GoneFromTheLost(l)
    BY DEF GoneFromTheLost
  <2>3. (\A l \in Locks : GoneFromTheLost(l)) => Loss
    BY DEF GoneFromTheLost
  <2> QED BY <2>1, <2>2, <2>3 DEF LocksStep
<1> QED BY <1>1, HeartbeatInvariant, PTL DEF HeartbeatSpec, OnlyTheLostLose

(* What a step does to a group and to those that depend on it.               *)
LEMMA StepFollows ==
  ASSUME HeartbeatInv, GroupsStep, NEW g \in DOMAIN groups
  PROVE  /\ groups[g].degraded /\ SomeUnwell(g) /\ DOMAIN groups \subseteq DOMAIN groups'
              /\ ~ SomeUnwell(g)' => ~ groups'[g].degraded
         /\ g \in DOMAIN groups' /\ groups[g].alive >= groups[g].threshold
              /\ groups'[g].alive < groups[g].threshold =>
              \A d \in Range(DependOn(deps', g)) : groups'[d].degraded
<1>1. /\ groups \in Tables(DOMAIN groups) /\ groups[g] \in GroupRow
      /\ deps \in Seq((DOMAIN groups) \X (DOMAIN groups))
      /\ groups[g].alive \in Nat /\ groups[g].threshold \in Nat
  BY DEF HeartbeatInv, GroupsKnown, Tables, GroupRow
<1>2. SomeUnwell(g) => HasReason(deps, groups, g)
  BY DEF SomeUnwell, HasReason, LeansOnUnwell
<1>3. HasReason(deps', groups', g) /\ groups'[g].degraded => SomeUnwell(g)'
  BY DEF SomeUnwell, HasReason, LeansOnUnwell
<1>4. groups[g].alive >= groups[g].threshold => HasSpread(deps, groups, g)
  BY <1>1 DEF HasSpread
<1>5. CASE Steady
  BY <1>1, <1>2, <1>3, <1>4, <1>5 DEF Steady, Follows, HasSpread
<1>6. CASE DependencyKeeps(deps')
  BY <1>1, <1>2, <1>3, <1>6 DEF DependencyKeeps, Recount
<1>7. CASE PostGroup
  <2>1. PICK x, n : CreateGroup(x, n)
    BY <1>7 DEF PostGroup
  <2>2. deps' = deps /\ \A y \in DOMAIN groups : groups'[y] = groups[y]
    BY <2>1 DEF CreateGroup, CreateHeartbeatGroup
  <2>3. DependenciesOf(deps, g) \subseteq DOMAIN groups
    BY <1>1, Dependants
  <2>4. SomeUnwell(g) => SomeUnwell(g)'
    BY <2>2, <2>3 DEF SomeUnwell
  <2> QED BY <1>1, <2>2, <2>4
<1>8. CASE DeleteGroupRequest
  <2>1. PICK x \in DOMAIN groups : DeleteGroup(x)
    BY <1>8 DEF DeleteGroupRequest
  <2>2. groups' = [y \in DOMAIN groups \ {x} |-> groups[y]]
    BY <2>1 DEF DeleteGroup
  <2> QED BY <1>1, <2>2
<1> QED BY <1>5, <1>6, <1>7, <1>8 DEF GroupsStep

(* A degraded group is restored in the step in which the last group it       *)
(* depends on becomes well, and every group is degraded in the step in which *)
(* one it depends on has too few callers alive, however the graph of         *)
(* dependencies looks and in whatever order the groups are updated.          *)
THEOREM GroupsAreFollowed == HeartbeatSpec => GroupsFollow
<1> DEFINE Restored == \A g \in DOMAIN groups :
             groups[g].degraded /\ SomeUnwell(g) /\ DOMAIN groups \subseteq DOMAIN groups'
               /\ ~SomeUnwell(g)'
             => ~groups'[g].degraded
           Spread == \A g \in DOMAIN groups \cap DOMAIN groups' :
             groups[g].alive >= groups[g].threshold /\ groups'[g].alive < groups[g].threshold =>
               \A d \in Range(DependOn(deps', g)) : groups'[d].degraded
<1>1. HeartbeatInv /\ [HeartbeatNext]_heartbeatVars => [Restored]_heartbeatVars /\ [Spread]_heartbeatVars
  <2> SUFFICES ASSUME HeartbeatInv, [HeartbeatNext]_heartbeatVars PROVE Restored /\ Spread
    OBVIOUS
  <2>1. GroupsStep
    BY StepKeeps
  <2> QED BY <2>1, StepFollows
<1> QED BY <1>1, HeartbeatInvariant, PTL DEF HeartbeatSpec, GroupsFollow, RestoredWithTheLast, TooFewDegrades

=============================================================================
