----------------------------- MODULE ShadowPlan -----------------------------
(***************************************************************************)
(* Shadow plans (internal/shadow): a plan collects overrides of the        *)
(* configuration, is tried out by a replay of the audit log or beside live *)
(* requests until its time is over, and may then be applied: one override  *)
(* after the other, all of them undone when one is refused.                *)
(*                                                                         *)
(* Requests look at the row of a plan, then write it, then the map, each   *)
(* by itself; of two that apply one waits for the other.  What they        *)
(* override belongs to other managers, which go on writing it.             *)
(***************************************************************************)
EXTENDS Integers, Sequences, SequencesExt

CONSTANTS
  Plans,
  PlanClients,  \* the requests that may be under way at once
  Nobody,       \* no request
  PlanBounds    \* the bounds a behaviour may keep to

\* What may be overridden, one row of each kind: the rule of a breaker, the
\* quota of a caller, a node of the topology, a lock.
Fields == [rule |-> {"failure_threshold", "window_sec"}, quota |-> {"quota_limit"},
           node |-> {"token_cost", "rate_policy"}, lock |-> {"reentrant", "holder"}]
Targets == DOMAIN Fields
Values == 0..2  \* what is told apart; also: a lock free or held, reentrant or not
Rows(t) == [Fields[t] -> Values]
Deleted == [none |-> 0]
Override == [target : Targets \cup {"policy"}, field : STRING, value : Values \cup {-1}]
Statuses == {"none", "draft", "running", "completed", "applied", "cancelled"}

\* What a behaviour keeps to: the plans that may be created with mode and
\* seconds (0: no end), the overrides asked for and how many a plan has, the
\* requests at a time, what others write to, and if the process ends.
ASSUME PlanAssumption ==
  /\ Nobody \notin PlanClients
  /\ \A b \in PlanBounds :
       /\ DOMAIN b.create \subseteq Plans
       /\ \A p \in DOMAIN b.create : b.create[p].mode \in {"replay", "mirror"} /\ b.create[p].sec \in Nat
       /\ b.menu \subseteq Override /\ b.size \in Nat /\ b.clients \subseteq PlanClients
       /\ b.others \subseteq Targets /\ b.restarts \in BOOLEAN

VARIABLES
  planBound,    \* the bounds of this behaviour
  plans,        \* the table: plan -> status and time left
  planMemory,   \* the map: plan -> status
  overrides,    \* plan -> its overrides in order
  planCalls,    \* client -> the request under way
  applier,      \* who has applyMu
  replays,      \* plan -> replays at work, and those that have written the row
  config,       \* target -> its row
  refusing,     \* is the breaker of the quota's caller open?
  before,       \* the rows when applyMu was taken, and
  touched       \* those that others wrote since (for the properties)

planVars == <<planBound, plans, planMemory, overrides, planCalls, applier, replays,
              config, refusing, before, touched>>

NoCall == [pc |-> "idle", plan |-> Nobody, list |-> <<>>, saved |-> <<>>, row |-> Deleted]
Request(pc, p, list) == [NoCall EXCEPT !.pc = pc, !.plan = p, !.list = list]

Mode(p) == planBound.create[p].mode
HasEnd(p) == p \in DOMAIN planBound.create /\ Mode(p) = "mirror" /\ planBound.create[p].sec > 0

\* A request whose table and memory writes leave the configuration alone.
KeepConfig == UNCHANGED <<planBound, applier, config, refusing, before, touched>>

Free(c) == c \in planBound.clients /\ planCalls[c] = NoCall
At(c, pc) == planCalls[c].pc = pc
Goto(c, call) == planCalls' = [planCalls EXCEPT ![c] = call]
WriteStatus(p, s) == plans' = [plans EXCEPT ![p].status = s]

\* The map is only written where the plan is known in it.
Note(p, s) == planMemory' = [planMemory EXCEPT ![p] = IF @ = "none" THEN @ ELSE s]

-----------------------------------------------------------------------------
(* The life of a plan *)

CreatePlan(c, p) ==
  /\ Free(c) /\ p \in DOMAIN planBound.create /\ plans[p].status = "none"
  /\ plans' = [plans EXCEPT ![p] = [status |-> "draft", left |-> planBound.create[p].sec]]
  /\ Goto(c, Request("created", p, <<>>))
  /\ UNCHANGED <<planMemory, overrides, replays>> /\ KeepConfig

NoteCreated(c) ==
  /\ At(c, "created")
  /\ planMemory' = [planMemory EXCEPT ![planCalls[c].plan] = "draft"]
  /\ Goto(c, NoCall)
  /\ UNCHANGED <<plans, overrides, replays>> /\ KeepConfig

AddOverride(c, p) ==
  /\ Free(c) /\ plans[p].status = "draft" /\ Len(overrides[p]) < planBound.size
  /\ \E o \in planBound.menu : Goto(c, Request("adding", p, <<o>>))
  /\ UNCHANGED <<plans, planMemory, overrides, replays>> /\ KeepConfig

InsertOverride(c) ==
  /\ At(c, "adding")
  /\ overrides' = [overrides EXCEPT ![planCalls[c].plan] = @ \o planCalls[c].list]
  /\ Goto(c, NoCall)
  /\ UNCHANGED <<plans, planMemory, replays>> /\ KeepConfig

RemoveOverride(p, i) ==
  /\ i \in DOMAIN overrides[p]
  /\ overrides' = [overrides EXCEPT ![p] = RemoveAt(@, i)]
  /\ UNCHANGED <<plans, planMemory, planCalls, replays>> /\ KeepConfig

StartPlan(c, p) ==
  /\ Free(c) /\ plans[p].status = "draft"
  /\ Goto(c, Request("starting", p, <<>>))
  /\ UNCHANGED <<plans, planMemory, overrides, replays>> /\ KeepConfig

WriteStarted(c) ==
  /\ At(c, "starting")
  /\ WriteStatus(planCalls[c].plan, "running")
  /\ Goto(c, [planCalls[c] EXCEPT !.pc = "started"])
  /\ UNCHANGED <<planMemory, overrides, replays>> /\ KeepConfig

\* The map, and for a replay the goroutine.
NoteStarted(c) ==
  /\ At(c, "started")
  /\ LET p == planCalls[c].plan
     IN /\ planMemory' = [planMemory EXCEPT ![p] = "running"]
        /\ replays' = [replays EXCEPT ![p].working = @ + IF Mode(p) = "replay" THEN 1 ELSE 0]
  /\ Goto(c, NoCall)
  /\ UNCHANGED <<plans, overrides>> /\ KeepConfig

CancelPlan(c, p) ==
  /\ Free(c) /\ plans[p].status \in {"running", "draft"}
  /\ Goto(c, Request("cancelling", p, <<>>))
  /\ UNCHANGED <<plans, planMemory, overrides, replays>> /\ KeepConfig

WriteCancelled(c) ==
  /\ At(c, "cancelling")
  /\ WriteStatus(planCalls[c].plan, "cancelled")
  /\ Goto(c, [planCalls[c] EXCEPT !.pc = "cancelled"])
  /\ UNCHANGED <<planMemory, overrides, replays>> /\ KeepConfig

NoteCancelled(c) ==
  /\ At(c, "cancelled")
  /\ Note(planCalls[c].plan, "cancelled")
  /\ Goto(c, NoCall)
  /\ UNCHANGED <<plans, overrides, replays>> /\ KeepConfig

\* A replay has compared the log with what the overrides would have decided;
\* what it found is only shown.
CompleteReplay(p) ==
  /\ replays[p].working > 0
  /\ WriteStatus(p, "completed")
  /\ replays' = [replays EXCEPT ![p].working = @ - 1, ![p].done = @ + 1]
  /\ UNCHANGED <<planMemory, overrides, planCalls>> /\ KeepConfig

NoteReplay(p) ==
  /\ replays[p].done > 0
  /\ Note(p, "completed")
  /\ replays' = [replays EXCEPT ![p].done = @ - 1]
  /\ UNCHANGED <<plans, overrides, planCalls>> /\ KeepConfig

\* The tick of one second, under the mutex of the map.
CheckMirrorExpiry ==
  /\ LET due == {p \in Plans : planMemory[p] = "running" /\ HasEnd(p) /\ plans[p].left < 0}
     IN /\ plans' = [p \in Plans |-> IF p \in due THEN [plans[p] EXCEPT !.status = "completed"] ELSE plans[p]]
        /\ planMemory' = [p \in Plans |-> IF p \in due THEN "completed" ELSE planMemory[p]]
  /\ UNCHANGED <<planBound, overrides, planCalls, applier, replays, config, refusing, before, touched>>

-----------------------------------------------------------------------------
(* Applying a plan *)

\* The status is looked at before the mutex is taken, and not again.
ApplyPlan(c, p) ==
  /\ Free(c) /\ plans[p].status \in {"completed", "running"} /\ overrides[p] /= <<>>
  /\ Goto(c, Request("queued", p, overrides[p]))
  /\ UNCHANGED <<plans, planMemory, overrides, replays>> /\ KeepConfig

Begin(c) ==
  /\ applier' = c /\ before' = config /\ touched' = {}
  /\ Goto(c, [planCalls[c] EXCEPT !.pc = "applying"])
  /\ UNCHANGED <<planBound, plans, planMemory, overrides, replays, config, refusing>>

\* Seeded fault: nobody waits for the other.
BeginAtOnce(c) == At(c, "queued") /\ Begin(c)

TakeApplyMutex(c) == At(c, "queued") /\ applier = Nobody /\ Begin(c)

Applied(row, o) == [row EXCEPT ![o.field] = o.value]

NextOverride(call) == call.list[Len(call.saved) + 1]

\* What no manager takes: a row that is gone, a value that is none, a policy
\* (CreatePolicy refuses one that exists).
Refused(o) == o.target \notin Targets \/ o.value = -1 \/ config[o.target] = Deleted

KeepPlans == UNCHANGED <<planBound, plans, planMemory, overrides, replays>>

\* applyOverrideWithUndo reads the row ...
ReadRow(c) ==
  /\ At(c, "applying") /\ Len(planCalls[c].saved) < Len(planCalls[c].list)
  /\ LET o == NextOverride(planCalls[c])
     IN Goto(c, IF Refused(o) THEN [planCalls[c] EXCEPT !.pc = "undoing"]
                ELSE [planCalls[c] EXCEPT !.pc = "writing", !.row = config[o.target]])
  /\ KeepPlans /\ UNCHANGED <<applier, config, refusing, before, touched>>

\* ... and writes it back as a whole with one field changed.
WriteRow(c) ==
  /\ At(c, "writing")
  /\ LET call == planCalls[c]
         o == NextOverride(call)
     IN IF o.target = "quota" /\ refusing
        THEN /\ Goto(c, [call EXCEPT !.pc = "undoing", !.row = Deleted])
             /\ UNCHANGED config
        ELSE /\ Goto(c, [call EXCEPT !.pc = "applying", !.row = Deleted, !.saved = Append(@, call.row)])
             /\ config' = [config EXCEPT ![o.target] = Applied(call.row, o)]
  /\ KeepPlans /\ UNCHANGED <<applier, refusing, before, touched>>

AllApplied(c) == At(c, "applying") /\ Len(planCalls[c].saved) = Len(planCalls[c].list)

\* The row of the plan; when it cannot be written, all is undone.
MarkApplied(c, ok) ==
  /\ AllApplied(c)
  /\ IF ok THEN WriteStatus(planCalls[c].plan, "applied") ELSE UNCHANGED plans
  /\ Goto(c, [planCalls[c] EXCEPT !.pc = IF ok THEN "applied" ELSE "undoing"])
  /\ UNCHANGED <<planMemory, overrides, replays>> /\ KeepConfig

Leave(c) ==
  /\ applier' = Nobody /\ before' = config /\ touched' = {}
  /\ Goto(c, NoCall)
  /\ UNCHANGED <<planBound, plans, overrides, replays, config, refusing>>

NoteApplied(c) ==
  /\ At(c, "applied")
  /\ Note(planCalls[c].plan, "applied")
  /\ Leave(c)

Undo(c, i) ==
  LET call == planCalls[c]
      o == call.list[i]
  IN /\ config' = IF o.target = "quota" /\ refusing THEN config
                  ELSE [config EXCEPT ![o.target] = call.saved[i]]
     /\ Goto(c, [call EXCEPT !.saved = RemoveAt(@, i), !.list = RemoveAt(@, i)])
     /\ KeepPlans /\ UNCHANGED <<applier, refusing, before, touched>>

\* Seeded fault: the first goes first.
UndoInOrder(c) ==
  At(c, "undoing") /\ planCalls[c].saved /= <<>> /\ Undo(c, 1)

\* The last goes first; the quota cannot be set while the breaker is open.
UndoLast(c) ==
  At(c, "undoing") /\ planCalls[c].saved /= <<>> /\ Undo(c, Len(planCalls[c].saved))

EndRollback(c) ==
  /\ At(c, "undoing") /\ planCalls[c].saved = <<>>
  /\ UNCHANGED planMemory
  /\ Leave(c)

-----------------------------------------------------------------------------
(* The managers the configuration belongs to *)

Touch(ts) ==
  /\ touched' = IF applier = Nobody THEN {} ELSE touched \cup ts
  /\ UNCHANGED <<planBound, plans, planMemory, overrides, planCalls, applier, replays>>

OthersWrite(t, row) ==
  /\ t \in planBound.others
  /\ config' = [config EXCEPT ![t] = row]
  /\ before' = IF applier = Nobody THEN config' ELSE before
  /\ UNCHANGED refusing
  /\ Touch({t})

PutRule == \E row \in Rows("rule") : (\A f \in Fields.rule : row[f] > 0) /\ OthersWrite("rule", row)
RemoveRule == config["rule"] /= Deleted /\ OthersWrite("rule", Deleted)
PutQuotaLimit == ~refusing /\ \E row \in Rows("quota") : OthersWrite("quota", row)
LockMoves == \E row \in Rows("lock") : (\A f \in Fields.lock : row[f] <= 1) /\ OthersWrite("lock", row)

BreakerTurns ==
  /\ "quota" \in planBound.others
  /\ refusing' = ~refusing
  /\ UNCHANGED <<config, before>>
  /\ Touch({"quota"})

-----------------------------------------------------------------------------
PlanTimePasses ==
  /\ \E p \in Plans : HasEnd(p) /\ plans[p].status /= "none" /\ plans[p].left >= 0
  /\ plans' = [p \in Plans |-> IF plans[p].status /= "none" /\ HasEnd(p) /\ plans[p].left >= 0
                               THEN [plans[p] EXCEPT !.left = @ - 1] ELSE plans[p]]
  /\ UNCHANGED <<planMemory, overrides, planCalls, replays>> /\ KeepConfig

\* Seeded fault: replays are not taken up again.
ForgetReplays(p) == [working |-> 0, done |-> 0]

ResumeReplays(p) ==
  [working |-> IF plans[p].status = "running" /\ Mode(p) = "replay" THEN 1 ELSE 0, done |-> 0]

\* The process ends, wherever its requests are, and starts again.
RestartPlans ==
  /\ planBound.restarts
  /\ planMemory' = [p \in Plans |-> plans[p].status]
  /\ replays' = [p \in Plans |-> ResumeReplays(p)]
  /\ planCalls' = [c \in PlanClients |-> NoCall]
  /\ applier' = Nobody /\ before' = config /\ touched' = {}
  /\ UNCHANGED <<planBound, plans, overrides, config, refusing>>

PlanInit ==
  /\ planBound \in PlanBounds
  /\ plans = [p \in Plans |-> [status |-> "none", left |-> 0]]
  /\ planMemory = [p \in Plans |-> "none"]
  /\ overrides = [p \in Plans |-> <<>>]
  /\ planCalls = [c \in PlanClients |-> NoCall]
  /\ applier = Nobody
  /\ replays = [p \in Plans |-> [working |-> 0, done |-> 0]]
  /\ config = [t \in Targets |-> [f \in Fields[t] |-> 1]]
  /\ refusing = FALSE /\ before = config /\ touched = {}

\* What a request does next by itself.
PlanStep(c) ==
  \/ NoteCreated(c) \/ InsertOverride(c)
  \/ WriteStarted(c) \/ NoteStarted(c)
  \/ WriteCancelled(c) \/ NoteCancelled(c)
  \/ TakeApplyMutex(c) \/ ReadRow(c) \/ WriteRow(c)
  \/ \E ok \in BOOLEAN : MarkApplied(c, ok)
  \/ NoteApplied(c) \/ UndoLast(c) \/ EndRollback(c)

PlanNext ==
  \/ \E c \in PlanClients, p \in Plans :
       CreatePlan(c, p) \/ AddOverride(c, p) \/ StartPlan(c, p) \/ CancelPlan(c, p) \/ ApplyPlan(c, p)
  \/ \E c \in PlanClients : PlanStep(c)
  \/ \E p \in Plans, i \in 1..planBound.size : RemoveOverride(p, i)
  \/ \E p \in Plans : CompleteReplay(p) \/ NoteReplay(p)
  \/ CheckMirrorExpiry
  \/ PutRule \/ RemoveRule \/ PutQuotaLimit \/ LockMoves \/ BreakerTurns
  \/ PlanTimePasses \/ RestartPlans

\* Time goes on, the ticker runs, and so does what has nobody to wait for.
PlanFairness ==
  /\ WF_planVars(PlanTimePasses) /\ WF_planVars(CheckMirrorExpiry)
  /\ \A c \in PlanClients : WF_planVars(PlanStep(c))
  /\ \A p \in Plans : WF_planVars(CompleteReplay(p)) /\ WF_planVars(NoteReplay(p))

PlanSpec == PlanInit /\ [][PlanNext]_planVars /\ PlanFairness

-----------------------------------------------------------------------------
\* The types of the tables, the map and the requests.
PlanTypes ==
  /\ planBound \in PlanBounds /\ refusing \in BOOLEAN
  /\ \A p \in Plans : plans[p].status \in Statuses /\ plans[p].left \in Nat \cup {-1}
  /\ planMemory \in [Plans -> Statuses]
  /\ \A p \in Plans : overrides[p] \in Seq(planBound.menu)
  /\ replays \in [Plans -> [working : Nat, done : Nat]]
  /\ applier \in PlanClients \cup {Nobody} /\ touched \subseteq Targets
  /\ \A t \in Targets : config[t] \in Rows(t) \cup {Deleted}

\* Where the first n overrides of a list set field f of row t.
Setting(list, n, t, f) == {i \in 1..n : list[i].target = t /\ list[i].field = f}

\* What row t was before with the first n overrides, in their order: the last
\* that sets a field decides about it.
Became(row, list, n, t) ==
  /\ DOMAIN row = DOMAIN before[t]
  /\ \A f \in DOMAIN row :
       LET is == Setting(list, n, t, f)
       IN \/ is = {} /\ row[f] = before[t][f]
          \/ \E i \in is : (\A j \in is : j <= i) /\ row[f] = list[i].value

\* All or nothing: while a plan is applied, and while it is undone because
\* one of its overrides was refused, every row that nobody else wrote since
\* is what it was before with the overrides that stand, in their order and no
\* other plan's; so in the end all of them stand or none.
AppliesAreWhole ==
  \A c \in PlanClients \cap {applier}, t \in Targets \ touched :
    Became(config[t], planCalls[c].list, Len(planCalls[c].saved), t)

TriedOut(p) ==
  \/ plans[p].status = "running" /\ Mode(p) = "replay"
  \/ planMemory[p] = "running" /\ HasEnd(p)

\* No plan is tried out for ever: a replay completes unless its plan ends
\* before, also after a restart, and so does a mirror whose time is over.
PlansEnd == \A p \in Plans : TriedOut(p) ~> ~TriedOut(p)

\* A plan is applied as a whole or not at all, whoever else applies one.
PlansAreSound == PlanTypes /\ AppliesAreWhole

\* What the code does not keep to (see the README): applying a plan never
\* changes who has a lock; a plan that was cancelled stays cancelled; a mirror
\* whose time is over is no longer running in the table.
OwnersStay ==
  [][\A c \in PlanClients : WriteRow(c) \/ UndoLast(c) => config'["lock"].holder = config["lock"].holder]_planVars
CancelledStaysCancelled ==
  [][\A p \in Plans : plans[p].status = "cancelled" => plans'[p].status = "cancelled"]_planVars
MirrorsLeaveTheTable ==
  \A p \in Plans : (plans[p].status = "running" /\ HasEnd(p)) ~> plans[p].status /= "running"
=============================================================================
