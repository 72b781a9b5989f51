--------------------------- MODULE MCAuditBreaker ---------------------------
(* Circuit breakers and the plans that try out and override configuration,  *)
(* for TLC, in two scenes: two requests at a time of one caller, which two  *)
(* rules in turn are for; and one or two plans, for each behaviour one      *)
(* story: a rule overridden twice by one request at a time, or by two; a    *)
(* rule, a quota or a lock that others write meanwhile; a replay and a      *)
(* mirror with two requests at a time.                                      *)
EXTENDS AuditBreaker, ShadowPlan

CONSTANTS a, default, k1, k2, p1, p2, nobody

VARIABLE scene

TheRules == {[window |-> 1, threshold |-> 2, cooldown |-> 1],
             [window |-> 1, threshold |-> 1, cooldown |-> 2]}

Set(t, f, v) == [target |-> t, field |-> f, value |-> v]
Window == Set("rule", "window_sec", 2)
Threshold == Set("rule", "failure_threshold", 2)
Quota == Set("quota", "quota_limit", 2)
Reentrant == Set("lock", "reentrant", 0)
Cost == Set("node", "token_cost", 2)
Policy == Set("policy", "max_tokens", 2)

Trial(mode, sec) == [mode |-> mode, sec |-> sec]
Replay == [p \in {p1} |-> Trial("replay", 0)]
EndlessMirror == [p \in {p1} |-> Trial("mirror", 0)]
Both == [p \in {p1, p2} |-> IF p = p1 THEN Trial("replay", 0) ELSE Trial("mirror", 1)]

Story(create, menu, n, cs, others, restarts) ==
  [create |-> create, menu |-> menu, size |-> n, clients |-> cs, others |-> others,
   restarts |-> restarts]

ThePlanBounds ==
  {Story(Replay, {Window, Cost, Policy}, 3, {k1}, {}, TRUE),
   Story(EndlessMirror, {Window, Threshold}, 2, {k1, k2}, {}, FALSE),
   Story(Replay, {Window}, 2, {k1}, {"rule"}, FALSE),
   Story(Replay, {Quota}, 2, {k1}, {"quota"}, FALSE),
   Story(Replay, {Reentrant}, 2, {k1}, {"lock"}, FALSE),
   Story(Both, {}, 0, {k1, k2}, {}, TRUE)}

BreakerScene == scene = "breakers" /\ Next /\ UNCHANGED <<planVars, scene>>
PlanScene == scene = "plans" /\ PlanNext /\ UNCHANGED <<vars, scene>>

\* The plans' scene has one state for each story in which nothing happened.
SceneInit ==
  /\ Init /\ PlanInit /\ scene \in {"breakers", "plans"}
  /\ scene = "breakers" => planBound = CHOOSE b \in PlanBounds : TRUE

SceneSpec ==
  /\ SceneInit
  /\ [][BreakerScene \/ PlanScene]_<<vars, planVars, scene>>
  /\ WF_vars(TimePasses) /\ PlanFairness
  /\ []<>(scene = "breakers" => beat) /\ []<>(scene = "breakers" => ~beat)
=============================================================================
