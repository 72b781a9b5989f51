---------------------------- MODULE MCLockBudget ----------------------------
(* Budgets for TLC, and for each behaviour one story: two locks held through *)
(* periods, stops and crashes; two callers in overdraft and arrears that     *)
(* give each other budget; a caller that is frozen.                          *)
EXTENDS LockBudget

CONSTANTS k1, k2, nobody, l1, l2

Story(d, t, cs, ls, bs, rs, secs, ns, q, n) ==
  [second |-> d, time |-> t, callers |-> cs, locks |-> ls, budgets |-> bs, rules |-> rs,
   secs |-> secs, amounts |-> ns, requests |-> q, restarts |-> n]

Of(limit, overdraft, period) == [limit |-> limit, overdraft |-> overdraft, period |-> period]

TheBounds ==
  {Story(2, 4, {k1}, {l1, l2}, {Of(1, 1, 1)}, {}, {1}, {}, 3, 1),
   Story(1, 4, {k1}, {l1}, {Of(1, 1, 2)}, {}, {2}, {1}, 5, 1),
   Story(1, 3, {k1, k2}, {l1}, {Of(1, 1, 1)}, {}, {2}, {1}, 4, 0),
   Story(1, 4, {k1}, {l1}, {Of(1, 2, 2)}, {[window |-> 2, max |-> 1, freeze |-> 2]}, {2}, {}, 5, 0)}
=============================================================================
