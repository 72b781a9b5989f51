----------------------------- MODULE MCHeartbeat -----------------------------
(* Two or three callers, and for each behaviour one story: a disposal, a      *)
(* freeze, a caller that moves to another group, or groups that depend on     *)
(* each other.                                                                *)
EXTENDS Heartbeat

CONSTANTS k1, k2, k3, nobody, l1, l2, t1, g1, g2, g3, nogroup

TheTxLocks == (t1 :> {l1})

Who(x, g, max, s) == [caller |-> x, group |-> g, max |-> max, strategy |-> s]

Story(rs, gs, ds, asks, n, us, ts, cs) ==
  [requests |-> rs, groups |-> gs, deps |-> ds, asks |-> asks, entries |-> n, users |-> us,
   tokens |-> 1, txs |-> ts, crashes |-> cs]

TheBounds ==
  {Story({Who(k1, nogroup, 1, "release_all")}, {}, {}, {<<k1, l2>>, <<k2, l2>>}, 2, {k1}, {<<t1, k1>>}, 0),
   Story({Who(k1, nogroup, 1, "freeze")}, {}, {}, {<<k1, l1>>, <<k2, l1>>}, 1, {k1}, {<<t1, k1>>}, 0),
   Story({Who(k1, g1, 1, "release_lock_only"), Who(k2, g1, 1, "freeze")},
         {<<g1, 1>>}, {}, {<<k2, l1>>}, 1, {}, {}, 1),
   Story({Who(k1, g, 1, "release_lock_only") : g \in {g1, g2}},
         {<<g1, 1>>, <<g2, 1>>}, {<<g2, g1>>}, {}, 1, {}, {}, 1),
   Story({Who(k1, g1, 2, "release_lock_only"), Who(k2, g3, 1, "release_lock_only")},
         {<<g1, 1>>, <<g2, 1>>, <<g3, 1>>}, {<<g2, g1>>, <<g2, g3>>, <<g3, g1>>}, {}, 1, {}, {}, 0)}
=============================================================================
