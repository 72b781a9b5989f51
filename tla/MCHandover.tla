------------------------------ MODULE MCHandover ------------------------------
(* Three callers, and for each behaviour the handovers of one story.         *)
EXTENDS Handover

CONSTANTS a, b, c, nobody, l1, l2, t1, r1, r2, root, policy

TheSubtree == (root :> <<l1, l2>>)

FirstRows(h1, h2, bs) ==
  [locks |-> (l1 :> [holder |-> h1, lease |-> h1]) @@ (l2 :> [holder |-> h2, lease |-> h2]),
   bindings |-> bs,
   txs |-> (t1 :> [holder |-> a, locks |-> a, committed |-> TRUE]),
   reservations |-> [r \in {r1, r2} |-> [caller |-> a, live |-> TRUE]]]

Uses(n) == [policy |-> policy, used |-> n, borrowed |-> 0]

TheFirsts == {FirstRows(a, a, a :> Uses(1)), FirstRows(a, nobody, (a :> Uses(1)) @@ (b :> Uses(1)))}

Give(to, confirm, ls, qs, ts, rs, vs) ==
  [from |-> a, to |-> to, confirm |-> confirm, wait |-> 1, locks |-> ls, quotas |-> qs,
   txs |-> ts, roots |-> rs, reservations |-> vs]

Story(requests, n, k, e) == [requests |-> requests, handovers |-> n, crashes |-> k, events |-> e]

TheBounds ==
  {Story({Give(b, TRUE, <<l1>>, <<>>, <<t1>>, <<>>, <<r1, r2>>),
          Give(c, FALSE, <<>>, <<>>, <<t1>>, <<>>, <<>>),
          Give(c, FALSE, <<>>, <<>>, <<>>, <<>>, <<r2>>)}, 2, 0, 0),
   Story({Give(b, FALSE, <<l1>>, <<a>>, <<>>, <<>>, <<>>)}, 1, 1, 1),
   Story({Give(b, FALSE, <<>>, <<>>, <<t1>>, <<root>>, <<>>)}, 1, 1, 1)}
=============================================================================
