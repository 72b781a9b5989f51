------------------------------ MODULE WaitGraph ------------------------------
(***************************************************************************)
(* The wait-for graph of the lock manager (buildWaitGraphLocked) and the   *)
(* reference meaning of its deadlock verdict.  A graph is a set of pairs   *)
(* <<waiter, holder>>.  What the depth-first search of detectCycle         *)
(* computes is modelled in CycleSearch and shown to agree with             *)
(* HasCycleFrom; the lock manager uses the reference.                      *)
(***************************************************************************)

(* The nodes a walk from x can reach, x included: the least set that holds  *)
(* x and that no edge leaves.                                               *)
Reachable(edges, nodes, x) ==
  {y \in nodes : \A S \in SUBSET nodes :
                    (x \in S /\ \A e \in edges : e[1] \in S => e[2] \in S)
                      => y \in S}

(* Some edge inside the graph leads back to its own origin. *)
OnCycle(edges, nodes, x) ==
  \E y \in nodes : <<x, y>> \in edges /\ x \in Reachable(edges, nodes, y)

HasCycleFrom(edges, nodes, x) ==
  \E y \in Reachable(edges, nodes, x) : OnCycle(edges, nodes, y)

Acyclic(edges, nodes) == \A x \in nodes : ~ OnCycle(edges, nodes, x)

=============================================================================
