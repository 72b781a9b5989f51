-------------------------- MODULE MCTopologyCascade --------------------------
(* Topologies for TLC, in three scenes: one in which four nodes are linked    *)
(* and unlinked in every way, and two in which two cascades run on two of     *)
(* them while locks change hands.  A scene withholds requests and no step of  *)
(* the server.                                                                *)
EXTENDS TopologyCascade, TLC

CONSTANTS n1, n2, n3, n4, k1, k2, h1, h2, c1, c2

VARIABLE scene

FourNodes == {n1, n2, n3, n4}
LockOfAll == [n \in Nodes |-> IF n \in {n1, n4} THEN k1 ELSE k2]

(* Nothing tells callers from each other, nor cascades. *)
Symmetric == Permutations(Holders) \cup Permutations(Calls)

(* What a state of the second and of the third scene looks like: callers ask *)
(* plainly, on either link of two nodes, or reentrantly, on one of them.     *)
Linked(links) == Len(edges) <= 1 /\ \A i \in DOMAIN edges : edges[i] \in links
Running(call) == call.op \in {"acquire", "tokens", "rollback"}
InPlain ==
  /\ Linked({Edge(n1, n2), Edge(n2, n1)})
  /\ \A c \in Calls : calls[c] # None => calls[c].target \in {n1, n2} /\ ~ calls[c].reentrant
InReentrant ==
  /\ Linked({Edge(n1, n2)})
  /\ \A c \in Calls : calls[c] # None =>
       calls[c].target = n2 /\ (Running(calls[c]) => calls[c].reentrant)

SceneInit == Init /\ scene \in {"edges", "plain", "reentrant"}
SceneNext ==
  /\ UNCHANGED scene
  /\ \/ scene = "edges" /\ GraphStep
     \/ scene = "plain" /\ Next /\ InPlain'
     \/ scene = "reentrant" /\ Next /\ InReentrant'
SceneSpec == SceneInit /\ [][SceneNext]_<<vars, scene>>

(* No scene, for the small topologies of the configurations the README names. *)
WholeSpec == Init /\ scene = "whole" /\ [][Next /\ UNCHANGED scene]_<<vars, scene>>
=============================================================================
