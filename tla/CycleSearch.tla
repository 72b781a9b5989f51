----------------------------- MODULE CycleSearch -----------------------------
(***************************************************************************)
(* The depth-first search that looks for a cycle, one visit per step:      *)
(* detectCycle of the lock manager, which starts from the caller that is   *)
(* about to wait, and hasCycleDFS of the topology manager, which starts    *)
(* from every node.  The graph does not change while it runs (both hold    *)
(* their mutex).  Edges are followed, and nodes started from, in the order *)
(* of a Go map, which is any order.  A node is on recStack exactly when    *)
(* its call of dfs has not returned, so path stands for both.              *)
(***************************************************************************)
EXTENDS Integers, Sequences, WaitGraph

CONSTANTS Nodes      \* callers, or resources of the topology

VARIABLES
  edges,    \* adj: pairs of nodes
  roots,    \* where the search starts: the waiter, or every node
  visited,
  path,     \* the nodes of the calls of dfs that have not returned
  cycle,    \* cycleNodes
  outcome   \* "searching", and then "cycle" or "none"

searchVars == <<edges, roots, visited, path, cycle, outcome>>

OnPath == {path[i] : i \in DOMAIN path}
Top == path[Len(path)]
Successors(x) == {y \in Nodes : <<x, y>> \in edges}

SearchInit ==
  /\ edges \in SUBSET {e \in Nodes \X Nodes : e[1] # e[2]}
  /\ roots \in {{x} : x \in Nodes} \cup {Nodes}
  /\ visited = {} /\ path = << >> /\ cycle = << >>
  /\ outcome = "searching"

(* Seeded fault: the call is not remembered. *)
VisitForgotten(y) ==
  /\ path' = Append(path, y)
  /\ UNCHANGED <<edges, roots, visited, cycle, outcome>>

(* dfs(y) is called. *)
Visit(y) ==
  /\ visited' = visited \cup {y}
  /\ path' = Append(path, y)
  /\ UNCHANGED <<edges, roots, cycle, outcome>>

Begin ==
  /\ outcome = "searching" /\ path = << >>
  /\ \E x \in roots \ visited : Visit(x)

Descend ==
  /\ outcome = "searching" /\ path # << >>
  /\ \E y \in Successors(Top) \ visited : Visit(y)

(* A node whose call has not returned is reached again. *)
Back == Successors(Top) \cap OnPath

(* Seeded fault: any node seen before counts, and the report is the whole    *)
(* path.                                                                     *)
CloseOnVisited ==
  /\ outcome = "searching" /\ path # << >>
  /\ Successors(Top) \cap visited # {}
  /\ cycle' = path
  /\ outcome' = "cycle"
  /\ UNCHANGED <<edges, roots, visited, path>>

Close ==
  /\ outcome = "searching" /\ path # << >>
  /\ \E i \in DOMAIN path :
       /\ path[i] \in Back
       /\ cycle' = SubSeq(path, i, Len(path))
  /\ outcome' = "cycle"
  /\ UNCHANGED <<edges, roots, visited, path>>

Return ==
  /\ outcome = "searching" /\ path # << >>
  /\ Successors(Top) \subseteq visited \ OnPath
  /\ path' = SubSeq(path, 1, Len(path) - 1)
  /\ UNCHANGED <<edges, roots, visited, cycle, outcome>>

GiveUp ==
  /\ outcome = "searching" /\ path = << >> /\ roots \subseteq visited
  /\ outcome' = "none"
  /\ UNCHANGED <<edges, roots, visited, path, cycle>>

SearchNext == Begin \/ Descend \/ Close \/ Return \/ GiveUp

SearchSpec == SearchInit /\ [][SearchNext]_searchVars
FairSearchSpec == SearchSpec /\ WF_searchVars(SearchNext)

-----------------------------------------------------------------------------
SearchTyped ==
  /\ edges \in SUBSET (Nodes \X Nodes)
  /\ roots \in SUBSET Nodes
  /\ visited \in SUBSET Nodes
  /\ path \in Seq(Nodes)
  /\ cycle \in Seq(Nodes)
  /\ outcome \in {"searching", "cycle", "none"}

(* The verdict is the right one: a cycle is reported exactly when one can be *)
(* reached from where the search began.  A request is refused as a deadlock  *)
(* on this verdict alone, and a new edge of the topology likewise.           *)
VerdictIsRight ==
  /\ outcome = "cycle" => \E x \in roots : HasCycleFrom(edges, Nodes, x)
  /\ outcome = "none" => \A x \in roots : ~ HasCycleFrom(edges, Nodes, x)

(* What is reported is a cycle: each node waits for the next, the last for   *)
(* the first.  checkDeadlockLocked hands it to the client edge by edge.      *)
ReportIsACycle ==
  outcome = "cycle" =>
    /\ cycle # << >>
    /\ \A i \in 1..(Len(cycle) - 1) : <<cycle[i], cycle[i + 1]>> \in edges
    /\ <<cycle[Len(cycle)], cycle[1]>> \in edges

(* The search ends, on cyclic graphs as well. *)
SearchEnds == <>(outcome # "searching")

(* Whatever edges there are and in whatever order they are followed, the     *)
(* answer that is given is the right one, and what is reported is a cycle.   *)
AnswerIsRight == SearchTyped /\ VerdictIsRight /\ ReportIsACycle
=============================================================================
