----------------------------- MODULE MCDeadlocks -----------------------------
(* Deadlocks for TLC, in two scenes: in one callers wait for two locks, and  *)
(* the lock manager asks WouldDeadlock before it lets them; in the other the *)
(* search that answers it runs on every graph of up to four nodes.  The      *)
(* manager holds its mutex while it searches: no step of one scene comes     *)
(* between steps of the other.                                               *)
EXTENDS LockManager, CycleSearch, TLC

CONSTANTS l1, l2, h1, h2, h3, n1, n2, n3, n4

TwoLocks == {l1, l2}
ThreeHolders == {h1, h2, h3}
FourNodes == {n1, n2, n3, n4}

(* Callers and locks are alike.  Exact for SearchEnds too: a permutation of  *)
(* them changes no state of the search's scene, and in the other outcome is  *)
(* never "searching".                                                        *)
Sym == Permutations(Holders) \cup Permutations(Locks)

SearchOver ==
  /\ edges = {} /\ roots = {} /\ visited = {} /\ path = << >> /\ cycle = << >>
  /\ outcome = "none"

SceneInit == Init /\ (SearchInit \/ SearchOver)

LockScene == SearchOver /\ Next /\ UNCHANGED searchVars
SearchScene == SearchNext /\ UNCHANGED vars

SceneSpec ==
  /\ SceneInit /\ [][LockScene \/ SearchScene]_<<vars, searchVars>>
  /\ WF_searchVars(SearchNext)
=============================================================================
