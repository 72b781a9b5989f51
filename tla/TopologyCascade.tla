--------------------------- MODULE TopologyCascade ---------------------------
(***************************************************************************)
(* Cascade acquire and release over the resource topology                  *)
(* (internal/topology/manager.go).  Manager.mu guards the graph only: it   *)
(* is given up between the steps of a cascade, so the lock manager, other  *)
(* cascades and changes of the graph interleave with every step.           *)
(*                                                                         *)
(* The maps children and parents hold the edges in the order they were     *)
(* declared, which is the order of the table topo_edges; edges is that     *)
(* table.  Nodes are registered beforehand.  The rate limiter is asked for *)
(* tokens by the nodes in Costly and may refuse at any time.               *)
(***************************************************************************)
EXTENDS LockService, WaitGraph, SequencesExt

CONSTANTS
  Nodes,
  LockOf,      \* the lock name of each node
  Costly,      \* nodes with a rate policy and a token cost
  Calls,       \* cascades that may run at once
  Modes,       \* reentrancy clients ask for, a subset of BOOLEAN
  None,        \* no cascade in progress
  MaxEdges     \* bound on the edges declared

ASSUME TopologyAssumption ==
  /\ LockOf \in [Nodes -> Locks]
  /\ Costly \subseteq Nodes
  /\ Modes \subseteq BOOLEAN
  /\ MaxEdges \in Nat

VARIABLES
  edges,       \* the edges, oldest first
  calls        \* the cascades in progress

vars == <<locks, queue, edges, calls>>

-----------------------------------------------------------------------------
(* The graph *)

Parents(n) == [i \in 1 .. Cardinality({k \in DOMAIN edges : edges[k].to = n}) |->
                 Without(edges, LAMBDA e : e.to # n)[i].from]
Children(n) == [i \in 1 .. Cardinality({k \in DOMAIN edges : edges[k].from = n}) |->
                  Without(edges, LAMBDA e : e.from # n)[i].to]

Pairs(es) == {<<es[i].from, es[i].to>> : i \in DOMAIN es}

(* collectAncestorsLocked.  todo is what the calls of the search that are    *)
(* open have yet to do, the innermost first: to visit a node, or to append   *)
(* it to the list.  A visit of an unseen node visits each of its parents and *)
(* appends it afterwards, seen before or not.                                *)
Task(n, collect) == [node |-> n, collect |-> collect]
Climbs == [list : Seq(Nodes), seen : SUBSET Nodes, todo : Seq([node : Nodes, collect : BOOLEAN])]

(* Seeded fault: a parent is appended before its own ancestors.              *)
OverParentsBefore(n) ==
  [i \in 1 .. 2 * Len(Parents(n)) |-> Task(Parents(n)[(i + 1) \div 2], i % 2 = 1)]

OverParents(n) ==
  [i \in 1 .. 2 * Len(Parents(n)) |-> Task(Parents(n)[(i + 1) \div 2], i % 2 = 0)]

Climb(s) ==
  LET n == Head(s.todo).node
  IN  IF Head(s.todo).collect THEN [s EXCEPT !.todo = Tail(@), !.list = Append(@, n)]
      ELSE IF n \in s.seen THEN [s EXCEPT !.todo = Tail(@)]
      ELSE [s EXCEPT !.todo = OverParents(n) \o Tail(@), !.seen = @ \cup {n}]

Ancestors(n) ==
  LET Walk[s \in Climbs] == IF s.todo = << >> THEN s.list ELSE Walk[Climb(s)]
  IN  Walk[[list |-> << >>, seen |-> {}, todo |-> <<Task(n, FALSE)>>]]

(* collectDescendantsLocked: each node once, before its descendants. *)
Descents == [list : Seq(Nodes), todo : Seq(Nodes)]

Descend(s) ==
  LET n == Head(s.todo)
  IN  IF \E i \in DOMAIN s.list : s.list[i] = n THEN [s EXCEPT !.todo = Tail(@)]
      ELSE [list |-> Append(s.list, n), todo |-> Children(n) \o Tail(s.todo)]

Descendants(n) ==
  LET Walk[s \in Descents] == IF s.todo = << >> THEN s.list ELSE Walk[Descend(s)]
  IN  Walk[[list |-> << >>, todo |-> Children(n)]]

(* Only a cascade that looks at children keeps the mutex between steps. *)
GraphIsFree == \A c \in Calls : calls[c] # None => calls[c].op # "check"

Edge(a, b) == [from |-> a, to |-> b]

DeclareEdge(a, b) ==
  /\ a # b /\ GraphIsFree /\ Len(edges) < MaxEdges
  /\ \A i \in DOMAIN edges : edges[i] # Edge(a, b)
  /\ Acyclic(Pairs(edges) \cup {<<a, b>>}, Nodes)
  /\ edges' = Append(edges, Edge(a, b))
  /\ UNCHANGED <<locks, queue, calls>>

RemoveEdge(a, b) ==
  /\ GraphIsFree
  /\ \E i \in DOMAIN edges : edges[i] = Edge(a, b)
  /\ edges' = Without(edges, LAMBDA e : e = Edge(a, b))
  /\ UNCHANGED <<locks, queue, calls>>

-----------------------------------------------------------------------------
(* CascadeAcquire *)

Call(op, h, re, target, todo) ==
  [op |-> op, holder |-> h, reentrant |-> re, target |-> target, todo |-> todo, got |-> << >>,
   bare |-> FALSE]

(* bare is history: the caller neither held nor waited for anything when the *)
(* cascade began, has asked for nothing else since, and asks for no lock     *)
(* reentrantly that the cascade locks twice.                                 *)
Others(c, h) == {d \in Calls \ {c} : calls[d] # None /\ calls[d].holder = h}
ComesBare(c, call) ==
  /\ \A l \in Locks : locks[l].holder # call.holder /\ call.holder \notin Waiting(l)
  /\ Others(c, call.holder) = {}
  /\ call.reentrant => \A i, j \in DOMAIN call.todo :
                         LockOf[call.todo[i]] = LockOf[call.todo[j]] => i = j

Begin(c, call, bare) ==
  /\ calls[c] = None /\ GraphIsFree
  /\ calls' = [d \in Calls |-> IF d = c THEN [call EXCEPT !.bare = bare]
                              ELSE IF d \in Others(c, call.holder) THEN [calls[d] EXCEPT !.bare = FALSE]
                              ELSE calls[d]]
  /\ UNCHANGED <<locks, queue, edges>>

CascadeAcquire(c, n, h, re) ==
  LET call == Call("acquire", h, re, n, Append(Ancestors(n), n))
  IN  Begin(c, call, ComesBare(c, call))

Item(n, answer) ==
  [node |-> n, again |-> answer = "granted" /\ locks'[LockOf[n]].count > 1]

(* An answer without an error that is neither "queued" nor a deadlock counts *)
(* as a lock obtained, "rejected" included.                                  *)
AcquireNext(c) ==
  /\ calls[c] # None /\ calls[c].op = "acquire" /\ calls[c].todo # << >> /\ GraphIsFree
  /\ LET n == Head(calls[c].todo)
     IN  \E answer \in {"granted", "rejected", "queued", "refused"} :
           /\ Acquire(calls[c].holder, LockOf[n], calls[c].reentrant, answer)
           /\ calls' = IF answer \in {"granted", "rejected"}
                       THEN [calls EXCEPT ![c].op = IF n \in Costly THEN "tokens" ELSE @,
                                          ![c].todo = Tail(@),
                                          ![c].got = Append(@, Item(n, answer))]
                       ELSE [calls EXCEPT ![c].op = "rollback"]
  /\ UNCHANGED edges

(* BindCaller and RequestTokens. *)
ConsumeTokens(c) ==
  /\ calls[c] # None /\ calls[c].op = "tokens"
  /\ \E op \in {"acquire", "rollback"} : calls' = [calls EXCEPT ![c].op = op]
  /\ UNCHANGED <<locks, queue, edges>>

(* Undo in reverse.  A lock the cascade found held already is left alone. *)
(* Seeded fault: what was held already is what is released.               *)
RollbackOthers(c) ==
  /\ calls[c] # None /\ calls[c].op = "rollback" /\ calls[c].got # << >>
  /\ LET item == Last(calls[c].got)
     IN  IF item.again THEN Release(calls[c].holder, LockOf[item.node])
                       ELSE UNCHANGED <<locks, queue>>
  /\ calls' = [calls EXCEPT ![c].got = Front(@)]
  /\ UNCHANGED edges

RollbackNext(c) ==
  /\ calls[c] # None /\ calls[c].op = "rollback" /\ calls[c].got # << >>
  /\ LET item == Last(calls[c].got)
     IN  IF item.again THEN UNCHANGED <<locks, queue>>
                       ELSE Release(calls[c].holder, LockOf[item.node])
  /\ calls' = [calls EXCEPT ![c].got = Front(@)]
  /\ UNCHANGED edges

-----------------------------------------------------------------------------
(* CascadeRelease *)

CascadeRelease(c, n, h, force) ==
  Begin(c, IF force THEN Call("release", h, FALSE, n, Append(Reverse(Descendants(n)), n))
                    ELSE Call("check", h, FALSE, n, Children(n)), FALSE)

(* Without force every child is looked at, under the mutex; one that the     *)
(* caller holds ends the call.                                               *)
CheckChild(c) ==
  /\ calls[c] # None /\ calls[c].op = "check"
  /\ LET call == calls[c]
     IN  calls' = [calls EXCEPT ![c] =
           IF call.todo = << >> THEN [call EXCEPT !.op = "release", !.todo = <<call.target>>]
           ELSE IF locks[LockOf[Head(call.todo)]].holder = call.holder THEN None
           ELSE [call EXCEPT !.todo = Tail(@)]]
  /\ UNCHANGED <<locks, queue, edges>>

ReleaseNext(c) ==
  /\ calls[c] # None /\ calls[c].op = "release" /\ calls[c].todo # << >> /\ GraphIsFree
  /\ Release(calls[c].holder, LockOf[Head(calls[c].todo)])
  /\ calls' = [calls EXCEPT ![c].todo = Tail(@)]
  /\ UNCHANGED edges

Finish(c) ==
  /\ calls[c] # None
  /\ \/ calls[c].op \in {"acquire", "release"} /\ calls[c].todo = << >>
     \/ calls[c].op = "rollback" /\ calls[c].got = << >>
  /\ calls' = [calls EXCEPT ![c] = None]
  /\ UNCHANGED <<locks, queue, edges>>

(* Leases run out, waits time out or are cancelled, whoever the holder is.   *)
LocksMove ==
  /\ \/ \E l \in Locks : Held(l) /\ Lose({l})
     \/ TimeOutWaits
  /\ UNCHANGED <<edges, calls>>

(* The process stops: the cascades are forgotten half done; the edges are    *)
(* loaded back in the order of their ids.                                    *)
Restart ==
  /\ calls' = [c \in Calls |-> None]
  /\ UNCHANGED <<locks, queue, edges>>

-----------------------------------------------------------------------------
Init ==
  /\ InitLocks
  /\ edges = << >>
  /\ calls = [c \in Calls |-> None]

CascadeStep(c) ==
  \/ AcquireNext(c) \/ ConsumeTokens(c) \/ RollbackNext(c)
  \/ CheckChild(c) \/ ReleaseNext(c) \/ Finish(c)

GraphStep == \E a, b \in Nodes : DeclareEdge(a, b) \/ RemoveEdge(a, b)

Next ==
  \/ GraphStep
  \/ \E c \in Calls :
       \/ \E n \in Nodes, h \in Holders :
            \/ \E re \in Modes : CascadeAcquire(c, n, h, re)
            \/ \E force \in BOOLEAN : CascadeRelease(c, n, h, force)
       \/ CascadeStep(c)
  \/ LocksMove
  \/ Restart

Spec == Init /\ [][Next]_vars

(* The graph by itself. *)
GraphSpec == Init /\ [][GraphStep]_vars

-----------------------------------------------------------------------------
CallRow ==
  [op : {"acquire", "tokens", "rollback", "check", "release"}, holder : Holders,
   reentrant : BOOLEAN, target : Nodes, todo : Seq(Nodes),
   got : Seq([node : Nodes, again : BOOLEAN]), bare : BOOLEAN]
LockRow ==
  [status : {"free", "held"}, holder : Holders \cup {NoHolder},
   reentrant : BOOLEAN, count : 0 .. MaxCount]

TypeOK ==
  /\ locks \in [Locks -> LockRow]
  /\ queue \in [Locks -> Seq([holder : Holders, reentrant : BOOLEAN])]
  /\ edges \in Seq([from : Nodes, to : Nodes])
  /\ \A c \in Calls : calls[c] # None => calls[c] \in CallRow

(* Whatever is declared and removed by whom, the topology has no cycle: the  *)
(* walks over it end.                                                        *)
TopologyIsAcyclic == Acyclic(Pairs(edges), Nodes)

(* A cascade takes every lock after those of all its parents: the list the   *)
(* walk makes holds the ancestors, no others, and parents before children,   *)
(* on every graph that declarations can build.                               *)
Before(s, a, b) == \E i, j \in DOMAIN s : i < j /\ s[i] = a /\ s[j] = b
Over(a, b) == a # b /\ b \in Reachable(Pairs(edges), Nodes, a)
ParentsFirst ==
  \A n \in Nodes :
    LET s == Ancestors(n)
    IN  /\ {s[i] : i \in DOMAIN s} = {a \in Nodes : Over(a, n)}
        /\ \A i \in DOMAIN s : \A a \in Nodes :
             Over(a, s[i]) => \E j \in 1 .. (i - 1) : s[j] = a

(* A forced release goes to every descendant, once, and, where no node has   *)
(* two parents, to children before their parents.                            *)
ReleasesEveryDescendant ==
  \A n \in Nodes :
    LET s == Reverse(Descendants(n))
    IN  /\ {s[i] : i \in DOMAIN s} = {d \in Nodes : Over(n, d)}
        /\ \A i, j \in DOMAIN s : s[i] = s[j] => i = j
        /\ (\A m \in Nodes : Len(Parents(m)) <= 1) =>
             \A i, j \in DOMAIN s : Over(s[i], s[j]) => j < i

(* The order cascades lock and unlock in is sound on every graph that can be *)
(* declared: there is no cycle, parents come before children, and a forced   *)
(* release leaves out no descendant.                                         *)
OrderIsSound == TypeOK /\ TopologyIsAcyclic /\ ParentsFirst /\ ReleasesEveryDescendant

(* What a cascade books as acquired ("successfully acquired n nodes") its    *)
(* caller holds at that moment.                                              *)
Books(c) ==
  /\ calls[c] # None /\ calls[c].op = "acquire"
  /\ calls'[c] # None /\ Len(calls'[c].got) > Len(calls[c].got)
BooksWhatItHolds ==
  [][\A c \in Calls :
       Books(c) => locks'[LockOf[Last(calls'[c].got).node]].holder = calls[c].holder]_vars

(* A caller that came with nothing has at any time only what its cascade has *)
(* booked and not undone, or the lock it was queued for when the cascade     *)
(* gave up.  So a rollback leaves it none of the locks it passed ("lock      *)
(* released"), whatever leases run out, locks change hands and edges move.   *)
StuckAt(call, l) == call.op = "rollback" /\ call.todo # << >> /\ LockOf[Head(call.todo)] = l
LeavesWithNothing ==
  \A c \in Calls : calls[c] # None /\ calls[c].bare =>
    \A l \in Locks : locks[l].holder = calls[c].holder =>
      StuckAt(calls[c], l) \/ \E i \in DOMAIN calls[c].got : LockOf[calls[c].got[i].node] = l

(* Undoing a cascade takes away every lock it obtained ("lock released").    *)
Undone(c) == calls[c] # None /\ calls[c].op = "rollback" /\ calls[c].got # << >>
RollbackReleases ==
  [][\A c \in Calls :
       Undone(c) /\ RollbackNext(c) /\ ~ Last(calls[c].got).again =>
         locks'[LockOf[Last(calls[c].got).node]].holder # calls[c].holder]_vars

(* A cascade that was rolled back leaves nothing behind: its caller waits    *)
(* for no lock afterwards.                                                   *)
RolledBack(c) == calls[c] # None /\ calls[c].op = "rollback" /\ calls[c].got = << >>
NoWaitIsLeft ==
  [][\A c \in Calls :
       RolledBack(c) /\ Finish(c) => \A l \in Locks : calls[c].holder \notin Waiting(l)]_vars

=============================================================================
