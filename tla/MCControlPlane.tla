--------------------------- MODULE MCControlPlane ---------------------------
(* The control plane for TLC, in three scenes: a path, its child and its     *)
(* grandchild are registered and change state, with two calls at work; two   *)
(* calls register one path and change its policy while its state changes;    *)
(* and callers of a registered path are issued tokens that others validate.  *)
(* A scene withholds requests and no step of the server.                     *)
EXTENDS ControlPlane, TLC

CONSTANTS a, ab, abc, h1, h2, i1, i2, c1, c2, k1, k2, p1, p2

VARIABLE scene

Chain == {a, ab, abc}
ParentInChain == a :> Root @@ ab :> a @@ abc :> ab
Sym ==
  UNION {Permutations(S) : S \in {Issuers, Checkers, Holders, Calls, Policies}}

(* What a state of each scene looks like. *)
NoTokens == counter = [p \in Fenced |-> 1] /\ now = 0
Only(p) == \A c \in Calls : calls[c] # Idle => calls[c].path = p
OnlyTree ==
  /\ NoTokens /\ admitted = {}
  /\ \A c \in Calls : calls[c].at \notin {"policy", "apply"}
  /\ \A p \in Paths : table[p].generation <= 2
OnlyPath == NoTokens /\ Only(a)
OnlyTokens ==
  /\ Only(a) /\ \A c \in Calls : calls[c] # Idle => ~ Known(resources, a)
  /\ \A c, d \in Calls : calls[c] # Idle /\ calls[d] # Idle => c = d
  /\ \A p \in Paths : resources[p].generation <= 1
InScene ==
  CASE scene = "tree" -> OnlyTree [] scene = "path" -> OnlyPath [] scene = "tokens" -> OnlyTokens

SceneInit == ControlInit /\ scene \in {"tree", "path", "tokens"}
SceneNext == ControlNext /\ UNCHANGED scene /\ InScene'
SceneSpec == SceneInit /\ [][SceneNext]_<<controlVars, scene>>
=============================================================================
