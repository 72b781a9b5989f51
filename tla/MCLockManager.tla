---------------------------- MODULE MCLockManager ----------------------------
(* Instances of the lock manager for TLC. *)
EXTENDS LockManager, TLC

CONSTANTS l1, l2, h1, h2, h3

OneLock == {l1}
TwoLocks == {l1, l2}
TwoHolders == {h1, h2}
ThreeHolders == {h1, h2, h3}
OneGold == {h3}
SecondGold == {h2}
Sym == Permutations(Holders) \cup Permutations(Locks)
=============================================================================
