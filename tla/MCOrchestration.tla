--------------------------- MODULE MCOrchestration ---------------------------
(* Two locks, two callers, two transactions for TLC. *)
EXTENDS Orchestration, TLC

CONSTANTS l1, l2, h1, h2, t1, t2

TwoLocks == {l1, l2}
OneLock == {l1}
TwoHolders == {h1, h2}
OneHolder == {h1}
TwoTxs == {t1, t2}
OneTx == {t1}
JustBoth == {<<l1, l2>>}
JustTwo == {<<1, 2>>}
SomeLocks == {<<l1>>, <<l1, l2>>}
JustOne == {<<l1>>}
SomeTokens == {<< >>, <<1, 2>>}
NoTokens == {<< >>}
Sym == Permutations(Holders) \cup Permutations(Txs)
=============================================================================
