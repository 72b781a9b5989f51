---------------------------- MODULE MCDebtLedger ----------------------------
(* Two callers for TLC, one rule strict on one debt and one that takes two, *)
(* whose protection one debt alone does not reach within the window.        *)
EXTENDS DebtLedger

CONSTANTS a, b

Strict == [grace |-> 1, threshold |-> 1, scope |-> "all", retries |-> 1, protection |-> 1]
Loose == [grace |-> 1, threshold |-> 2, scope |-> "token", retries |-> 2, protection |-> 2]
TheRules == {Strict, Loose}

Limits(t, n, r, as) == [time |-> t, debts |-> n, restarts |-> r, amounts |-> as]
TheBounds == {Limits(1, 2, 0, {1, 2}), Limits(2, 1, 1, {1})}
=============================================================================
