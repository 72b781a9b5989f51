-------------------------- MODULE MCCooldownControl --------------------------
(* Up to two controllers and two clients for TLC. *)
EXTENDS CooldownControl

CONSTANTS o1, o2, c1, c2

OneController == {o1}
TwoControllers == {o1, o2}
OneClient == {c1}
TwoClients == {c1, c2}
=============================================================================
