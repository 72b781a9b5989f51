---------------------------- MODULE MCRateLimit ----------------------------
(* Two callers and one policy at a time for TLC, and for each behaviour one *)
(* of a few combinations of bounds.                                         *)
EXTENDS RateLimit

CONSTANTS k1, k2, window

TheAlgorithm == (window :> "token_bucket")
TheMaximum == (window :> 1)

Limits(t, i, r, n, as, cs) ==
  [time |-> t, items |-> i, reservations |-> r, borrows |-> n, amounts |-> as, callers |-> cs]

TheBounds ==
  {Limits(2, 0, 2, 0, {1}, {k1}), Limits(1, 2, 0, 0, {1, 2}, {k1}), Limits(1, 0, 1, 1, {1}, {k1, k2}),
   Limits(1, 1, 0, 1, {1}, {k1, k2})}
=============================================================================
