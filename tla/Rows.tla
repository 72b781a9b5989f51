-------------------------------- MODULE Rows --------------------------------
(***************************************************************************)
(* Rows of a queue table, ordered by id, as a sequence: what is left when  *)
(* rows are deleted.                                                       *)
(***************************************************************************)
EXTENDS Integers, Sequences, FiniteSets

(* The n-th smallest of the positions K. *)
Nth(K, n) == CHOOSE j \in K : Cardinality({i \in K : i <= j}) = n

(* The rows of s at the positions K, in their order. *)
Keep(s, K) == [n \in 1..Cardinality(K) |-> s[Nth(K, n)]]

(* The rows of s that stay when those with Drops are deleted. *)
Without(s, Drops(_)) == Keep(s, {i \in DOMAIN s : ~ Drops(s[i])})

=============================================================================
