---- MODULE Positions ----
(***************************************************************************)
(* What is taken out of a sequence by a loop over it, by its positions: a  *)
(* form of SelectSeq that a proof can follow.                              *)
(***************************************************************************)
EXTENDS Integers, Sequences, FiniteSets

\* The n-th position of S.
Nth(S, n) == CHOOSE i \in S : Cardinality({j \in S : j <= i}) = n

\* What stands in s at the positions of S, in order.
Chosen(s, S) == [n \in 1 .. Cardinality(S) |-> s[Nth(S, n)]]
====
