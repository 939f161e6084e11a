----------------------------- MODULE MCGrantChain -----------------------------
(* Two workers and two grants for one target, which are interchangeable.         *)
EXTENDS GrantChain, TLC

CONSTANTS w1, w2, g1, g2

MCTarget == [g \in Grants |-> "eng-platform"]

MCSymmetry == Permutations(Workers) \cup Permutations(Grants)
===============================================================================
