------------------------------ MODULE MCCIEUSeal ------------------------------
(* Two sessions, of two events and one.                                         *)
EXTENDS CIEUSeal

CONSTANTS a1, a2, b1, p1, sa, sb

MCSessionOf == [e \in Events |-> IF e = b1 THEN sb ELSE sa]
=============================================================================
