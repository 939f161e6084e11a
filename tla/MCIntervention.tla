--------------------------- MODULE MCIntervention ---------------------------
(* Two obligations of one lazy actor, and the id a reroute of the first one     *)
(* creates for the actor it escalates to.                                       *)
EXTENDS Intervention

CONSTANTS o1, o2, r1, lazy, boss

MCActorOf == [o \in Obs |-> IF o = r1 THEN boss ELSE lazy]
MCRerouteOf == [o \in Obs |-> IF o = o1 /\ r1 \in Obs THEN r1 ELSE NoOb]
=============================================================================
