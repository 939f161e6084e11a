--------------------------------- MODULE MCPathB ---------------------------------
EXTENDS PathB

CONSTANTS a1, a2, p1, h0, h1, hx, gone

MCProposes == [p \in {p1} |-> h1]
MCReplaces == [p \in {p1} |-> h0]
===================================================================================
