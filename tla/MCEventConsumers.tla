--------------------------- MODULE MCEventConsumers ---------------------------
EXTENDS EventConsumers

CONSTANTS w1, w2
=============================================================================
