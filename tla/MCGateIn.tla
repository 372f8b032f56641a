------------------------------ MODULE MCGateIn ------------------------------
EXTENDS GateIn
=============================================================================
