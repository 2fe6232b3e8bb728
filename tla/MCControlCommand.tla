------------------------- MODULE MCControlCommand -------------------------
EXTENDS ControlCommand
===========================================================================
