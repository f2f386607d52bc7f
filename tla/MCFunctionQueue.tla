--------------------------- MODULE MCFunctionQueue ---------------------------
EXTENDS FunctionQueue
=============================================================================
