----------------------------- MODULE MCSimpleCam -----------------------------
EXTENDS SimpleCam
=============================================================================
