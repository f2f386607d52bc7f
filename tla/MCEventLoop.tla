----------------------------- MODULE MCEventLoop -----------------------------
EXTENDS EventLoop
=============================================================================
