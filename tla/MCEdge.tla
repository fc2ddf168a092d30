------------------------------- MODULE MCEdge -------------------------------
EXTENDS EdgeStoreForward
=============================================================================
