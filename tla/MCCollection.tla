---------------------------- MODULE MCCollection ----------------------------
EXTENDS CollectionSessions
=============================================================================
