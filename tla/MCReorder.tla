------------------------------ MODULE MCReorder ------------------------------
(* ReorderBuffer on small instances.  The offset is negative when the edge's  *)
(* clock is ahead of the server's, which a .cfg cannot write.                 *)
EXTENDS ReorderBuffer

Ahead == -2

MixedLoad == [s \in Sources |-> IF s \in Buses \ UserspaceStamps THEN 2 ELSE 1]
===============================================================================
