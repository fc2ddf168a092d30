----------------------------- MODULE StoreForward -----------------------------
(***************************************************************************)
(* What the edge's store-and-forward path promises, without its tasks,     *)
(* channels, batches and connections: a frame accepted from the bus may be *)
(* written to the network any number of times and may be put in a durable  *)
(* backlog, and it leaves the backlog only after it was written.  The      *)
(* server reads only what was written.                                     *)
(* EdgeStoreForward implements this specification unless power is lost.    *)
(***************************************************************************)
EXTENDS Naturals

VARIABLES
  accepted,    (* number of frames accepted; a frame is its number         *)
  backlog,     (* frames stored and not yet settled                        *)
  written,     (* frames handed to the network at least once               *)
  delivered    (* frames read by the server at least once                  *)

vars == <<accepted, backlog, written, delivered>>

Frames == 1..accepted

Init ==
  /\ accepted = 0
  /\ backlog = {}
  /\ written = {}
  /\ delivered = {}

Accept ==
  /\ accepted' = accepted + 1
  /\ UNCHANGED <<backlog, written, delivered>>

Store ==
  /\ \E S \in SUBSET Frames : backlog' = backlog \cup S
  /\ UNCHANGED <<accepted, written, delivered>>

Write ==
  /\ \E f \in Frames : written' = written \cup {f}
  /\ UNCHANGED <<accepted, backlog, delivered>>

Settle ==
  /\ \E S \in SUBSET (backlog \cap written) : backlog' = backlog \ S
  /\ UNCHANGED <<accepted, written, delivered>>

Deliver ==
  /\ \E f \in written : delivered' = delivered \cup {f}
  /\ UNCHANGED <<accepted, backlog, written>>

Next == Accept \/ Store \/ Write \/ Settle \/ Deliver

Spec == Init /\ [][Next]_vars
===============================================================================
