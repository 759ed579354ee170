---------------------------- MODULE MCGcodeQueue ----------------------------
(* GcodeQueue with a ring of three slots and a message queue of two, for TLC: *)
(* the ring fills, wraps and runs empty, and a clear meets it at every step. *)
EXTENDS GcodeQueue
=============================================================================
