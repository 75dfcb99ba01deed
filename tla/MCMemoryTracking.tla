-------------------------- MODULE MCMemoryTracking --------------------------
(* MemoryTracking with pages of four bytes. *)
EXTENDS MemoryTracking
=============================================================================
