---------------------------- MODULE MCMemoryPath ----------------------------
(***************************************************************************)
(* A small instance of the memory path for TLC: queues of one packet, a    *)
(* memory controller that takes two accesses.                              *)
(***************************************************************************)
EXTENDS MemoryPath
=============================================================================
