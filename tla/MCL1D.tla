------------------------------- MODULE MCL1D -------------------------------
(***************************************************************************)
(* Small instances of the L1 data cache with its core and the L2 for TLC.  *)
(* The cfg files differ in the bounds and in what the L2 does of its own   *)
(* accord (Demands).  Tags and accesses are interchangeable; ways are not, *)
(* the handlers take the first or the last of them.                        *)
(***************************************************************************)
EXTENDS L1DSystem

Symm == Permutations(Tag) \cup Permutations(Access)
=============================================================================
