------------------------------ MODULE MCCpuMesi ------------------------------
(***************************************************************************)
(* Small instances of the CPU protocol for TLC.  Cores are interchangeable.*)
(***************************************************************************)
EXTENDS CpuMesi

Symm == Permutations(Core)

\* What follows a late packet is not explored: the invariants say nothing of it.
NotLate == ~late
=============================================================================
