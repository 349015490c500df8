------------------------------ MODULE MCPipeline ------------------------------
(***************************************************************************)
(* A small register file and a few instructions for TLC: an integer        *)
(* register and a flag, an FP stack of two registers, and the status word  *)
(* behind it, which the code numbers as one more name of the stack.        *)
(***************************************************************************)
EXTENDS Pipeline

eax == <<"int", 0>>
zps == <<"int", 1>>
st0 == <<"fp", 0>>
st1 == <<"fp", 1>>
fpst == <<"fp", 2>>

AllDeps == <<eax, zps, st0, st1, fpst>>
AllFlags == {zps}
Sizes == [int |-> 4, fp |-> 5]

U(op, idep, odep) == [op |-> op, idep |-> idep, odep |-> odep]

Add == <<U("alu", {eax}, <<eax, zps>>)>>
Compare == <<U("alu", {eax}, <<zps>>)>>
Load == <<U("load", {eax}, <<eax>>)>>
Branch == <<U("ctrl", {zps}, <<>>)>>
Call == <<U("store", {eax}, <<>>), U("ctrl", {}, <<>>)>>
Syscall == <<U("syscall", {}, <<>>)>>
Fld == <<U("fp_push", {}, <<>>), U("alu", {}, <<st0>>)>>
Fcomp == <<U("alu", {st0}, <<fpst>>), U("fp_pop", {}, <<>>)>>

AllInsts == {Add, Compare, Load, Branch, Call, Syscall, Fld, Fcomp}
=============================================================================
