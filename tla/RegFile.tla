------------------------------- MODULE RegFile -------------------------------
(***************************************************************************)
(* The physical register file of a hardware thread (reg-file.c): a map     *)
(* from logical to physical registers, a stack of free registers, and for  *)
(* each physical register how many logical ones are or were mapped to it   *)
(* (busy) and whether its value is still to come (pending).  Integer, FP   *)
(* and XMM registers have a file each; flags live in the integer file and  *)
(* FP names are relative to the top of the register stack.  The operators  *)
(* take a register file and return the one the C function leaves behind;   *)
(* ok turns FALSE when one of its assertions fails.  The counts that       *)
(* X86ThreadCanRenameUop() reads are always the size of a file less its    *)
(* free registers, so they are no state of their own.                      *)
(***************************************************************************)
EXTENDS Integers, SequencesExt

CONSTANTS
  Deps,        \* sequence of the logical registers <<file, name>>, as numbered
  Flag,        \* the logical registers that are flags
  StackDepth,  \* registers of the FP stack (8)
  MaxOutputs,  \* most outputs of a micro-instruction (X86_UINST_MAX_ODEPS)
  FileSize     \* physical registers of each file

FileOf(r) == r[1]

Logical == ToSet(Deps)
File == {FileOf(l) : l \in Logical}
Phys == UNION {{f} \X (1..FileSize[f]) : f \in File}
NoReg == <<"none", 0>>

\* x86_dep_t: the FP stack comes first in its file, and flags behind others.
ASSUME NamesFit ==
  /\ Logical \subseteq {"int", "fp", "xmm"} \X Nat
  /\ Deps \in Seq(Logical) /\ IsInjective(Deps)
  /\ StackDepth \in Nat \ {0}
  /\ "fp" \in File => {"fp"} \X (0..(StackDepth - 1)) \subseteq Logical
  /\ Flag \subseteq {l \in Logical : FileOf(l) = "int"} /\ Deps[1] \notin Flag

\* X86ReadRegFileConfig(): a file has a register for each logical one, flags
\* included, and as many again as one micro-instruction may rename.
ASSUME FilesFit ==
  /\ MaxOutputs \in Nat /\ FileSize \in [File -> Nat]
  /\ \A f \in File : FileSize[f] >= Cardinality({l \in Logical : FileOf(l) = f}) + MaxOutputs

\* What a micro-instruction does, the registers it reads and those it writes.
Uinst == [op : STRING, idep : SUBSET Logical, odep : Seq(Logical)]

\* The register a name stands for while the FP stack has this top.
Resolve(l, top) == IF FileOf(l) = "fp" THEN <<"fp", (l[2] + top) % StackDepth>> ELSE l

Shift(op) == CASE op = "fp_pop" -> 1 [] op = "fp_push" -> StackDepth - 1 [] OTHER -> 0

\* X86ThreadRequestIntReg() and its likes take the register on top of the stack.
Request(rf, f) ==
  IF rf.free[f] = <<>> THEN [rf EXCEPT !.ok = FALSE]
  ELSE [rf EXCEPT !.free[f] = Front(@),
                  !.ok = @ /\ rf.busy[Last(rf.free[f])] = 0 /\ ~rf.pending[Last(rf.free[f])]]

Requested(rf, f) == IF rf.free[f] = <<>> THEN <<f, 1>> ELSE Last(rf.free[f])

\* Mutant: a register nothing maps any more is not put back.
DropForGood(rf, p) == [rf EXCEPT !.busy[p] = @ - 1]

Drop(rf, p) ==
  [rf EXCEPT !.busy[p] = @ - 1,
             !.free[FileOf(p)] = IF rf.busy[p] = 1 THEN Append(@, p) ELSE @,
             !.ok = @ /\ rf.busy[p] > 0]

\* At reset every register has a physical one of its own, the flags share the
\* one taken last before them.
InitOne(acc, l) ==
  LET p == IF l \in Flag THEN acc.last ELSE Requested(acc.rf, FileOf(l))
      rf == IF l \in Flag THEN acc.rf ELSE Request(acc.rf, FileOf(l))
  IN [rf |-> [rf EXCEPT !.busy[p] = @ + 1, !.rat[l] = p], last |-> p]

MapAtReset(names) ==
  FoldLeft(InitOne,
           [rf |-> [rat |-> [l \in Logical |-> NoReg],
                    free |-> [f \in File |-> [i \in 1..FileSize[f] |-> <<f, i>>]],
                    busy |-> [p \in Phys |-> 0], pending |-> [p \in Phys |-> FALSE],
                    top |-> 0, ok |-> TRUE],
            last |-> NoReg],
           names)

InitRegFile == MapAtReset(Deps).rf

\* x86_uop_count_deps(): flags need a register only when no integer output
\* lends them its own.
Needs(uinst, f) ==
  LET flags == {k \in DOMAIN uinst.odep : uinst.odep[k] \in Flag}
      outs == {k \in DOMAIN uinst.odep : FileOf(uinst.odep[k]) = f} \ flags
  IN IF f = "int" /\ outs = {} /\ flags # {} THEN 1 ELSE Cardinality(outs)

CanRename(rf, uinst) == \A f \in File : Needs(uinst, f) <= Len(rf.free[f])

RenameOutput(acc, l) ==
  LET share == l \in Flag /\ acc.first # NoReg
      rf == IF share THEN acc.rf ELSE Request(acc.rf, FileOf(l))
      p == IF share THEN acc.first ELSE Requested(acc.rf, FileOf(l))
      to == Resolve(l, acc.rf.top)
  IN [rf |-> [rf EXCEPT !.busy[p] = @ + 1, !.pending[p] = TRUE, !.rat[to] = p],
      odep |-> Append(acc.odep, p), oodep |-> Append(acc.oodep, acc.rf.rat[to]),
      first |-> IF FileOf(l) = "int" /\ acc.first = NoReg THEN p ELSE acc.first]

RenameOutputs(rf, outputs) ==
  FoldLeft(RenameOutput, [rf |-> rf, odep |-> <<>>, oodep |-> <<>>, first |-> NoReg], outputs)

\* Mutant: the inputs are looked up behind the uop's own outputs.
RenameLate(rf, uinst) ==
  LET moved == [rf EXCEPT !.top = (@ + Shift(uinst.op)) % StackDepth]
      outs == RenameOutputs(moved, uinst.odep)
  IN [rf |-> outs.rf, ph_odep |-> outs.odep, ph_oodep |-> outs.oodep,
      ph_idep |-> [l \in uinst.idep |-> outs.rf.rat[Resolve(l, moved.top)]]]

\* X86ThreadRenameUop(): the FP stack moves first; inputs are looked up before
\* outputs are mapped; flags come last and share the first integer register.
Rename(rf, uinst) ==
  LET moved == [rf EXCEPT !.top = (@ + Shift(uinst.op)) % StackDepth]
      outs == RenameOutputs(moved, uinst.odep)
  IN [rf |-> outs.rf, ph_odep |-> outs.odep, ph_oodep |-> outs.oodep,
      ph_idep |-> [l \in uinst.idep |-> moved.rat[Resolve(l, moved.top)]]]

\* X86ThreadIsUopReady(): "Return 1 if input dependencies are resolved".
IsReady(rf, u) == \A l \in u.uinst.idep : ~rf.pending[u.ph_idep[l]]

\* X86ThreadWriteUop(), whatever the registers are used for by then.
Write(rf, u) ==
  [rf EXCEPT !.pending = [p \in Phys |-> @[p] /\ p \notin ToSet(u.ph_odep)]]

\* X86ThreadUndoUop() of a uop taken off the tail of the ROB, outputs in
\* reverse order; the FP stack moves back last.
UndoOutput(u, k, rf) ==
  LET r == Drop(rf, u.ph_odep[k])
  IN [r EXCEPT !.rat[Resolve(u.uinst.odep[k], rf.top)] = u.ph_oodep[k],
               !.ok = @ /\ ~rf.pending[u.ph_odep[k]] /\ r.busy[u.ph_oodep[k]] > 0]

UndoOutputs(rf, u) ==
  FoldRight(LAMBDA k, acc : UndoOutput(u, k, acc), [k \in DOMAIN u.ph_odep |-> k], rf)

Undo(rf, u) ==
  [UndoOutputs(rf, u) EXCEPT !.top = (@ + StackDepth - Shift(u.uinst.op)) % StackDepth,
                             !.ok = @ /\ u.specmode]

\* X86ThreadCommitUop(): what the outputs were mapped to before is let go.
CommitOutput(rf, p) == [Drop(rf, p) EXCEPT !.ok = @ /\ (rf.busy[p] = 1 => ~rf.pending[p])]

CommitOutputs(rf, kept) == FoldLeft(CommitOutput, rf, kept)

CommitRegs(rf, u) == [CommitOutputs(rf, u.ph_oodep) EXCEPT !.ok = @ /\ ~u.specmode]
=============================================================================
