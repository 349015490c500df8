------------------------------- MODULE Pipeline -------------------------------
(***************************************************************************)
(* The out-of-order core that issues the accesses of the memory system:    *)
(* one hardware thread with private structures.  A micro-instruction (uop) *)
(* goes from the fetch queue to the uop queue, is renamed into the reorder *)
(* buffer and waits in the instruction queue or the load/store queues for  *)
(* its operands; the memory system or a functional unit puts it in the     *)
(* event queue, writeback completes it and commit retires it in order.     *)
(* Past a mispredicted branch the uops are of the wrong path, and recovery *)
(* takes them out again, except the accesses the memory system holds.      *)
(*                                                                         *)
(* A uop is named by its id, and exists while it is in DOMAIN uop.  Each   *)
(* action handles one entry of one stage, in any order: latencies, widths, *)
(* functional units and a cache that accepts no access are what the order  *)
(* stands for.                                                             *)
(***************************************************************************)
EXTENDS RegFile, Functions

CONSTANTS
  Insts,           \* the macro-instructions, each the sequence of its uinsts
  MaxUops,         \* bound on the uops fetched
  RobSize, IqSize, LsqSize, FetchQueueSize, UopQueueSize,
  RecoverKinds     \* stages of recovery, of {"writeback", "commit"}

ASSUME PipelineConstants ==
  /\ MaxUops \in Nat
  /\ {RobSize, IqSize, LsqSize, FetchQueueSize, UopQueueSize} \subseteq Nat \ {0}
  /\ RecoverKinds \subseteq {"writeback", "commit"}
  /\ \A inst \in Insts : inst \in Seq(Uinst) /\ inst # <<>>
  /\ \A inst \in Insts : \A k \in DOMAIN inst :
       /\ Len(inst[k].odep) <= MaxOutputs
       /\ \A i, j \in DOMAIN inst[k].odep :  \* flags are renamed last
            i < j /\ inst[k].odep[i] \in Flag => inst[k].odep[j] \in Flag
       /\ inst[k].op = "ctrl" => k = Len(inst)

VARIABLES
  uop,           \* the uops that exist, by id
  fetched,       \* uop_id_counter
  fetch_queue, uop_queue, rob,  \* sequences of ids, oldest first
  iq, lq, sq,    \* ids that wait to issue
  memory,        \* ids of the accesses the memory system holds
  event_queue,   \* ids whose result is there, or comes with time
  regs,          \* the register file
  wrong_path,    \* fetch_neip is not where the program goes
  recover_kind   \* x86_cpu_recover_kind

vars == <<uop, fetched, fetch_queue, uop_queue, rob, iq, lq, sq, memory, event_queue, regs,
          wrong_path, recover_kind>>

Op(u) == uop[u].uinst.op
IsMem(u) == Op(u) \in {"load", "store"}

\* The structures a uop knows it is in (in_fetch_queue to in_rob).
Queued == ToSet(fetch_queue) \union ToSet(uop_queue) \union ToSet(rob) \union iq \union lq \union sq

\* x86_uop_free_if_not_queued() of the uops in S, once they left their queues.
FreeIfNotQueued(f, S) ==
  Restrict(f, {u \in DOMAIN f : u \in S => u \in Queued' \/ f[u].in_event_queue})

Init ==
  /\ uop = <<>> /\ fetched = 0
  /\ fetch_queue = <<>> /\ uop_queue = <<>> /\ rob = <<>>
  /\ iq = {} /\ lq = {} /\ sq = {} /\ memory = {} /\ event_queue = {}
  /\ regs = InitRegFile
  /\ wrong_path = FALSE
  /\ recover_kind \in RecoverKinds

-----------------------------------------------------------------------------
(* The front end.                                                          *)

NewUop(inst, k, mispredicted) ==
  [uinst |-> inst[k], mop_index |-> k - 1, specmode |-> wrong_path,
   mispredicted |-> mispredicted /\ inst[k].op = "ctrl",
   in_event_queue |-> FALSE, completed |-> FALSE, syscall_ready |-> FALSE,
   ph_idep |-> <<>>, ph_odep |-> <<>>, ph_oodep |-> <<>>]

\* X86ThreadFetchInst(): the emulator runs the instruction, on the wrong path
\* in speculative mode, and the predictor may then name the wrong successor.
\* The size of the queue is counted in macro-instructions.
Fetch(inst) ==
  LET ids == [k \in DOMAIN inst |-> fetched + k]
  IN /\ fetched + Len(inst) <= MaxUops
     /\ Cardinality({u \in ToSet(fetch_queue) : uop[u].mop_index = 0}) < FetchQueueSize
     /\ \E mispredicted \in {FALSE, Last(inst).op = "ctrl"} :
          /\ uop' = [u \in DOMAIN uop \union ToSet(ids) |->
                       IF u \in DOMAIN uop THEN uop[u] ELSE NewUop(inst, u - fetched, mispredicted)]
          /\ wrong_path' = (wrong_path \/ mispredicted)
     /\ fetched' = fetched + Len(inst)
     /\ fetch_queue' = fetch_queue \o ids
     /\ UNCHANGED <<uop_queue, rob, iq, lq, sq, memory, event_queue, regs, recover_kind>>

\* X86ThreadDecode(): a whole macro-instruction moves, if the uop queue has
\* room for its first uop.
Decode ==
  /\ fetch_queue # <<>>
  /\ Len(uop_queue) < UopQueueSize
  /\ LET rest == SelectInSubSeq(fetch_queue, 2, Len(fetch_queue), LAMBDA u : uop[u].mop_index = 0)
         n == IF rest = 0 THEN Len(fetch_queue) ELSE rest - 1
     IN /\ uop_queue' = uop_queue \o SubSeq(fetch_queue, 1, n)
        /\ fetch_queue' = SubSeq(fetch_queue, n + 1, Len(fetch_queue))
  /\ UNCHANGED <<uop, fetched, rob, iq, lq, sq, memory, event_queue, regs, wrong_path, recover_kind>>

-----------------------------------------------------------------------------
(* Dispatch and issue.                                                     *)

\* X86ThreadCanDispatch(): nothing is dispatched behind a system call that is
\* the oldest uop in the ROB.  A full instruction queue is a stall like the
\* others here; the code gives up when it meets one at the start of a cycle.
CanDispatch(u) ==
  /\ rob # <<>> => Op(Head(rob)) # "syscall"
  /\ Len(rob) < RobSize
  /\ IF IsMem(u) THEN Cardinality(lq \union sq) < LsqSize ELSE Cardinality(iq) < IqSize
  /\ CanRename(regs, uop[u].uinst)

Dispatch ==
  /\ uop_queue # <<>>
  /\ LET u == Head(uop_queue)
     IN /\ CanDispatch(u)
        /\ \E new \in {Rename(regs, uop[u].uinst)} :
             /\ regs' = new.rf
             /\ uop' = [uop EXCEPT ![u].ph_idep = new.ph_idep, ![u].ph_odep = new.ph_odep,
                                   ![u].ph_oodep = new.ph_oodep]
        /\ rob' = Append(rob, u)
        /\ iq' = iq \union ({u} \ {v \in {u} : IsMem(v)})
        /\ lq' = lq \union {v \in {u} : Op(v) = "load"}
        /\ sq' = sq \union {v \in {u} : Op(v) = "store"}
  /\ uop_queue' = Tail(uop_queue)
  /\ UNCHANGED <<fetched, fetch_queue, memory, event_queue, wrong_path, recover_kind>>

\* X86ThreadIssueIQ(): to a functional unit, which ends in the event queue.
IssueIQ(u) ==
  /\ IsReady(regs, uop[u])
  /\ iq' = iq \ {u}
  /\ event_queue' = event_queue \union {u}
  /\ uop' = [uop EXCEPT ![u].in_event_queue = TRUE]
  /\ UNCHANGED <<fetched, fetch_queue, uop_queue, rob, lq, sq, memory, regs, wrong_path, recover_kind>>

\* X86ThreadIssueLQ() and X86ThreadIssueSQ(): to the L1; the uop counts as in
\* the event queue from now on.  Stores issue before they commit.
Access(u) ==
  /\ IsReady(regs, uop[u])
  /\ memory' = memory \union {u}
  /\ uop' = [uop EXCEPT ![u].in_event_queue = TRUE]
  /\ UNCHANGED <<fetched, fetch_queue, uop_queue, rob, iq, event_queue, regs, wrong_path, recover_kind>>

IssueLQ(u) == Access(u) /\ lq' = lq \ {u} /\ UNCHANGED sq
IssueSQ(u) == Access(u) /\ sq' = sq \ {u} /\ UNCHANGED lq

Issue == (\E u \in iq : IssueIQ(u)) \/ (\E u \in lq : IssueLQ(u)) \/ (\E u \in sq : IssueSQ(u))

\* The L1 puts a finished access in the event queue of the core.
MemoryReturns(u) ==
  /\ memory' = memory \ {u}
  /\ event_queue' = event_queue \union {u}
  /\ UNCHANGED <<uop, fetched, fetch_queue, uop_queue, rob, iq, lq, sq, regs, wrong_path, recover_kind>>

-----------------------------------------------------------------------------
(* Recovery, writeback and commit.                                         *)

\* Mutant: a squashed uop that never completed leaves its registers pending.
SquashPending(f, rf, u) == Undo(rf, f[u])

\* Registers of a squashed uop are written if they never were.
SquashRegs(f, rf, u) == Undo(IF f[u].completed THEN rf ELSE Write(rf, f[u]), f[u])

SquashAll(f, rf, q) == FoldRight(LAMBDA u, acc : SquashRegs(f, acc, u), q, rf)

\* Mutant: the branch goes with the wrong path behind it.
TrimmedWithBranch(q) ==
  SubSeq(q, 1, Max({0} \union {i \in DOMAIN q : ~uop[q[i]].specmode /\ ~uop[q[i]].mispredicted}))

\* A FIFO queue without the wrong-path uops at its end.
Trimmed(q) == SubSeq(q, 1, Max({0} \union {i \in DOMAIN q : ~uop[q[i]].specmode}))

\* X86ThreadRecover(): the queues first, then the ROB from its tail.  f, rf,
\* order and events are what the stage that recovers has made of the uops, the
\* registers, the ROB and the event queue; done is a uop it still has to free.
Recover(f, rf, order, events, done) ==
  LET spec == {u \in DOMAIN f : f[u].specmode}
      tail == SubSeq(order, Len(Trimmed(order)) + 1, Len(order))
      gone == [u \in DOMAIN f |-> IF u \in events \intersect spec
                                 THEN [f[u] EXCEPT !.in_event_queue = FALSE] ELSE f[u]]
  IN /\ fetch_queue' = Trimmed(fetch_queue)
     /\ uop_queue' = Trimmed(uop_queue)
     /\ rob' = Trimmed(order)
     /\ iq' = iq \ spec /\ lq' = lq \ spec /\ sq' = sq \ spec
     /\ event_queue' = events \ spec
     /\ regs' = SquashAll(f, rf, tail)
     /\ uop' = FreeIfNotQueued(gone, {done} \union ((Queued \union events) \intersect spec))
     /\ wrong_path' = FALSE

\* Mutant: the queue is served from the other end.
Youngest == Max(event_queue)

\* X86CoreWriteback() takes the oldest uop of the event queue.
Oldest == Min(event_queue)

\* A system call is charged its trap once it is the oldest of the ROB, and
\* completes later.
Trap ==
  /\ event_queue # {}
  /\ LET u == Oldest
     IN /\ Op(u) = "syscall" /\ u = Head(rob) /\ ~uop[u].syscall_ready
        /\ uop' = [uop EXCEPT ![u].syscall_ready = TRUE]
  /\ UNCHANGED <<fetched, fetch_queue, uop_queue, rob, iq, lq, sq, memory, event_queue, regs,
                 wrong_path, recover_kind>>

\* Mutant: branches of the wrong path recover too.
RecoversAlways(u) == recover_kind = "writeback" /\ Op(u) = "ctrl" /\ uop[u].mispredicted

RecoversAtWriteback(u) ==
  recover_kind = "writeback" /\ Op(u) = "ctrl" /\ ~uop[u].specmode /\ uop[u].mispredicted

\* The registers are written whether or not the uop is still in the ROB.
Writeback ==
  /\ event_queue # {}
  /\ LET u == Oldest
         f == [uop EXCEPT ![u].in_event_queue = FALSE, ![u].completed = TRUE]
         rf == Write(regs, uop[u])
     IN /\ Op(u) = "syscall" => uop[u].syscall_ready
        /\ IF RecoversAtWriteback(u) THEN Recover(f, rf, rob, event_queue \ {u}, u)
           ELSE /\ event_queue' = event_queue \ {u}
                /\ regs' = rf
                /\ UNCHANGED <<fetch_queue, uop_queue, rob, iq, lq, sq, wrong_path>>
                /\ uop' = FreeIfNotQueued(f, {u})
  /\ UNCHANGED <<fetched, memory, recover_kind>>

RecoversAtCommit(u) == recover_kind = "commit" /\ Op(u) = "ctrl" /\ uop[u].mispredicted

Commit ==
  /\ rob # <<>>
  /\ LET u == Head(rob)
         rf == CommitRegs(regs, uop[u])
     IN /\ uop[u].completed
        /\ IF RecoversAtCommit(u) THEN Recover(uop, rf, Tail(rob), event_queue, u)
           ELSE /\ rob' = Tail(rob)
                /\ regs' = rf
                /\ UNCHANGED <<fetch_queue, uop_queue, iq, lq, sq, event_queue, wrong_path>>
                /\ uop' = FreeIfNotQueued(uop, {u})
  /\ UNCHANGED <<fetched, memory, recover_kind>>

-----------------------------------------------------------------------------
\* What the core does with the uops it has fetched.
Advance ==
  \/ Decode
  \/ \E u \in memory : MemoryReturns(u)
  \/ Issue
  \/ Trap
  \/ Commit
  \/ Writeback
  \/ Dispatch

Next == Advance \/ \E inst \in Insts : Fetch(inst)

Spec == Init /\ [][Next]_vars

\* Every stage runs each cycle and an access comes back (CpuMesi has that of the
\* caches), so the core does not stand still while any of them can go on.
\* Nothing makes the program go on.
FairSpec == Spec /\ WF_vars(Advance)

-----------------------------------------------------------------------------
(* Properties.                                                             *)

TypeOK ==
  /\ fetched \in 0..MaxUops
  /\ DOMAIN uop \subseteq 1..fetched
  /\ \A u \in DOMAIN uop :
       /\ \E inst \in Insts : uop[u].uinst \in ToSet(inst)
       /\ {uop[u].specmode, uop[u].mispredicted, uop[u].in_event_queue, uop[u].completed,
           uop[u].syscall_ready} \subseteq BOOLEAN
       /\ ToSet(uop[u].ph_odep) \union ToSet(uop[u].ph_oodep) \subseteq Phys
  /\ regs.rat \in [Logical -> Phys]
  /\ \A f \in File : ToSet(regs.free[f]) \subseteq {p \in Phys : FileOf(p) = f}
  /\ regs.busy \in [Phys -> Nat] /\ regs.pending \in [Phys -> BOOLEAN]
  /\ regs.top \in 0..(StackDepth - 1)
  /\ wrong_path \in BOOLEAN /\ recover_kind \in RecoverKinds

\* A uop exists exactly while some structure or the memory system holds it: none
\* is freed while queued (the assertions on x86_uop_exists()), and none leaks.
UopsAccounted == DOMAIN uop = Queued \union memory \union event_queue

\* The assertions of the stages and of the register file hold through any
\* recovery: uops are freed when the last structure lets go of them, registers
\* are taken free and not pending, dropped when busy and done, stores issue from
\* the ROB, nothing of the wrong path commits, and nothing completes twice.  The
\* tables they index keep their types and the top of the FP stack its range.
HandlersDoNotAbort ==
  /\ TypeOK
  /\ UopsAccounted
  /\ regs.ok
  /\ sq \subseteq ToSet(rob)
  /\ rob # <<>> => ~(uop[Head(rob)].completed /\ uop[Head(rob)].specmode)
  /\ \A u \in event_queue : ~uop[u].completed

\* Registers do not leak or get lost over renames, commits and squashes: a
\* register is as busy as the map and the earlier mappings kept by uops in the
\* ROB say, and those that nothing keeps are free, once.  And nobody waits for a
\* value that will not come: a pending register is the output of a uop in the
\* ROB that has yet to complete.
RegistersAccounted ==
  /\ \A p \in Phys : regs.busy[p] =
       Cardinality({l \in Logical : regs.rat[l] = p})
       + Cardinality({w \in ToSet(rob) \X (1..MaxOutputs) :
                        w[2] \in DOMAIN uop[w[1]].ph_oodep /\ uop[w[1]].ph_oodep[w[2]] = p})
  /\ \A f \in File :
       /\ IsInjective(regs.free[f])
       /\ ToSet(regs.free[f]) = {p \in Phys : FileOf(p) = f /\ regs.busy[p] = 0}
  /\ \A p \in Phys : regs.pending[p] =>
       \E u \in ToSet(rob) : ~uop[u].completed /\ p \in ToSet(uop[u].ph_odep)

\* The top of the FP stack as it was right after the uop at i was renamed.
TopAfter(i) ==
  FoldLeft(LAMBDA top, u : (top + StackDepth - Shift(Op(u))) % StackDepth,
           regs.top, Reverse(SubSeq(rob, i + 1, Len(rob))))

\* The outputs of uops in the ROB that rename l, as <<place, output>>.
Writers(l) ==
  {w \in (DOMAIN rob) \X (1..MaxOutputs) :
     /\ w[2] \in DOMAIN uop[rob[w[1]]].ph_odep
     /\ Resolve(uop[rob[w[1]]].uinst.odep[w[2]], TopAfter(w[1])) = l}

Before(v, w) == v[1] < w[1] \/ (v[1] = w[1] /\ v[2] < w[2])
LastOf(W) == CHOOSE w \in W : \A v \in W \ {w} : Before(v, w)
Output(w) == uop[rob[w[1]]].ph_odep[w[2]]
WritersBefore(l, i) == {w \in Writers(l) : w[1] < i}

\* Renaming follows program order over recoveries and moves of the FP stack:
\* the map names the youngest writer, each writer keeps its predecessor, and a
\* uop reads the youngest older writer.
RenamingFollowsProgram ==
  /\ \A l \in Logical : LET W == Writers(l) IN
       /\ W # {} => regs.rat[l] = Output(LastOf(W))
       /\ \A w \in W : LET older == {v \in W : Before(v, w)} IN
            older # {} => uop[rob[w[1]]].ph_oodep[w[2]] = Output(LastOf(older))
  /\ \A i \in DOMAIN rob : \A l \in uop[rob[i]].uinst.idep :
       LET W == WritersBefore(Resolve(l, TopAfter(i)), i) IN
         W # {} => uop[rob[i]].ph_idep[l] = Output(LastOf(W))

\* The wrong path begins right behind one branch that has still to recover:
\* so a recovery squashes no uop of the program, leaves none of the wrong path
\* and, at commit, an empty ROB (what the assertion on recover asks).
WrongPathIsBehindABranch ==
  LET pending == {u \in Queued \union event_queue : /\ uop[u].mispredicted /\ ~uop[u].specmode
                                                    /\ recover_kind = "writeback" => ~uop[u].completed}
  IN /\ wrong_path <=> pending # {}
     /\ Cardinality(pending) <= 1
     /\ \A u \in Queued : uop[u].specmode <=> \E b \in pending : b < u

\* The uops of the program in flight, in program order.
RightPath ==
  FoldLeft(LAMBDA path, u : IF uop[u].specmode THEN path ELSE Append(path, u),
           <<>>, rob \o uop_queue \o fetch_queue)

Ref == INSTANCE InOrder WITH window <- RightPath

\* Speculation and out-of-order completion cannot be told from the outside:
\* what enters on the right path stays, through every recovery, and leaves in
\* program order.
RetiresInOrder == Ref!Spec

\* ... and all of it leaves: a system call, the trap it is charged and the event
\* queue do not wait for each other.
EveryoneRetires == Ref!EveryoneRetires

\* "Return 1 if input dependencies are resolved": a uop leaves the queue it
\* waits in only after the uops in the ROB that produce its operands completed.
IssuesWithOperands ==
  \A i \in DOMAIN rob : rob[i] \in memory \union event_queue =>
    \A l \in uop[rob[i]].uinst.idep :
      LET W == WritersBefore(Resolve(l, TopAfter(i)), i)
      IN W # {} => uop[rob[LastOf(W)[1]]].completed
=============================================================================
