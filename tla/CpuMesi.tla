------------------------------- MODULE CpuMesi -------------------------------
(***************************************************************************)
(* The MESI protocol of the CPU caches: the L1s, the L2s and the L3 of     *)
(* module Mesi together, and what makes them coherent.                     *)
(***************************************************************************)
EXTENDS MesiL1, MesiL2, MesiL3

Next == L1Next \/ L2Next \/ L3Next
Spec == Init /\ [][Next]_vars

\* Each controller runs again while it has a packet, and a packet sent to it
\* arrives; memory answers.
Fairness ==
  /\ \A c \in Core :
       /\ WF_vars(L1Serves(c))
       /\ \A src \in {Retry, <<"down", c>>} \cup {ch \in Ring : ch[2] = c} : WF_vars(L2Serves(c, src))
  /\ \A src \in {L3Retry} \cup {ch \in Ring : ch[2] = "L3"} : WF_vars(L3Serves(src))
  /\ WF_vars(L3WriteBlock)
FairSpec == Spec /\ Fairness

-----------------------------------------------------------------------------
Packets == UNION {{chan[ch][i] : i \in DOMAIN chan[ch]} : ch \in Channel}

PacketType == [type : STRING, req : Core, acc : {"get", "getx", "upgrade", "none"}, st : BlockState,
               l3p : BOOLEAN, n : -Cardinality(Core) .. Cardinality(Core), dgp : {0, 1}]
WBType == [st : BlockState \ {"S"}, fp : BOOLEAN, join : BOOLEAN]

\* The types of the protocol's state: among them, the requester never counts
\* more acknowledgements than there are cores and a write-back buffer never
\* holds a shared block.
TypeOK ==
  /\ l1 \in [Core -> [st : BlockState, fill : BOOLEAN, row : Row, wb : BOOLEAN,
                      op : {"none", "load", "store"}]]
  /\ \A c \in Core :
       /\ DOMAIN l2[c] = DOMAIN L2Init
       /\ l2[c].st \in BlockState /\ {l2[c].tran, l2[c].upg} \subseteq BOOLEAN
       /\ l2[c].row \in Row /\ l2[c].wb \in WBType
       /\ l2[c].pend \in Seq(PacketType) /\ l2[c].retry \in Seq(PacketType)
  /\ DOMAIN l3 = DOMAIN L3Init
  /\ l3.st \in BlockState /\ {l3.tran, l3.pb, l3.row} \subseteq BOOLEAN
  /\ l3.dir \subseteq Core /\ l3.wb \in WBType
  /\ {l3.coal, l3.retry, l3.mem} \subseteq Seq(PacketType)
  /\ DOMAIN chan = Channel /\ Packets \subseteq PacketType
  /\ {unsaved, late} \subseteq BOOLEAN

\* The assertions and fatal() checks that can fail though no packet was late.
\* An L1 has been granted the block again when an invalidation comes
\* (cpu_mesi_protocol.c:8792).
FailsInL1(c, m) == m.type = "upgrade_inval" /\ l1[c].st \in {"E", "M"}

\* An L2 has been granted it again (9140); a nack finds a forward that waits
\* (2084, 2454); a forward for a block given up (4308) or the answer to a flush
\* (3681) finds the L1 with a copy; an answer with l3_pending is stale while no
\* forward has come yet (5033).
FailsInL2(c, s, m) ==
  \/ m.type = "upgrade_inval" /\ s.st \in {"E", "M"}
  \/ m.type \in {"get_nack", "getx_nack"} /\ s.row = "stale" /\ HasPending(s)
  \/ m.type \in {"get_fwd", "flush_block_ack"} /\ ~L1Flushed(c)
  \/ m.type \in Puts /\ m.l3p /\ s.row = "stale" /\ ~s.upg /\ ~HasPending(s)

\* A core that answers a flush or writes back has the block again (8419, 8656),
\* or the L3 shares it (8578) or has evicted it (8610) since; an upgrade finds a
\* block that its owner wrote back (10296).
FailsInL3(s, m) ==
  \/ m.type \in {"flush_block_ack", "write_back"} /\ ~CoreFlushed(m.req)
  \/ m.type = "write_back" /\ (s.st = "S" \/ (s.st = "I" /\ s.wb.st = "I"))
  \/ m.type = "upgrade" /\ Owned(s) /\ ~s.pb /\ s.dir = {}

\* Until a late packet has come, whatever packet a controller may select passes
\* the assertions and fatal() checks of its handler, but for those at the
\* lines named above.
HandlersDoNotAbort ==
  \/ late
  \/ /\ \A c \in Core :
          /\ \A i \in NextUp(c) :
               LET m == chan[<<"up", c>>][i] IN L1May(c, m) \/ FailsInL1(c, m)
          /\ l2[c].wb.st # "I" /\ ~l2[c].wb.fp /\ l2[c].retry = <<>> => MayDrain(c)
          /\ \A src \in L2Sources(c) :
               LET s == L2Self(c, src)
                   m == L2First(c, src)
               IN L2May(c, s, m) \/ FailsInL2(c, s, m)
     /\ \A src \in L3Sources :
          LET s == L3Self(src)
              m == L3First(src)
          IN L3May(s, m) \/ FailsInL3(s, m)

-----------------------------------------------------------------------------
OwnedIn(c) == {l2[c].st, l2[c].wb.st} \cap {"E", "M"} # {}
Copies(c) == {l1[c].st, l2[c].st, l2[c].wb.st} \cup (IF l1[c].wb THEN {"M"} ELSE {})

\* While one L2 owns the block no other holds it, but for a shared copy whose
\* invalidation is on its way.
OneOwner ==
  \A c, d \in Core : c # d /\ OwnedIn(c) =>
    /\ l2[d].wb.st = "I"
    /\ \/ l2[d].st = "I"
       \/ l2[d].st = "S" /\ {"flush_block", "upgrade_inval"}
                              \cap Types(<<"L3", d, L3Lane("flush_block")>>) # {}

\* A block in an L1 is in its L2 or on its way out, and a modified one is owned
\* by the L2.
Inclusion ==
  \A c \in Core :
    /\ l1[c].st # "I" /\ l2[c].st = "I" /\ l2[c].wb.st = "I"
         => Types(<<"up", c>>) \cap {"upgrade_inval", "flush_block", "getx_fwd_inval"} # {}
    /\ Dirty(c) => OwnedIn(c)

\* The caches are coherent, one core may store or any number may load, in
\* whatever order packets come, until one is late in a way named with PassesFlush,
\* Outrun, L2Mistakes, L3Mistakes or Overtaken: then the code may let two own the
\* block (cgm_mesi_l3_write_back clears the entry of the new owner, 8674).
Coherent == late \/ (OneOwner /\ Inclusion)

\* A stored value that memory does not have is marked modified in some cache or
\* in a packet, until the L3 writes it to memory, unless a packet was late.
Saves == {"flush_block_ack", "write_back", "downgrade_ack", "getx_fwd_inval_ack", "getx_fwd_ack"}
NoLostStore ==
  ~late /\ unsaved => \/ \E c \in Core : "M" \in Copies(c)
             \/ "M" \in {l3.st, l3.wb.st}
             \/ \E m \in Packets : m.type = "putx" \/ (m.type \in Saves /\ m.st = "M")

Total(seq, f(_)) == FoldLeft(LAMBDA n, m : n + f(m), 0, seq)
TotalOver(channels, f(_)) ==
  MapThenSumSet(LAMBDA ch : Total(chan[ch], f), {ch \in channels : chan[ch] # <<>>})

\* What the L3 told a requester to wait for is what has been counted and what
\* is still to come: acknowledgements under way and invalidations that have
\* not been answered.
AcksBalance ==
  \A c \in Core :
    LET due(m) == CASE m.req = c /\ m.type \in {"upgrade_ack", "upgrade_putx_n"} -> m.n
                    [] m.req = c /\ m.type = "upgrade_inval" -> -1
                    [] OTHER -> 0
        counted(p) == IF p.type \in {"upgrade", "upgrade_putx_n"} THEN p.n ELSE 0
    IN TotalOver(Ring, due) + Total(l2[c].pend, counted) = 0

\* While the directory entry's pending bit is set one forward is on its way,
\* waits in an L2 or has been answered, and otherwise none is.
OneForward ==
  LET asks(m) == IF m.type \in Fwd THEN 1 ELSE 0
      ends(m) == IF m.type \in {"downgrade_ack", "getx_fwd_ack", "downgrade_nack", "getx_fwd_nack"}
                 THEN 1 ELSE 0
  IN TotalOver({ch \in Ring : ch[1] = "L3"}, asks) + TotalOver({ch \in Ring : ch[2] = "L3"}, ends)
       + MapThenSumSet(LAMBDA c : Total(l2[c].pend, asks) + Total(l2[c].retry, asks), Core)
     = IF l3.pb THEN 1 ELSE 0

\* No acknowledgement and no forward is lost or answered twice, unless a packet
\* was late.
AnswersAccounted == late \/ (AcksBalance /\ OneForward)

Quiet ==
  /\ \A ch \in Channel : chan[ch] = <<>>
  /\ \A c \in Core : l2[c].retry = <<>>
  /\ l3.retry = <<>> /\ l3.mem = <<>>

NobodyWaits ==
  /\ \A c \in Core : /\ l1[c].op = "none" /\ ~l1[c].fill /\ l1[c].row = "free"
                     /\ ~l2[c].tran /\ ~l2[c].upg /\ l2[c].row = "free"
                     /\ ~l2[c].wb.fp /\ l2[c].pend = <<>>
  /\ ~l3.pb /\ ~l3.row /\ ~l3.tran /\ l3.coal = <<>> /\ ~l3.wb.fp

DirectoryCovers == \A c \in Core : Copies(c) # {"I"} => l3.st # "I" /\ c \in l3.dir

\* Once nothing is under way no access, forward, request or flush is left
\* waiting for something that will not come, and the directory knows every
\* copy, unless a packet was late.
QuietIsClean == ~late /\ Quiet => NobodyWaits /\ DirectoryCovers

\* Every load and store that misses returns, however often it is refused.
AccessesReturn == \A c \in Core : l1[c].op # "none" ~> l1[c].op = "none"
=============================================================================
